---------------------------- MODULE MCTaskRuntime ----------------------------
(***************************************************************************)
(* The values TLC checks TaskRuntime with, that every wait of it ends, and *)
(* what comments of the code say of a task's life time.                    *)
(***************************************************************************)
EXTENDS TaskRuntimeProps

TiedKinds == [tied : {TRUE}, blocks : BOOLEAN, mayDelay : {TRUE}]
PlainTied == [tied : {TRUE}, blocks : {FALSE}, mayDelay : {TRUE}]
AllKinds == TaskKind

-----------------------------------------------------------------------------
(* An explicit deferred task is not deleted while a child has yet to       *)
(* decrement one of its counters (omp_task.c:234-235, 304-305).            *)
CountedParentLive ==
    \A n \in Used :
        IsDeferred(n) /\ IsDeferred(parent[n])
        /\ (pc[n] \notin Uncounted \/ (kind[n].blocks /\ pc[n] \notin Gone))
        => mem[parent[n]] = "live"

(* Every wait ends: no taskwait, task exit or barrier blocks for ever, and *)
(* the team leaves the region (omp_task.c:201-206, 254-259,                *)
(* omp_thread.h:351-372, omp_thread.c:1014-1058).                          *)
RegionEnds == <>RegionOver

-----------------------------------------------------------------------------
(* omp_task.c:238-240: a task is freed only when no child may still update *)
(* its num_children.  Implicit tasks are freed at the end of the region.   *)
ImplicitParentLive ==
    \A n \in Used : pc[n] = "exitDec" /\ IsImplicit(parent[n]) => mem[parent[n]] = "live"
=============================================================================
