------------------------------ MODULE MCWorksharing ------------------------------
(***************************************************************************)
(* Programs for Worksharing: every schedule, with and without ordered and  *)
(* collapse, upwards, downwards and empty, with a last chunk that is cut   *)
(* short; single with and without nowait and copyprivate.                  *)
(***************************************************************************)
EXTENDS WorksharingProps

Up(sched, ordered, chunk) == Loop(sched, ordered, FALSE, 0, 8, 2, chunk)
Down(sched, ordered, chunk) == Loop(sched, ordered, FALSE, 5, 2, -1, chunk)
Empty(sched, ordered) == Loop(sched, ordered, FALSE, 1, -3, 1, 2)
Narrow(sched, ordered) == Loop(sched, ordered, FALSE, 1, 0, 2, 2)
Nest(sched, ordered, n, chunk) == Loop(sched, ordered, TRUE, 0, n - 1, 1, chunk)

Variety ==
    {<<Up("init_even", FALSE, 0), Single(FALSE, TRUE)>>,
     <<NoWait(Down("static", FALSE, 1))>>,
     <<Up("static_even", TRUE, 0), Down("dynamic", FALSE, 2)>>,
     <<Down("static", TRUE, 1), Narrow("static_even", FALSE)>>,
     <<Down("dynamic", TRUE, 1)>>, <<NoWait(Up("guided", TRUE, 1)), Down("init_chunk", FALSE, 1),
       Narrow("init_even", FALSE)>>,
     <<Down("guided", FALSE, 1), Narrow("dynamic", TRUE)>>,
     <<Nest("static_even", FALSE, 2, 0), Nest("dynamic", TRUE, 5, 2)>>,
     <<Nest("static_even", TRUE, 4, 0), Up("static", FALSE, 2), Narrow("static", FALSE)>>,
     <<Nest("static", TRUE, 4, 1), Empty("init_chunk", FALSE)>>,
     <<Nest("guided", TRUE, 4, 1)>>, <<Nest("dynamic", FALSE, 3, 2)>>,
     <<Single(FALSE, TRUE), Single(TRUE, FALSE), Single(TRUE, FALSE)>>}

\* what the next region finds in the team is what any of them left
AllPrograms ==
    <<Variety, {<<Down("dynamic", TRUE, 2)>>, <<Nest("static", FALSE, 4, 1)>>,
                <<Single(TRUE, FALSE)>>}>>

\* a team of three follows one of two: two loops of different bounds
TwoLoops == <<{<<Up("static", FALSE, 1)>>}, {<<Down("static", FALSE, 1)>>}>>
=============================================================================
