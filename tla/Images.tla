--------------------------------- MODULE Images ---------------------------------
(***************************************************************************)
(* The images of a coarray program (libcaf): _num_images processes that    *)
(* share memory by remote reads, writes and atomic operations.             *)
(***************************************************************************)
CONSTANTS Image, NoImage

ASSUME ImagesAssumption == NoImage \notin Image
=============================================================================
