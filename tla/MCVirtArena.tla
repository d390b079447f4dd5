----------------------------- MODULE MCVirtArena -----------------------------
(***************************************************************************)
(* Bounded instance of VirtArena: every build, a small reservation.        *)
(***************************************************************************)
EXTENDS VirtArena

CONSTANTS t1, t2, t3

MCBuilds == [unix : BOOLEAN, overflow_checks : BOOLEAN]
MCUnixRelease == {[unix |-> TRUE, overflow_checks |-> FALSE]}
==============================================================================
