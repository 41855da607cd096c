---------------------------- MODULE MCBlockThread ----------------------------
(***************************************************************************)
(* BlockThread with two reads and a request of another kind.  The reads    *)
(* are interchangeable, but symmetry is not sound for the liveness         *)
(* properties, which the same run checks.                                  *)
(***************************************************************************)
EXTENDS BlockThread

CONSTANTS r1, r2, w

MCReads == {r1, r2}
MCOthers == {w}
=============================================================================
