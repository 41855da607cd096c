---------------------------- MODULE MCHiddenMmc ----------------------------
(***************************************************************************)
(* HiddenMmc with three areas, the last of no size like most of            *)
(* hidden_mmc.h, and sectors of two bytes.                                 *)
(***************************************************************************)
EXTENDS HiddenMmc

MCSectorSize == [i \in 0 .. 2 |-> CASE i = 0 -> 1 [] i = 1 -> 2 [] OTHER -> 0]
=============================================================================
