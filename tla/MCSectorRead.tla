---------------------------- MODULE MCSectorRead ----------------------------
(***************************************************************************)
(* Small instances of SectorRead.  The deck is sent BACK = 2 frames before *)
(* the sector, not CD_SEEK_POSITION = 6, the margin is MARGIN = 3 or 4     *)
(* frames, not CD_SEEK_TOLERANCE = 12, and the ring holds MARGIN + size.   *)
(* The deck lands before the place it was sent to by more than BACK, at    *)
(* it, or behind the sector, so that every branch of SEARCH_LBN is taken.  *)
(***************************************************************************)
EXTENDS SectorRead

MCLandings == {-3, 0, 4}
\* For the run that also checks that reads end: where it was sent to, or
\* so far behind the sector that one frame of the disc, or none, still comes.
MCFewLandings == {0, 5}
=============================================================================
