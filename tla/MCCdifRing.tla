----------------------------- MODULE MCCdifRing -----------------------------
(***************************************************************************)
(* Instances of CdifRing for TLC.  The ring has five half buffers of eight *)
(* samples (1024 of 2048 in the driver): as in the driver a half buffer is *)
(* larger than the spare samples, and a frame (588 there) is no divisor of *)
(* the ring, so the read pointer wraps at every distance from the end.     *)
(***************************************************************************)
EXTENDS CdifRing

\* Back, the same sector again, the next one, one skipped, too far.
MCGaps  == {-1, 0, 1, 2, 3}
MCSteps == {3, 7}
=============================================================================
