--------------------------- MODULE MCSeekChannel ---------------------------
(* Instances of SeekChannel for TLC; all constants are given in the .cfg.  *)
EXTENDS SeekChannel
=============================================================================
