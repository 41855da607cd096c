--------------------------- MODULE MCHeaderSearch ---------------------------
(***************************************************************************)
(* HeaderSearch over two byte values, windows of eight bytes and moves of  *)
(* four.  The buffers are put together from blocks: the sync pattern, its  *)
(* beginning, its end, and noise, at every distance from the windows'      *)
(* ends; the last block is a sync, so that the search goes on behind a     *)
(* header.  The conversions that the header's address goes through are     *)
(* checked along with it.                                                  *)
(***************************************************************************)
EXTENDS HeaderSearch, MsfCodec

ASSUME ConversionAssumption == RoundTrips

\* The shape of the sync pattern, and patterns with borders of borders.
MCPatterns == {<<0, 1, 1, 0>>, <<0, 0, 1, 0, 0>>, <<0, 1, 0, 1>>, <<0, 0, 0>>}

Blocks == {<<0, 1, 1, 0>>, <<0, 0, 1, 0>>, <<1, 0, 0, 1>>, <<0, 1, 0, 0>>, <<1, 0, 1, 0>>}
MCBuffers == {a \o b \o c \o d \o <<0, 1, 1, 0>> : a, b, c, d \in Blocks}
=============================================================================
