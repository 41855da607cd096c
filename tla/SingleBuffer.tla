---------------------------- MODULE SingleBuffer ----------------------------
(***************************************************************************)
(* The circular sample buffer of SingleBuffer.c as operators.  A buffer is *)
(* its length `len` and the two indices the C structure keeps: `rp`        *)
(* (lReadPtr) and `wp` (lWritePtr).  All lengths are in stereo samples.    *)
(*                                                                         *)
(* rp = wp means empty; four samples are kept back so that a full buffer   *)
(* does not look empty.  Init, IsEmpty and UpdateWritePointer are left     *)
(* out: the driver never calls them (the interrupt moves lWritePtr itself).*)
(***************************************************************************)
EXTENDS Integers

\* CDDI_BUFFER_SPACE: the samples SpaceAvailable keeps back.
SPARE == 4

\* SingleBufferSet accepts only lengths that are a multiple of four samples.
LengthAccepted(len) == len % 4 = 0

SingleBufferDataAvailable(len, rp, wp) ==
    IF wp >= rp THEN wp - rp ELSE len - (rp - wp)

\* Mutation: the spare samples are forgotten in the wrapped case.
SpaceWithoutSpare(len, rp, wp) ==
    CASE wp = rp -> len - SPARE
      [] wp > rp -> len - (wp - rp) - SPARE
      [] wp < rp -> rp - wp

SingleBufferSpaceAvailable(len, rp, wp) ==
    CASE wp = rp -> len - SPARE
      [] wp > rp -> len - (wp - rp) - SPARE
      [] wp < rp -> rp - wp - SPARE

\* UpdateReadPointer stores rp + n, unwrapped, and corrects it afterwards:
\* `Wrap` is the correction.  Its last comparison is there for a pointer that
\* is still out of range, which takes a move longer than the buffer.
Wrap(len, r) ==
    LET once == IF r > len THEN r - len ELSE IF r = len THEN 0 ELSE r
    IN  IF once >= len THEN len - once ELSE once
=============================================================================
