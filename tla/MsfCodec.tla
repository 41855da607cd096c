------------------------------ MODULE MsfCodec ------------------------------
(***************************************************************************)
(* The address conversions of cdif_api.c: packed BCD bytes, TIME_CD (an    *)
(* unsigned long that is also frame, second, minute and mode, one byte     *)
(* each) and frame numbers.  A second has 75 frames, a minute 60 seconds.  *)
(* Bytes wrap at 256, as unsigned char does.                               *)
(***************************************************************************)
EXTENDS Integers

Bytes == 0 .. 255

TIME_CD(ulValue) ==
    [ucFrame |-> ulValue % 256,            ucSec  |-> (ulValue \div 256) % 256,
     ucMin   |-> (ulValue \div 65536) % 256, ucMode |-> (ulValue \div 16777216) % 256]

\* The value of a TIME_CD with ucMode = 0.
Packed(min, sec, frame) == 65536 * min + 256 * sec + frame

\* The loop takes one ten from lHex and adds 0x10 to lBcd until no ten is left.
CD_HEX2BCD[lHex \in Bytes] ==
    IF lHex < 10 THEN lHex ELSE (16 + CD_HEX2BCD[lHex - 10]) % 256

CD_BCD2HEX[lBcd \in Bytes] ==
    IF lBcd < 16 THEN lBcd ELSE (10 + CD_BCD2HEX[lBcd - 16]) % 256

\* Mutation: a second has 74 frames.
ShortSeconds(lMSF) ==
    LET t == TIME_CD(lMSF)
    IN  CD_BCD2HEX[t.ucMin] * 60 * 75 + CD_BCD2HEX[t.ucSec] * 74 + CD_BCD2HEX[t.ucFrame]

CD_BCDMSF2FRAME(lMSF) ==
    LET t == TIME_CD(lMSF)
    IN  CD_BCD2HEX[t.ucMin] * 60 * 75 + CD_BCD2HEX[t.ucSec] * 75 + CD_BCD2HEX[t.ucFrame]

CD_HEXMSF2FRAME(lMSF) ==
    LET t == TIME_CD(lMSF)
    IN  t.ucMin * 60 * 75 + t.ucSec * 75 + t.ucFrame

\* The minutes are cut to a byte before they are taken off, so that what is
\* left of a larger address does not fit the seconds.
CD_FRAME2HEX(lFrame) ==
    LET m    == (lFrame \div 4500) % 256
        rest == lFrame - m * 4500
        s    == (rest \div 75) % 256
    IN  Packed(m, s, (rest - s * 75) % 256)

CD_FRAME2MSF(lFrame) ==
    LET t == TIME_CD(CD_FRAME2HEX(lFrame))
    IN  Packed(CD_HEX2BCD[t.ucMin], CD_HEX2BCD[t.ucSec], CD_HEX2BCD[t.ucFrame])

CD_byte2sector(byte) == byte \div 2048 + IF byte % 2048 # 0 THEN 1 ELSE 0

\* The address in a header: three bytes from MINUTE_LOCA on, shifted into msf.
HeaderFrame(header) == CD_BCDMSF2FRAME((header[1] * 256 + header[2]) * 256 + header[3])
-----------------------------------------------------------------------------
\* What the disc has in the header of frame n: minute, second and frame, two
\* decimal digits each.
Digits(k) == 16 * (k \div 10) + (k % 10)
DiscHeader(n) == <<Digits(n \div 4500), Digits((n \div 75) % 60), Digits(n % 75)>>

\* Addresses at which a field or a digit of one goes over, up to 99:59:74.
Edges == {4500 * m + 75 * s + f : m \in {0, 1, 9, 10, 79, 99}, s \in {0, 9, 10, 59}, f \in {0, 9, 10, 74}}

\* Lengths on both sides of one and of two sectors.
Lengths == 0 .. 5000

\* The sectors counted hold the bytes, and none of them is empty.
Holds(byte) == CD_byte2sector(byte) * 2048 - byte \in 0 .. 2047

\* "Change MSF to Frame value" (cdif_api.c:135), "Change Frame to MSF value"
\* (cdif_api.c:183): every digit pair comes back, and at every edge an address
\* in a header is the frame's, the two ways to write an address agree, and both
\* are undone by their inverse.
RoundTrips ==
    /\ \A k \in 0 .. 99 : CD_HEX2BCD[k] = Digits(k) /\ CD_BCD2HEX[Digits(k)] = k
    /\ \A n \in Edges :
          /\ HeaderFrame(DiscHeader(n)) = n
          /\ CD_BCDMSF2FRAME(CD_FRAME2MSF(n)) = n
          /\ CD_HEXMSF2FRAME(CD_FRAME2HEX(n)) = n
    /\ \A byte \in Lengths : Holds(byte)
=============================================================================
