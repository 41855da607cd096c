--------------------------- MODULE MsfCodecProofs ---------------------------
(***************************************************************************)
(* The address in the header of every frame up to 99:59:74 is read as that *)
(* frame's.  The loop of CD_BCD2HEX goes round at most nine times for two  *)
(* decimal digits, so that it can be followed turn by turn.                *)
(***************************************************************************)
EXTENDS MsfCodec, TLAPS

\* The recursive definition has a solution, the value the loop computes ...
LEMMA Unfolded ==
    CD_BCD2HEX = [lBcd \in Bytes |-> IF lBcd < 16 THEN lBcd ELSE (10 + CD_BCD2HEX[lBcd - 16]) % 256]
<1>. DEFINE val(b) == (10 * (b \div 16) + (b % 16)) % 256
            g == [b \in Bytes |-> val(b)]
<1>1. ASSUME NEW b \in Bytes PROVE val(b) = IF b < 16 THEN b ELSE (10 + val(b - 16)) % 256
  <2>1. CASE b < 16
    <3>1. b \div 16 = 0 /\ b % 16 = b  BY <2>1 DEF Bytes
    <3>. QED  BY <2>1, <3>1 DEF Bytes
  <2>2. CASE b >= 16
    <3>1. PICK d \in 1 .. 15, k \in 0 .. 15 : b = 16 * d + k
      <4>1. b \div 16 \in 1 .. 15 /\ b % 16 \in 0 .. 15 /\ b = 16 * (b \div 16) + (b % 16)
        BY <2>2 DEF Bytes
      <4>. QED  BY <4>1
    <3>2. b \div 16 = d /\ b % 16 = k /\ (b - 16) \div 16 = d - 1 /\ (b - 16) % 16 = k
      BY <3>1
    <3>. QED  BY <2>2, <3>1, <3>2
  <2>. QED  BY <2>1, <2>2 DEF Bytes
<1>2. ASSUME NEW b \in Bytes, ~(b < 16) PROVE g[b - 16] = val(b - 16)
  <2>1. b - 16 \in Bytes  BY <1>2 DEF Bytes
  <2>. QED  BY <2>1
<1>. HIDE DEF val
<1>3. g = [b \in Bytes |-> IF b < 16 THEN b ELSE (10 + g[b - 16]) % 256]
  <2>1. ASSUME NEW b \in Bytes PROVE val(b) = IF b < 16 THEN b ELSE (10 + g[b - 16]) % 256
    BY <1>1, <1>2
  <2>. QED  BY <2>1, Zenon
<1>. HIDE DEF g
<1>. QED  BY <1>3, Zenon DEF CD_BCD2HEX

\* ... and is followed one turn at a time.
LEMMA OneTurn ==
    ASSUME NEW d \in 1 .. 9, NEW k \in 0 .. 9, CD_BCD2HEX[16 * (d - 1) + k] = 10 * (d - 1) + k
    PROVE  CD_BCD2HEX[16 * d + k] = 10 * d + k
<1>1. 16 * d + k \in Bytes /\ 16 * d + k >= 16 /\ (16 * d + k) - 16 = 16 * (d - 1) + k  BY DEF Bytes
<1>2. CD_BCD2HEX[16 * d + k] = (10 + CD_BCD2HEX[(16 * d + k) - 16]) % 256  BY <1>1, Unfolded
<1>. QED  BY <1>1, <1>2

LEMMA DigitsDecoded == \A v \in 0 .. 99 : CD_BCD2HEX[Digits(v)] = v /\ Digits(v) \in Bytes
<1>. DEFINE Right(d) == \A k \in 0 .. 9 : CD_BCD2HEX[16 * d + k] = 10 * d + k
<1>0. Right(0)
  <2>1. ASSUME NEW k \in 0 .. 9 PROVE CD_BCD2HEX[16 * 0 + k] = 10 * 0 + k  BY Unfolded DEF Bytes
  <2>. QED  BY <2>1
<1>t. ASSUME NEW d \in 1 .. 9, Right(d - 1) PROVE Right(d)  BY <1>t, OneTurn
<1>. HIDE DEF Right
<1>1. Right(1)  BY <1>0, <1>t
<1>2. Right(2)  BY <1>1, <1>t
<1>3. Right(3)  BY <1>2, <1>t
<1>4. Right(4)  BY <1>3, <1>t
<1>5. Right(5)  BY <1>4, <1>t
<1>6. Right(6)  BY <1>5, <1>t
<1>7. Right(7)  BY <1>6, <1>t
<1>8. Right(8)  BY <1>7, <1>t
<1>9. Right(9)  BY <1>8, <1>t
<1>10. \A d \in 0 .. 9 : Right(d)  BY <1>0, <1>1, <1>2, <1>3, <1>4, <1>5, <1>6, <1>7, <1>8, <1>9
<1>11. ASSUME NEW v \in 0 .. 99 PROVE CD_BCD2HEX[Digits(v)] = v /\ Digits(v) \in Bytes
  <2>1. PICK d \in 0 .. 9, k \in 0 .. 9 : d = v \div 10 /\ k = v % 10  OBVIOUS
  <2>2. v = 10 * d + k  BY <2>1
  <2>3. Digits(v) = 16 * d + k  BY <2>1 DEF Digits
  <2>4. CD_BCD2HEX[16 * d + k] = 10 * d + k  BY <1>10 DEF Right
  <2>. QED  BY <2>2, <2>3, <2>4 DEF Bytes
<1>. QED  BY <1>11

\* Three bytes shifted into an unsigned long are the fields of the TIME_CD.
LEMMA Fields ==
    ASSUME NEW m \in Bytes, NEW s \in Bytes, NEW f \in Bytes
    PROVE  LET t == TIME_CD((m * 256 + s) * 256 + f)
           IN  t.ucMin = m /\ t.ucSec = s /\ t.ucFrame = f
<1>. DEFINE v == (m * 256 + s) * 256 + f
<1>1. v % 256 = f  BY DEF Bytes
<1>2. v \div 256 = m * 256 + s  BY DEF Bytes
<1>3. (v \div 256) % 256 = s  BY <1>2 DEF Bytes
<1>4. v \div 65536 = m  BY DEF Bytes
<1>5. (v \div 65536) % 256 = m  BY <1>4 DEF Bytes
<1>. QED  BY <1>1, <1>3, <1>5 DEF TIME_CD

\* "Change MSF to Frame value" (cdif_api.c:135): of every frame a disc can have,
\* up to 99:59:74, the driver reads the right address in the header.
THEOREM HeadersAreRead == \A n \in Nat : n < 450000 => HeaderFrame(DiscHeader(n)) = n
<1>. SUFFICES ASSUME NEW n \in Nat, n < 450000 PROVE HeaderFrame(DiscHeader(n)) = n
  OBVIOUS
<1>1. PICK q \in Nat, f \in Nat : q = n \div 75 /\ f = n % 75 /\ n = 75 * q + f /\ f < 75
  <2>1. n \div 75 \in Nat /\ n % 75 \in Nat /\ n = 75 * (n \div 75) + (n % 75) /\ n % 75 < 75
    OBVIOUS
  <2>. QED  BY <2>1
<1>2. PICK m \in Nat, s \in Nat : m = q \div 60 /\ s = q % 60 /\ q = 60 * m + s /\ s < 60
  <2>1. q \div 60 \in Nat /\ q % 60 \in Nat /\ q = 60 * (q \div 60) + (q % 60) /\ q % 60 < 60
    OBVIOUS
  <2>. QED  BY <2>1
<1>3. n = m * 60 * 75 + s * 75 + f /\ m < 100  BY <1>1, <1>2
<1>4. n \div 4500 = m
  <2>1. s * 75 + f < 4500 /\ n = 4500 * m + (s * 75 + f)  BY <1>1, <1>2
  <2>. QED  BY <2>1
<1>5. DiscHeader(n) = <<Digits(m), Digits(s), Digits(f)>>  BY <1>1, <1>2, <1>4 DEF DiscHeader
<1>6. /\ Digits(m) \in Bytes /\ CD_BCD2HEX[Digits(m)] = m
      /\ Digits(s) \in Bytes /\ CD_BCD2HEX[Digits(s)] = s
      /\ Digits(f) \in Bytes /\ CD_BCD2HEX[Digits(f)] = f
  <2>1. m \in 0 .. 99 /\ s \in 0 .. 99 /\ f \in 0 .. 99  BY <1>1, <1>2, <1>3
  <2>. QED  BY <2>1, DigitsDecoded
<1>7. HeaderFrame(DiscHeader(n))
         = CD_BCDMSF2FRAME((Digits(m) * 256 + Digits(s)) * 256 + Digits(f))
  BY <1>5 DEF HeaderFrame
<1>8. CD_BCDMSF2FRAME((Digits(m) * 256 + Digits(s)) * 256 + Digits(f))
         = CD_BCD2HEX[Digits(m)] * 60 * 75 + CD_BCD2HEX[Digits(s)] * 75 + CD_BCD2HEX[Digits(f)]
  <2>1. LET t == TIME_CD((Digits(m) * 256 + Digits(s)) * 256 + Digits(f))
        IN  t.ucMin = Digits(m) /\ t.ucSec = Digits(s) /\ t.ucFrame = Digits(f)
    BY <1>6, Fields
  <2>. QED  BY <2>1 DEF CD_BCDMSF2FRAME
<1>. QED  BY <1>3, <1>6, <1>7, <1>8
-----------------------------------------------------------------------------
(* The other way: from frames to addresses.                                *)

LEMMA UnfoldedHex ==
    CD_HEX2BCD = [lHex \in Bytes |-> IF lHex < 10 THEN lHex ELSE (16 + CD_HEX2BCD[lHex - 10]) % 256]
<1>. DEFINE val(b) == (16 * (b \div 10) + (b % 10)) % 256
            g == [b \in Bytes |-> val(b)]
<1>1. ASSUME NEW b \in Bytes PROVE val(b) = IF b < 10 THEN b ELSE (16 + val(b - 10)) % 256
  <2>1. CASE b < 10
    <3>1. b \div 10 = 0 /\ b % 10 = b  BY <2>1 DEF Bytes
    <3>. QED  BY <2>1, <3>1 DEF Bytes
  <2>2. CASE b >= 10
    <3>1. PICK d \in 1 .. 25, k \in 0 .. 9 : b = 10 * d + k
      <4>1. b \div 10 \in 1 .. 25 /\ b % 10 \in 0 .. 9 /\ b = 10 * (b \div 10) + (b % 10)
        BY <2>2 DEF Bytes
      <4>. QED  BY <4>1
    <3>2. b \div 10 = d /\ b % 10 = k /\ (b - 10) \div 10 = d - 1 /\ (b - 10) % 10 = k
      BY <3>1
    <3>. QED  BY <2>2, <3>1, <3>2
  <2>. QED  BY <2>1, <2>2 DEF Bytes
<1>2. ASSUME NEW b \in Bytes, ~(b < 10) PROVE g[b - 10] = val(b - 10)
  <2>1. b - 10 \in Bytes  BY <1>2 DEF Bytes
  <2>. QED  BY <2>1
<1>. HIDE DEF val
<1>3. g = [b \in Bytes |-> IF b < 10 THEN b ELSE (16 + g[b - 10]) % 256]
  <2>1. ASSUME NEW b \in Bytes PROVE val(b) = IF b < 10 THEN b ELSE (16 + g[b - 10]) % 256
    BY <1>1, <1>2
  <2>. QED  BY <2>1, Zenon
<1>. HIDE DEF g
<1>. QED  BY <1>3, Zenon DEF CD_HEX2BCD

LEMMA OneTurnHex ==
    ASSUME NEW d \in 1 .. 9, NEW k \in 0 .. 9, CD_HEX2BCD[10 * (d - 1) + k] = 16 * (d - 1) + k
    PROVE  CD_HEX2BCD[10 * d + k] = 16 * d + k
<1>1. 10 * d + k \in Bytes /\ 10 * d + k >= 10 /\ (10 * d + k) - 10 = 10 * (d - 1) + k  BY DEF Bytes
<1>2. CD_HEX2BCD[10 * d + k] = (16 + CD_HEX2BCD[(10 * d + k) - 10]) % 256  BY <1>1, UnfoldedHex
<1>. QED  BY <1>1, <1>2

LEMMA DigitsWritten == \A v \in 0 .. 99 : CD_HEX2BCD[v] = Digits(v)
<1>. DEFINE Right(d) == \A k \in 0 .. 9 : CD_HEX2BCD[10 * d + k] = 16 * d + k
<1>0. Right(0)
  <2>1. ASSUME NEW k \in 0 .. 9 PROVE CD_HEX2BCD[10 * 0 + k] = 16 * 0 + k  BY UnfoldedHex DEF Bytes
  <2>. QED  BY <2>1
<1>t. ASSUME NEW d \in 1 .. 9, Right(d - 1) PROVE Right(d)  BY <1>t, OneTurnHex
<1>. HIDE DEF Right
<1>1. Right(1)  BY <1>0, <1>t
<1>2. Right(2)  BY <1>1, <1>t
<1>3. Right(3)  BY <1>2, <1>t
<1>4. Right(4)  BY <1>3, <1>t
<1>5. Right(5)  BY <1>4, <1>t
<1>6. Right(6)  BY <1>5, <1>t
<1>7. Right(7)  BY <1>6, <1>t
<1>8. Right(8)  BY <1>7, <1>t
<1>9. Right(9)  BY <1>8, <1>t
<1>10. \A d \in 0 .. 9 : Right(d)  BY <1>0, <1>1, <1>2, <1>3, <1>4, <1>5, <1>6, <1>7, <1>8, <1>9
<1>11. ASSUME NEW v \in 0 .. 99 PROVE CD_HEX2BCD[v] = Digits(v)
  <2>1. PICK d \in 0 .. 9, k \in 0 .. 9 : d = v \div 10 /\ k = v % 10  OBVIOUS
  <2>2. v = 10 * d + k  BY <2>1
  <2>3. Digits(v) = 16 * d + k  BY <2>1 DEF Digits
  <2>4. CD_HEX2BCD[10 * d + k] = 16 * d + k  BY <1>10 DEF Right
  <2>. QED  BY <2>2, <2>3, <2>4
<1>. QED  BY <1>11

\* Bytes put together are those they are taken from.
LEMMA PackedFields ==
    ASSUME NEW m \in Bytes, NEW s \in Bytes, NEW f \in Bytes
    PROVE  /\ LET t == TIME_CD(Packed(m, s, f)) IN t.ucMin = m /\ t.ucSec = s /\ t.ucFrame = f
           /\ Packed(m, s, f) = (m * 256 + s) * 256 + f
<1>1. Packed(m, s, f) = (m * 256 + s) * 256 + f  BY SMT DEF Packed, Bytes
<1>. HIDE DEF Packed
<1>2. LET t == TIME_CD((m * 256 + s) * 256 + f) IN t.ucMin = m /\ t.ucSec = s /\ t.ucFrame = f
  BY Fields
<1>. QED  BY <1>1, <1>2, SMT

\* "Change Frame to MSF value" (cdif_api.c:183): the address of every frame a
\* disc can have, in BCD and in plain numbers, is read back as that frame, so
\* the two directions of the conversion undo each other.
THEOREM AddressesReadBack ==
    \A n \in Nat : n < 450000 =>
        CD_BCDMSF2FRAME(CD_FRAME2MSF(n)) = n /\ CD_HEXMSF2FRAME(CD_FRAME2HEX(n)) = n
<1>. SUFFICES ASSUME NEW n \in Nat, n < 450000
              PROVE  CD_BCDMSF2FRAME(CD_FRAME2MSF(n)) = n /\ CD_HEXMSF2FRAME(CD_FRAME2HEX(n)) = n
  BY SMT
<1>1. PICK q \in Nat, f \in Nat : n = 75 * q + f /\ f < 75
  <2>1. n \div 75 \in Nat /\ n % 75 \in Nat /\ n = 75 * (n \div 75) + (n % 75) /\ n % 75 < 75
    BY SMT
  <2>. QED  BY <2>1, SMT
<1>2. PICK m \in Nat, s \in Nat : q = 60 * m + s /\ s < 60
  <2>1. q \div 60 \in Nat /\ q % 60 \in Nat /\ q = 60 * (q \div 60) + (q % 60) /\ q % 60 < 60
    BY SMT
  <2>. QED  BY <2>1, SMT
<1>3. m \in 0 .. 99 /\ s \in 0 .. 59 /\ f \in 0 .. 74 /\ n = m * 60 * 75 + s * 75 + f
  BY <1>1, <1>2, SMT
<1>4. CD_FRAME2HEX(n) = Packed(m, s, f)
  <2>1. n = 4500 * m + (s * 75 + f) /\ s * 75 + f < 4500 /\ s * 75 + f \in Nat  BY <1>3, SMT
  <2>2. n \div 4500 = m  BY <1>3, <2>1, SMT
  <2>3. (n \div 4500) % 256 = m  BY <1>3, <2>2, SMT
  <2>4. n - m * 4500 = s * 75 + f  BY <1>3, <2>1, SMT
  <2>5. (s * 75 + f) \div 75 = s  BY <1>3, SMT
  <2>6. ((s * 75 + f) \div 75) % 256 = s  BY <1>3, <2>5, SMT
  <2>7. ((s * 75 + f) - s * 75) % 256 = f  BY <1>3, SMT
  <2>. QED  BY <2>3, <2>4, <2>6, <2>7, SMT DEF CD_FRAME2HEX
<1>5. m \in Bytes /\ s \in Bytes /\ f \in Bytes  BY <1>3, SMT DEF Bytes
<1>6. LET t == TIME_CD(Packed(m, s, f)) IN t.ucMin = m /\ t.ucSec = s /\ t.ucFrame = f
  BY <1>5, PackedFields, SMT
<1>7. CD_HEXMSF2FRAME(CD_FRAME2HEX(n)) = n  BY <1>3, <1>4, <1>6, SMT DEF CD_HEXMSF2FRAME
<1>8. /\ Digits(m) \in Bytes /\ CD_BCD2HEX[Digits(m)] = m /\ CD_HEX2BCD[m] = Digits(m)
      /\ Digits(s) \in Bytes /\ CD_BCD2HEX[Digits(s)] = s /\ CD_HEX2BCD[s] = Digits(s)
      /\ Digits(f) \in Bytes /\ CD_BCD2HEX[Digits(f)] = f /\ CD_HEX2BCD[f] = Digits(f)
  <2>1. m \in 0 .. 99 /\ s \in 0 .. 99 /\ f \in 0 .. 99  BY <1>3, SMT
  <2>. QED  BY <2>1, DigitsDecoded, DigitsWritten, SMT
<1>9. CD_FRAME2MSF(n) = Packed(Digits(m), Digits(s), Digits(f))
  BY <1>4, <1>6, <1>8, SMT DEF CD_FRAME2MSF
<1>10. LET t == TIME_CD(Packed(Digits(m), Digits(s), Digits(f)))
       IN  t.ucMin = Digits(m) /\ t.ucSec = Digits(s) /\ t.ucFrame = Digits(f)
  BY <1>8, PackedFields, SMT
<1>11. CD_BCDMSF2FRAME(CD_FRAME2MSF(n)) = n
  BY <1>3, <1>8, <1>9, <1>10, SMT DEF CD_BCDMSF2FRAME
<1>. QED  BY <1>7, <1>11, SMT

\* For any number of bytes, CD_byte2sector counts the sectors that hold them,
\* the last one not being empty.
LEMMA SectorsHoldBytes == \A byte \in Nat : Holds(byte)
BY SMT DEF Holds, CD_byte2sector

\* The conversions undo each other, digit by digit and at every edge.
THEOREM ConversionsRoundTrip == RoundTrips
<1>1. \A k \in 0 .. 99 : CD_HEX2BCD[k] = Digits(k) /\ CD_BCD2HEX[Digits(k)] = k
  BY DigitsWritten, DigitsDecoded
<1>2. \A n \in Edges : n \in Nat /\ n < 450000
  BY SMT DEF Edges
<1>3. \A n \in Edges :
         /\ HeaderFrame(DiscHeader(n)) = n
         /\ CD_BCDMSF2FRAME(CD_FRAME2MSF(n)) = n
         /\ CD_HEXMSF2FRAME(CD_FRAME2HEX(n)) = n
  BY <1>2, HeadersAreRead, AddressesReadBack, SMT
<1>4. \A byte \in Lengths : Holds(byte)
  <2>1. \A byte \in Lengths : byte \in Nat  BY SMT DEF Lengths
  <2>. QED  BY <2>1, SectorsHoldBytes, Zenon
<1>. QED  BY <1>1, <1>3, <1>4, Zenon DEF RoundTrips
=============================================================================
