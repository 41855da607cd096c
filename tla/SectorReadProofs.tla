-------------------------- MODULE SectorReadProofs --------------------------
(***************************************************************************)
(* A read that succeeds has decoded the right sectors, and its seeks are   *)
(* bounded, for any disc, deck, ring and number of sectors and retries.    *)
(*                                                                         *)
(* What was decoded so far is right (Decoded) because a header is compared *)
(* with the wanted frame before its sector is taken, and because headers   *)
(* are read as the frames they belong to (MsfCodecProofs).                 *)
(*                                                                         *)
(* Each seek of a read after the first is paid for by a retry counter      *)
(* (Budget): a wait expires without one only before the first seek, since  *)
(* a seek starts the CDIF and only a full ring stops it; and the retry     *)
(* that is not counted is one without a seek before it.                    *)
(***************************************************************************)
EXTENDS SectorRead, MsfCodecProofs, SequenceTheorems

Cells == {NOISE} \cup [n : 0 .. END, says : 0 .. END, ok : BOOLEAN]

\* A sector that was decoded.
Taken == [n : 0 .. END, says : 0 .. END, fresh : BOOLEAN]

Places ==
    /\ pc \in {"idle", "research", "enter", "seek", "wait", "search"}
    /\ bufStatus \in {"CD_BUF_START", "CD_BUF_STOP"}
    /\ result \in {"none", "ok", "error"}

Flags == full \in BOOLEAN /\ cdif \in BOOLEAN /\ pickupseek \in BOOLEAN

Buffers ==
    /\ ring \in Seq(Cells) /\ Len(ring) <= RING
    /\ cdif => Len(ring) < RING
    /\ chunk \in Seq(Cells)
    /\ under \in Nat /\ at \in Nat /\ copied \in Nat
    /\ next \in Nat /\ prev \in Nat /\ old \in Nat

Reading ==
    /\ start \in Starts \cup {0} /\ size \in Sizes \cup {0} /\ used \in Nat
    /\ pc = "idle" => used <= size
    /\ pc # "idle" => start \in Starts /\ size \in Sizes /\ used < size /\ result = "none"

Counters ==
    /\ lastSector \in Nat /\ research_cnt \in 0 .. SKIPS + 1
    /\ kmpcnt \in 0 .. KMP_RETRY /\ kmp_retry \in 0 .. KMP_RETRY
    /\ frame_retry \in 0 .. FRAME_RETRY
    /\ c3_retry \in Int /\ c3_retry <= C3_RETRY
    /\ pc # "idle" => kmp_retry > 0

\* The sectors decoded so far had the headers that were asked for.
Decoded ==
    /\ out \in Seq(Taken)
    /\ Len(out) = used
    /\ \A i \in 1 .. used : out[i].says = start + i - 1
    /\ result = "ok" => used = size

Larger(a, b) == IF a < b THEN b ELSE a

\* The retries of the read that were counted so far.
Spent ==
    (KMP_RETRY - kmp_retry) + (C3_RETRY - Larger(c3_retry, 1))
        + (used * FRAME_RETRY + (FRAME_RETRY - frame_retry))

\* One seek more than was paid for, and it is paid for before the next.
Budget ==
    /\ seeks \in Nat
    /\ pc \in {"idle", "research"} => seeks = 0
    /\ pc \in {"enter", "seek"} => seeks <= Spent
    /\ pc \in {"wait", "search"} => seeks - 1 <= Spent
    /\ seeks > 0 => pickupseek
    /\ seeks > 0 /\ pc = "enter" => bufStatus = "CD_BUF_STOP"
    /\ seeks > 0 /\ pc = "wait" => cdif \/ full

ReadInv == Places /\ Flags /\ Buffers /\ Reading /\ Counters /\ Decoded /\ Budget
-----------------------------------------------------------------------------
(* Constants and sequences.                                                *)

LEMMA Constants ==
    /\ BACK \in Nat /\ MARGIN \in Nat /\ FAR \in Nat /\ SKIPS \in Nat /\ END \in Nat
    /\ FRAME_RETRY \in Nat /\ C3_RETRY \in Nat \ {0} /\ KMP_RETRY \in Nat \ {0}
    /\ SWITCHES \in Nat /\ STOPS \in Nat /\ RING \in Nat
    /\ \A a \in Starts : a \in 0 .. END
    /\ \A n \in Sizes : n \in Nat \ {0} /\ RING > 0
    /\ \A p \in Previous : p \in Nat
    /\ \A d \in Landings : d \in Int
    /\ \A m \in Misreads : m \in 0 .. END
    /\ \A b \in Laps : b \in Nat
BY RetryAssumption, RingAssumption, SizeAssumption, DeckAssumption
   DEF RetryAssumption, RingAssumption, SizeAssumption, DeckAssumption

LEMMA CellTypes ==
    /\ NOISE \in Cells
    /\ \A n \in Nat, q \in Qualities : \A m \in {n} \cup Misreads : Cell(n, m, q) \in Cells
    /\ \A c \in Cells : c # NOISE => c.n \in 0 .. END /\ c.says \in 0 .. END /\ c.ok \in BOOLEAN
    /\ \A c \in Cells : c \in [n : Nat \cup {-1}, says : Nat \cup {-1}, ok : BOOLEAN]
<1>1. NOISE \in Cells  BY DEF Cells
<1>2. ASSUME NEW n \in Nat, NEW q \in Qualities, NEW m \in {n} \cup Misreads
      PROVE  Cell(n, m, q) \in Cells
  <2>1. CASE q = "noise" \/ n > END  BY <2>1 DEF Cell, Cells
  <2>2. CASE ~(q = "noise" \/ n > END)
    <3>1. n \in 0 .. END /\ m \in 0 .. END /\ (q = "clean") \in BOOLEAN  BY <2>2, Constants
    <3>2. Cell(n, m, q) = [n |-> n, says |-> m, ok |-> q = "clean"]  BY <2>2 DEF Cell
    <3>. QED  BY <3>1, <3>2 DEF Cells
  <2>. QED  BY <2>1, <2>2
<1>3. \A c \in Cells : c # NOISE => c.n \in 0 .. END /\ c.says \in 0 .. END /\ c.ok \in BOOLEAN
  BY DEF Cells
<1>4. ASSUME NEW c \in Cells
      PROVE  c \in [n : Nat \cup {-1}, says : Nat \cup {-1}, ok : BOOLEAN]
  <2>1. CASE c = NOISE  BY <2>1 DEF NOISE
  <2>2. CASE c \in [n : 0 .. END, says : 0 .. END, ok : BOOLEAN]  BY <2>2, Constants
  <2>. QED  BY <2>1, <2>2 DEF Cells
<1>. QED  BY <1>1, <1>2, <1>3, <1>4

LEMMA OldSamplesType ==
    ASSUME NEW k \in Nat, NEW s \in OldSamples(k) PROVE s \in Seq(Cells) /\ Len(s) = k
<1>1. PICK b \in Laps, q \in Qualities : s = [i \in 1 .. k |-> Cell(b + i - 1, b + i - 1, q)]
  BY DEF OldSamples
<1>2. ASSUME NEW i \in 1 .. k PROVE Cell(b + i - 1, b + i - 1, q) \in Cells
  <2>1. b + i - 1 \in Nat  BY Constants
  <2>. QED  BY <2>1, CellTypes
<1>3. s \in [1 .. k -> Cells]  BY <1>1, <1>2
<1>4. s \in Seq(Cells)  BY <1>3
<1>5. DOMAIN s = 1 .. k /\ DOMAIN s = 1 .. Len(s) /\ Len(s) \in Nat  BY <1>3, <1>4, LenProperties
<1>. QED  BY <1>4, <1>5

LEMMA DropType ==
    ASSUME NEW s \in Seq(Cells), NEW k \in Nat
    PROVE  Drop(s, k) \in Seq(Cells) /\ Len(Drop(s, k)) \in Nat /\ Len(Drop(s, k)) <= Len(s)
<1>1. Len(s) \in Nat /\ \A i \in (k + 1) .. Len(s) : s[i] \in Cells
  BY ElementOfSeq, LenProperties
<1>2. /\ SubSeq(s, k + 1, Len(s)) \in Seq(Cells)
      /\ Len(SubSeq(s, k + 1, Len(s))) = IF k + 1 <= Len(s) THEN Len(s) - (k + 1) + 1 ELSE 0
  BY <1>1, SubSeqProperties
<1>. QED  BY <1>1, <1>2 DEF Drop

LEMMA DropElements ==
    ASSUME NEW s \in Seq(Cells), NEW k \in 0 .. Len(s)
    PROVE  /\ Len(Drop(s, k)) = Len(s) - k
           /\ \A i \in 1 .. Len(s) - k : Drop(s, k)[i] = s[i + k]
<1>1. Len(s) \in Nat /\ \A i \in (k + 1) .. Len(s) : s[i] \in Cells
  BY ElementOfSeq, LenProperties
<1>2. /\ Len(SubSeq(s, k + 1, Len(s))) = IF k + 1 <= Len(s) THEN Len(s) - (k + 1) + 1 ELSE 0
      /\ \A i \in 1 .. Len(s) - (k + 1) + 1 : SubSeq(s, k + 1, Len(s))[i] = s[k + 1 + i - 1]
  BY <1>1, SubSeqProperties
<1>3. Len(SubSeq(s, k + 1, Len(s))) = Len(s) - k
  BY <1>1, <1>2
<1>4. ASSUME NEW i \in 1 .. Len(s) - k PROVE SubSeq(s, k + 1, Len(s))[i] = s[i + k]
  <2>1. i \in 1 .. Len(s) - (k + 1) + 1 /\ k + 1 + i - 1 = i + k  BY <1>1
  <2>. QED  BY <1>2, <2>1
<1>. QED  BY <1>3, <1>4 DEF Drop

LEMMA ElementIsCell ==
    ASSUME NEW s \in Seq(Cells), NEW i \in 1 .. Len(s) PROVE s[i] \in Cells
BY ElementOfSeq

\* Replacing one cell, and forgetting the first ones.
LEMMA ExceptType ==
    ASSUME NEW s \in Seq(Cells), NEW i, NEW c \in Cells
    PROVE  [s EXCEPT ![i] = c] \in Seq(Cells)
<1>1. CASE i \in 1 .. Len(s)  BY <1>1, ExceptSeq
<1>2. CASE i \notin 1 .. Len(s)
  <2>1. s \in [1 .. Len(s) -> Cells]  BY LenProperties
  <2>2. [s EXCEPT ![i] = c] = s  BY <1>2, <2>1
  <2>. QED  BY <2>2
<1>. QED  BY <1>1, <1>2

LEMMA RememberedType ==
    ASSUME NEW s \in Seq(Cells) PROVE Remembered(s) \in Seq(Cells)
<1>1. Len(s) \in Nat /\ DOMAIN s = 1 .. Len(s) /\ \A i \in 1 .. Len(s) : s[i] \in Cells
  BY LenProperties, ElementOfSeq
<1>2. Remembered(s) \in [1 .. Len(s) -> Cells]
  BY <1>1, CellTypes DEF Remembered
<1>. QED  BY <1>1, <1>2

LEMMA PassInRingType ==
    ASSUME ring \in Seq(Cells), Len(ring) <= RING, under \in Nat, cdif => Len(ring) < RING,
           NEW k \in Nat, PassInRing(k)
    PROVE  /\ ring' \in Seq(Cells) /\ Len(ring') <= RING /\ under' \in Nat
           /\ cdif => Len(ring') < RING
<1>1. Len(ring) \in Nat  BY LenProperties
<1>2. Smaller(k, Len(ring)) \in Nat /\ k - Smaller(k, Len(ring)) \in Nat
  BY <1>1 DEF Smaller
<1>3. /\ Drop(ring, Smaller(k, Len(ring))) \in Seq(Cells)
      /\ Len(Drop(ring, Smaller(k, Len(ring)))) \in Nat
      /\ Len(Drop(ring, Smaller(k, Len(ring)))) <= Len(ring)
  BY <1>2, DropType
<1>4. ring' = Drop(ring, Smaller(k, Len(ring))) /\ under' = under + (k - Smaller(k, Len(ring)))
  BY DEF PassInRing
<1>. HIDE DEF PassInRing
<1>5. ring' \in Seq(Cells) /\ Len(ring') \in Nat /\ Len(ring') <= Len(ring) /\ under' \in Nat
  BY <1>2, <1>3, <1>4
<1>. QED  BY <1>1, <1>5, Constants

\* What the search finds.
LEMMA FoundType ==
    ASSUME chunk \in Seq(Cells), at \in Nat
    PROVE  /\ Found \in Cells
           /\ Found # NOISE =>
                 Found.n \in 0 .. END /\ Found.says \in 0 .. END /\ Frame = Found.says
<1>1. Found \in Cells
  <2>1. Len(chunk) \in Nat  BY LenProperties
  <2>2. CASE at < Len(chunk)
    <3>1. at + 1 \in 1 .. Len(chunk)  BY <2>1, <2>2
    <3>2. chunk[at + 1] \in Cells  BY <3>1, ElementIsCell
    <3>. QED  BY <2>2, <3>2 DEF Found
  <2>3. CASE ~(at < Len(chunk))  BY <2>3, CellTypes DEF Found
  <2>. QED  BY <2>2, <2>3
<1>2. ASSUME Found # NOISE
      PROVE  Found.n \in 0 .. END /\ Found.says \in 0 .. END /\ Frame = Found.says
  <2>1. Found.n \in 0 .. END /\ Found.says \in 0 .. END  BY <1>1, <1>2, CellTypes
  <2>2. Found.says \in Nat /\ Found.says < 450000
    BY <2>1, DiscAssumption, Constants DEF DiscAssumption
  <2>3. HeaderFrame(DiscHeader(Found.says)) = Found.says
    BY <2>2, HeadersAreRead DEF HeadersAreRead
  <2>4. Frame = HeaderFrame(DiscHeader(Found.says))  BY <2>1 DEF Frame, FrameOfHeader
  <2>. QED  BY <2>1, <2>3, <2>4
<1>. QED  BY <1>1, <1>2

LEMMA NatTimes == \A a, b \in Nat : a * b \in Nat /\ (a + 1) * b = a * b + b
OBVIOUS

LEMMA MoreSectors == \A a, b, c \in Nat : a < b => a * c + c <= b * c
<1>1. ASSUME NEW a \in Nat, NEW b \in Nat, NEW c \in Nat, a < b PROVE a * c + c <= b * c
  <2>1. PICK d \in Nat : b = (a + 1) + d
    <3>1. b - (a + 1) \in Nat /\ b = (a + 1) + (b - (a + 1))  BY <1>1
    <3>. QED  BY <3>1
  <2>2. b * c = (a + 1) * c + d * c  BY <2>1
  <2>3. d * c \in Nat /\ (a + 1) * c = a * c + c /\ a * c \in Nat  BY NatTimes
  <2>. QED  BY <2>2, <2>3
<1>. QED  BY <1>1
-----------------------------------------------------------------------------
LEMMA InitInv == Init => ReadInv
<1>. SUFFICES ASSUME Init PROVE ReadInv
  OBVIOUS
<1>1. Places  BY DEF Init, Places
<1>2. Flags  BY Zenon DEF Init, Flags
<1>3. Buffers
  <2>1. <<>> \in Seq(Cells) /\ Len(<<>>) = 0  BY EmptySeq
  <2>2. ring = <<>> /\ chunk = <<>> /\ ~cdif  BY DEF Init
  <2>3. under = 0 /\ at = 0 /\ copied = 0 /\ next = 0 /\ prev = 0 /\ old = 0  BY DEF Init
  <2>. QED  BY <2>1, <2>2, <2>3, Constants DEF Buffers
<1>4. Reading  BY DEF Init, Reading
<1>5. Counters  BY Constants DEF Init, Counters
<1>6. Decoded
  <2>1. out = <<>> /\ used = 0 /\ result = "none"  BY DEF Init
  <2>2. \A i \in 1 .. 0 : FALSE  OBVIOUS
  <2>. QED  BY <2>1, <2>2, EmptySeq DEF Decoded
<1>7. Budget  BY DEF Init, Budget
<1>. QED  BY <1>1, <1>2, <1>3, <1>4, <1>5, <1>6, <1>7 DEF ReadInv

(* Each part of the invariant, over the actions that can disturb it.       *)

LEMMA NextPlaces == ASSUME ReadInv, [Next]_vars PROVE Places' /\ Flags'
<1>1. Places'
  BY DEF ReadInv, Places, Next, Reader, vars, status, memory, buffers, request, retries, reply, deck,
     Arrive, Request, Research, EnterNear, EnterSeek, Seek, SeekFails, Copy, WaitExpires, KmpMiss,
     KmpFail, C3Fail, Take, FrameFail, StepOver, Jump, FrameRetry, ForceStop, Return
<1>2. Flags'
  <2>. USE DEF ReadInv, Flags
  <2>1. CASE UNCHANGED <<full, cdif, pickupseek>>
    BY <2>1, Zenon
  <2>2. CASE Arrive
    <3>1. pickupseek' = pickupseek  BY <2>2 DEF Arrive, memory
    <3>2. PICK cell : Capture(cell)  BY <2>2 DEF Arrive
    <3>3. CASE UNCHANGED <<full, cdif>> \/ (full' = TRUE /\ cdif' = FALSE)
      BY <3>1, <3>3, Zenon
    <3>4. CASE cdif' = (Len(ring') < RING) /\ full' = (full \/ Len(ring') >= RING)
      <4>1. full' \in BOOLEAN  BY <3>4, Zenon
      <4>2. cdif' \in BOOLEAN  BY <3>4
      <4>. QED  BY <3>1, <4>1, <4>2, Zenon
    <3>. QED  BY <3>2, <3>3, <3>4 DEF Capture
  <2>3. CASE Copy
    <3>1. UNCHANGED <<cdif, pickupseek>> /\ full' = (full /\ ~pickupseek)
      BY <2>3 DEF Copy, memory
    <3>. QED  BY <3>1, Zenon
  <2>4. CASE \/ UNCHANGED <<full, cdif>> /\ pickupseek' \in {TRUE, FALSE}
             \/ UNCHANGED <<full, pickupseek>> /\ cdif' = FALSE
             \/ UNCHANGED <<cdif, pickupseek>> /\ full' = FALSE
             \/ full' = full /\ cdif' = TRUE /\ pickupseek' = TRUE
    BY <2>4, Zenon
  <2>. QED
    BY <2>1, <2>2, <2>3, <2>4
       DEF Next, Reader, vars, status, memory, Request, Research, EnterNear, EnterSeek, Seek,
           SeekFails, WaitExpires, KmpMiss, KmpFail, C3Fail, Take, FrameFail, StepOver, Jump,
           FrameRetry, ForceStop, Return
<1>. QED  BY <1>1, <1>2

LEMMA NextReading == ASSUME ReadInv, [Next]_vars PROVE Reading'
<1>. USE Constants DEF ReadInv, Reading
<1>1. CASE UNCHANGED vars  BY <1>1 DEF vars, request, reply
<1>2. CASE Arrive  BY <1>2 DEF Arrive, request, reply
<1>3. ASSUME NEW a \in Starts, NEW n \in Sizes, Request(a, n) PROVE Reading'  BY <1>3 DEF Request
<1>4. CASE Research  BY <1>4 DEF Research, request, reply
<1>5. CASE EnterNear  BY <1>5 DEF EnterNear, request, reply
<1>6. CASE EnterSeek  BY <1>6 DEF EnterSeek, request, reply
<1>7. CASE Seek  BY <1>7 DEF Seek, request, reply
<1>8. CASE SeekFails  BY <1>8 DEF SeekFails, request, Return
<1>9. CASE Copy  BY <1>9 DEF Copy, request, reply
<1>10. CASE WaitExpires  BY <1>10 DEF WaitExpires, request, reply
<1>11. CASE KmpMiss  BY <1>11 DEF KmpMiss, request, reply
<1>12. CASE KmpFail  BY <1>12 DEF KmpFail, request, reply, Return
<1>13. CASE C3Fail  BY <1>13 DEF C3Fail, request, reply, Header
<1>14. CASE Take  BY <1>14 DEF Take, request, reply, Header, Return
<1>15. CASE FrameFail  BY <1>15 DEF FrameFail, request, Header, Return
<1>16. CASE StepOver  BY <1>16 DEF StepOver, request, reply
<1>17. CASE Jump  BY <1>17 DEF Jump, request, reply
<1>18. CASE FrameRetry  BY <1>18 DEF FrameRetry, request, reply, Header
<1>19. CASE ForceStop  BY <1>19 DEF ForceStop, request, Header, Return
<1>. QED
  BY <1>1, <1>2, <1>3, <1>4, <1>5, <1>6, <1>7, <1>8, <1>9, <1>10, <1>11, <1>12, <1>13, <1>14,
     <1>15, <1>16, <1>17, <1>18, <1>19 DEF Next, Reader

LEMMA NextCounters == ASSUME ReadInv, [Next]_vars PROVE Counters'
<1>. USE Constants DEF ReadInv, Counters
<1>0. Counted \in 0 .. SKIPS + 1  BY DEF Counted, Smaller
<1>1. CASE UNCHANGED vars  BY <1>1 DEF vars, memory, retries
<1>2. CASE Arrive  BY <1>2 DEF Arrive, memory, retries
<1>3. ASSUME NEW a \in Starts, NEW n \in Sizes, Request(a, n) PROVE Counters'
  BY <1>3 DEF Request, memory
<1>4. CASE Research  BY <1>4 DEF Research, memory, retries
<1>5. CASE EnterNear  BY <1>5 DEF EnterNear, retries
<1>6. CASE EnterSeek  BY <1>6 DEF EnterSeek, memory, retries
<1>7. CASE Seek  BY <1>7 DEF Seek, retries
<1>8. CASE SeekFails  BY <1>8 DEF SeekFails, Return
<1>9. CASE Copy  BY <1>9 DEF Copy, memory
<1>10. CASE WaitExpires  BY <1>10 DEF WaitExpires, memory, retries
<1>11. CASE KmpMiss  BY <1>11 DEF KmpMiss, memory
<1>12. CASE KmpFail  BY <1>12 DEF KmpFail, memory, Return
<1>13. CASE C3Fail  BY <1>0, <1>13 DEF C3Fail, Header
<1>14. CASE Take
  <2>1. Wanted \in Nat  BY <1>14 DEF Take, Header, Wanted, Reading
  <2>2. lastSector' \in Nat /\ research_cnt' \in 0 .. SKIPS + 1
    BY <1>0, <1>14, <2>1 DEF Take
  <2>3. CASE used' < size  BY <1>14, <2>2, <2>3 DEF Take, Header
  <2>4. CASE ~(used' < size)  BY <1>14, <2>2, <2>4 DEF Take, Return
  <2>. QED  BY <2>3, <2>4
<1>15. CASE FrameFail  BY <1>0, <1>15 DEF FrameFail, Return
<1>16. CASE StepOver  BY <1>0, <1>16 DEF StepOver, retries
<1>17. CASE Jump  BY <1>0, <1>17 DEF Jump, retries
<1>18. CASE FrameRetry  BY <1>0, <1>18 DEF FrameRetry, Header
<1>19. CASE ForceStop  BY <1>19 DEF ForceStop, memory, Return
<1>. QED
  BY <1>1, <1>2, <1>3, <1>4, <1>5, <1>6, <1>7, <1>8, <1>9, <1>10, <1>11, <1>12, <1>13, <1>14,
     <1>15, <1>16, <1>17, <1>18, <1>19 DEF Next, Reader

\* The interrupt puts one frame into the ring.
LEMMA CaptureType ==
    ASSUME Buffers, cdif, NEW c \in Cells, Capture(c)
    PROVE  /\ ring' \in Seq(Cells) /\ Len(ring') <= RING /\ under' \in Nat
           /\ cdif' => Len(ring') < RING
<1>0. Len(ring) \in Nat  BY LenProperties DEF Buffers
<1>1. CASE under > 0
  <2>1. under # 0  BY <1>1
  <2>2. ring' = ring /\ under' = under - 1 /\ (cdif' => cdif)  BY <2>1, Zenon DEF Capture
  <2>. QED  BY <1>1, <2>2 DEF Buffers
<1>2. CASE ~(under > 0)
  <2>1. ring' = Append(ring, c) /\ UNCHANGED under /\ (cdif' => Len(ring') < RING)
    BY <1>2 DEF Capture, Buffers
  <2>2. ring' \in Seq(Cells) /\ Len(ring') = Len(ring) + 1
    BY <2>1, AppendProperties DEF Buffers
  <2>3. Len(ring') <= RING
    BY <1>0, <2>2, Constants DEF Buffers
  <2>4. under' \in Nat  BY <2>1 DEF Buffers
  <2>. QED  BY <2>1, <2>2, <2>3, <2>4
<1>. QED  BY <1>1, <1>2

\* The chunk after a copy: it starts with the copied frames.
LEMMA CopiedChunk ==
    ASSUME ring \in Seq(Cells), chunk \in Seq(Cells), Copy, RequestSize \in Nat
    PROVE  /\ chunk' \in Seq(Cells)
           /\ copied' \in 0 .. Len(ring) /\ copied' <= RequestSize
           /\ \A i \in 1 .. copied' : chunk'[i] = ring[i]
           /\ Len(chunk') = Larger(RequestSize, Len(chunk))
<1>1. Len(ring) \in Nat /\ Len(chunk) \in Nat  BY LenProperties
<1>. DEFINE n == copied'
            k == Smaller(RequestSize, Len(chunk))
            frames == SubSeq(ring, 1, n)
<1>2. n \in 0 .. Len(ring) /\ n <= RequestSize  BY <1>1 DEF Copy, Smaller
<1>3. k \in 0 .. Len(chunk) /\ RequestSize + (Len(chunk) - k) = Larger(RequestSize, Len(chunk))
  BY <1>1 DEF Smaller, Larger
<1>4. PICK older \in OldSamples(RequestSize - n) : chunk' = frames \o older \o Drop(chunk, k)
  BY DEF Copy
<1>5. older \in Seq(Cells) /\ Len(older) = RequestSize - n
  <2>1. RequestSize - n \in Nat
    <3>1. n \in Nat /\ n <= RequestSize  BY <1>1, <1>2
    <3>. HIDE DEF n
    <3>. QED  BY <3>1
  <2>. QED  BY <2>1, OldSamplesType
<1>. HIDE DEF n, k
<1>6. /\ frames \in Seq(Cells) /\ Len(frames) = n
      /\ \A i \in 1 .. n : frames[i] = ring[i]
  <2>1. \A i \in 1 .. n : ring[i] \in Cells  BY <1>1, <1>2, ElementOfSeq
  <2>2. /\ frames \in Seq(Cells) /\ Len(frames) = IF 1 <= n THEN n - 1 + 1 ELSE 0
        /\ \A i \in 1 .. n - 1 + 1 : frames[i] = ring[1 + i - 1]
    BY <1>2, <2>1, SubSeqProperties
  <2>. HIDE DEF frames
  <2>3. Len(frames) = n  BY <1>2, <2>2
  <2>4. ASSUME NEW i \in 1 .. n PROVE frames[i] = ring[i]
    <3>1. i \in 1 .. n - 1 + 1 /\ 1 + i - 1 = i  BY <1>2
    <3>. QED  BY <2>2, <3>1
  <2>. QED  BY <2>2, <2>3, <2>4
<1>7. Drop(chunk, k) \in Seq(Cells) /\ Len(Drop(chunk, k)) = Len(chunk) - k
  BY <1>3, DropElements, DropType
<1>. HIDE DEF frames
<1>8. /\ frames \o older \in Seq(Cells) /\ Len(frames \o older) = n + (RequestSize - n)
      /\ \A i \in 1 .. Len(frames) + Len(older) :
             (frames \o older)[i] = IF i <= Len(frames) THEN frames[i] ELSE older[i - Len(frames)]
  BY <1>5, <1>6, ConcatProperties
<1>9. /\ chunk' \in Seq(Cells)
      /\ Len(chunk') = Len(frames \o older) + Len(Drop(chunk, k))
      /\ \A i \in 1 .. Len(frames \o older) + Len(Drop(chunk, k)) :
             chunk'[i] = IF i <= Len(frames \o older) THEN (frames \o older)[i]
                         ELSE Drop(chunk, k)[i - Len(frames \o older)]
  BY <1>4, <1>7, <1>8, ConcatProperties
<1>10. ASSUME NEW i \in 1 .. n PROVE chunk'[i] = ring[i]
  <2>1. /\ i \in 1 .. Len(frames) + Len(older) /\ i <= Len(frames)
        /\ i \in 1 .. Len(frames \o older) + Len(Drop(chunk, k)) /\ i <= Len(frames \o older)
    BY <1>1, <1>2, <1>3, <1>5, <1>6, <1>7, <1>8
  <2>2. chunk'[i] = (frames \o older)[i]  BY <1>9, <2>1
  <2>3. (frames \o older)[i] = frames[i]  BY <1>8, <2>1
  <2>. QED  BY <1>6, <2>2, <2>3
<1>11. Len(chunk') = Larger(RequestSize, Len(chunk))  BY <1>1, <1>2, <1>3, <1>7, <1>8, <1>9
<1>. QED  BY <1>2, <1>9, <1>10, <1>11 DEF n

LEMMA NextBuffers == ASSUME ReadInv, [Next]_vars PROVE Buffers'
<1>. USE DEF ReadInv
<1>. DEFINE InRing == ring \in Seq(Cells) /\ Len(ring) <= RING /\ under \in Nat
            DeckAt == next \in Nat /\ prev \in Nat /\ old \in Nat
<1>a. InRing /\ DeckAt /\ chunk \in Seq(Cells) /\ at \in Nat /\ copied \in Nat /\ Len(ring) \in Nat
  BY LenProperties DEF Buffers
<1>b. Descrambled \in Seq(Cells) /\ Remembered(chunk) \in Seq(Cells)
      /\ Remembered(Descrambled) \in Seq(Cells)
  BY <1>a, CellTypes, ExceptType, RememberedType DEF Descrambled
<1>c. <<>> \in Seq(Cells) /\ Len(<<>>) = 0  BY EmptySeq
<1>d. pc # "idle" => RING > 0  BY Constants DEF Reading
<1>1. CASE UNCHANGED vars  BY <1>1 DEF vars, status, buffers, deck, Buffers
<1>2. CASE Arrive
  <2>1. /\ prev > 0 => prev' = prev - 1 /\ old' = (IF prev > 1 THEN old + 1 ELSE 0) /\ next' = next
        /\ ~(prev > 0) => next' = Smaller(next, END) + 1 /\ UNCHANGED <<prev, old>>
    BY <1>2 DEF Arrive
  <2>2. PICK c \in Cells : Capture(c)
    <3>1. PICK q \in Qualities, says \in {IF prev > 0 THEN old ELSE next} \cup Misreads :
             Capture(Cell(IF prev > 0 THEN old ELSE next, says, q))
      BY <1>2 DEF Arrive
    <3>2. (IF prev > 0 THEN old ELSE next) \in Nat  BY <1>a
    <3>3. Cell(IF prev > 0 THEN old ELSE next, says, q) \in Cells  BY <3>1, <3>2, CellTypes
    <3>. QED  BY <3>1, <3>3
  <2>3. InRing' /\ (cdif' => Len(ring') < RING)  BY <1>2, <2>2, CaptureType DEF Arrive
  <2>4. DeckAt'  BY <1>a, <2>1, Constants DEF Smaller
  <2>5. UNCHANGED <<chunk, at, copied>>  BY <1>2 DEF Arrive
  <2>. QED  BY <1>a, <2>3, <2>4, <2>5 DEF Buffers
<1>3. ASSUME NEW a \in Starts, NEW n \in Sizes, Request(a, n) PROVE Buffers'
  BY <1>3 DEF Request, status, buffers, deck, Buffers
<1>4. CASE Research
  <2>1. CASE UNCHANGED <<ring, under>>
    BY <1>4, <2>1 DEF Research, deck, Buffers
  <2>2. CASE SectorDiff >= 0 /\ PassInRing(SectorDiff)
    <3>1. SectorDiff \in Nat
      BY <1>4, <2>2, Constants DEF Research, SectorDiff, Reading, Counters
    <3>2. UNCHANGED <<cdif, chunk, at, copied, next, prev, old>>  BY <1>4 DEF Research, deck
    <3>. QED  BY <1>a, <2>2, <3>1, <3>2, PassInRingType DEF Buffers
  <2>. QED  BY <1>4, <2>1, <2>2 DEF Research
<1>5. CASE EnterNear  BY <1>5 DEF EnterNear, status, buffers, deck, Buffers
<1>6. CASE EnterSeek  BY <1>6 DEF EnterSeek, buffers, deck, Buffers
<1>7. CASE Seek
  <2>1. PICK d \in Landings, p \in Previous :
           GoMSF + d >= 0 /\ next' = GoMSF + d /\ prev' = p /\ old' = IF p > 0 THEN next ELSE 0
    BY <1>7 DEF Seek
  <2>2. GoMSF \in Int  BY <1>7, Constants DEF Seek, GoMSF, Wanted, Reading
  <2>3. DeckAt'  BY <1>a, <2>1, <2>2, Constants
  <2>4. ring' = <<>> /\ under' = 0 /\ UNCHANGED <<chunk, at, copied>>  BY <1>7 DEF Seek
  <2>5. RING > 0  BY <1>7, <1>d DEF Seek
  <2>. QED  BY <1>a, <1>c, <2>3, <2>4, <2>5, Constants DEF Buffers
<1>8. CASE SeekFails
  <2>1. ring' = <<>> /\ under' = 0 /\ at' = 0 /\ copied' = 0 /\ chunk' = Remembered(chunk)
    BY <1>8 DEF SeekFails, Return
  <2>2. RING > 0  BY <1>8, <1>d DEF SeekFails
  <2>. QED  BY <1>8, <1>a, <1>b, <1>c, <2>1, <2>2, Constants DEF SeekFails, deck, Buffers
<1>9. CASE Copy
  <2>1. RequestSize \in Nat  BY <1>9, Constants DEF Copy, RequestSize, Reading
  <2>2. chunk' \in Seq(Cells) /\ copied' \in Nat  BY <1>9, <1>a, <2>1, CopiedChunk
  <2>3. at' = 0 /\ UNCHANGED <<cdif, ring, under, next, prev, old>>
    BY <1>9 DEF Copy, deck
  <2>. QED  BY <1>a, <2>1, <2>2, <2>3 DEF Buffers
<1>10. CASE WaitExpires
  <2>1. ring' = <<>> /\ UNCHANGED <<cdif, under, chunk, at, copied, next, prev, old>>
    BY <1>10 DEF WaitExpires, deck
  <2>2. RING > 0  BY <1>10, <1>d DEF WaitExpires
  <2>. QED  BY <1>a, <1>c, <2>1, <2>2, Constants DEF Buffers
<1>11. CASE KmpMiss
  <2>1. PassInRing(1) /\ at' = at + 1 /\ UNCHANGED <<cdif, chunk, copied, next, prev, old>>
    BY <1>11 DEF KmpMiss, Pass, status, deck
  <2>. QED  BY <1>a, <2>1, PassInRingType DEF Buffers
<1>12. CASE KmpFail
  BY <1>12, <1>a, <1>b DEF KmpFail, Return, deck, Buffers
<1>13. CASE C3Fail  BY <1>13, <1>b DEF C3Fail, deck, Buffers
<1>14. CASE Take
  <2>1. PassInRing(1) /\ UNCHANGED <<cdif, next, prev, old>>  BY <1>14 DEF Take
  <2>2. /\ at' \in {at + 1, 0} /\ copied' \in {copied, 0}
        /\ chunk' \in {Descrambled, Remembered(Descrambled)}
    BY <1>14 DEF Take, Return
  <2>3. chunk' \in Seq(Cells) /\ at' \in Nat /\ copied' \in Nat  BY <1>a, <1>b, <2>2
  <2>. QED  BY <1>a, <2>1, <2>3, PassInRingType DEF Buffers
<1>15. CASE FrameFail  BY <1>15, <1>b DEF FrameFail, Return, status, deck, Buffers
<1>16. CASE StepOver
  <2>1. /\ PassInRing(1) /\ at' = at + 1 /\ chunk' = Descrambled
        /\ UNCHANGED <<cdif, copied, next, prev, old>>
    BY <1>16 DEF StepOver, Pass, status, deck
  <2>. QED  BY <1>a, <1>b, <2>1, PassInRingType DEF Buffers
<1>17. CASE Jump
  <2>1. /\ PassInRing(Secdiff) /\ at' = at + Secdiff /\ chunk' = Descrambled
        /\ UNCHANGED <<cdif, copied, next, prev, old>>
    BY <1>17 DEF Jump, Pass, status, deck
  <2>2. Secdiff \in Nat
    <3>1. Frame \in Nat /\ Frame < Wanted
      BY <1>17, <1>a, FoundType, Constants DEF Jump, Header
    <3>2. Wanted \in Nat  BY <1>17, Constants DEF Jump, Header, Wanted, Reading
    <3>. QED  BY <3>1, <3>2 DEF Secdiff
  <2>. QED  BY <1>a, <1>b, <2>1, <2>2, PassInRingType DEF Buffers
<1>18. CASE FrameRetry  BY <1>18, <1>b DEF FrameRetry, deck, Buffers
<1>19. CASE ForceStop  BY <1>19, <1>b DEF ForceStop, Return, status, deck, Buffers
<1>. QED
  BY <1>1, <1>2, <1>3, <1>4, <1>5, <1>6, <1>7, <1>8, <1>9, <1>10, <1>11, <1>12, <1>13, <1>14,
     <1>15, <1>16, <1>17, <1>18, <1>19 DEF Next, Reader

LEMMA NextDecoded == ASSUME ReadInv, [Next]_vars PROVE Decoded'
<1>. USE DEF ReadInv
<1>1. CASE UNCHANGED <<out, used, start, size>> /\ result' # "ok"  BY <1>1 DEF Decoded
<1>2. CASE UNCHANGED <<out, used, start, size, result>>  BY <1>2 DEF Decoded
<1>3. CASE out' = <<>> /\ used' = 0 /\ result' = "none"
  <2>1. out' \in Seq(Taken) /\ Len(out') = used'  BY <1>3, EmptySeq
  <2>. QED  BY <1>3, <2>1 DEF Decoded
<1>4. CASE Take
  <2>1. /\ Found # NOISE /\ Frame = Wanted /\ used' = used + 1 /\ UNCHANGED <<start, size>>
        /\ out' = Append(out, [n |-> Found.n, says |-> Found.says, fresh |-> at < copied])
        /\ result' = "ok" => ~(used' < size)
    BY <1>4 DEF Take, Header, request, reply, Reading
  <2>2. Found.n \in 0 .. END /\ Found.says \in 0 .. END /\ Found.says = start + used
    BY <2>1, FoundType DEF Buffers, Wanted
  <2>. DEFINE e == [n |-> Found.n, says |-> Found.says, fresh |-> at < copied]
  <2>3. e \in Taken /\ e.says = start + used
    <3>1. (at < copied) \in BOOLEAN  OBVIOUS
    <3>. QED  BY <2>2, <3>1 DEF Taken
  <2>4. out' = Append(out, e)  BY <2>1
  <2>. HIDE DEF e
  <2>5. out \in Seq(Taken) /\ Len(out) = used /\ \A i \in 1 .. used : out[i].says = start + i - 1
    BY DEF Decoded
  <2>6. /\ out' \in Seq(Taken) /\ Len(out') = used + 1
        /\ \A i \in 1 .. used : out'[i] = out[i]
        /\ out'[used + 1] = e
    BY <2>3, <2>4, <2>5, AppendProperties
  <2>7. used \in Nat /\ start \in Nat /\ size \in Nat /\ used < size
    BY <1>4, Constants DEF Take, Header, Reading
  <2>8. ASSUME NEW i \in 1 .. used + 1 PROVE out'[i].says = start + i - 1
    <3>1. CASE i = used + 1  BY <2>3, <2>6, <2>7, <3>1
    <3>2. CASE i \in 1 .. used  BY <2>5, <2>6, <3>2
    <3>. QED  BY <2>7, <3>1, <3>2
  <2>9. result' = "ok" => used' = size'  BY <2>1, <2>7
  <2>. QED  BY <2>1, <2>6, <2>8, <2>9 DEF Decoded
<1>. QED
  BY <1>1, <1>2, <1>3, <1>4
     DEF Next, Reader, vars, request, reply, Arrive, Request, Research, EnterNear, EnterSeek, Seek,
         SeekFails, Copy, WaitExpires, KmpMiss, KmpFail, C3Fail, FrameFail, StepOver, Jump,
         FrameRetry, ForceStop, Return

-----------------------------------------------------------------------------
(* The seeks of a read.                                                    *)

LEMMA SpentType == ASSUME Counters, used \in Nat PROVE Spent \in Nat
<1>1. used * FRAME_RETRY \in Nat  BY NatTimes, Constants
<1>. QED  BY <1>1, Constants DEF Spent, Larger, Counters

LEMMA NextBudget == ASSUME ReadInv, [Next]_vars PROVE Budget'
<1>. USE DEF ReadInv
<1>. DEFINE Product == used * FRAME_RETRY
<1>a. Product \in Nat /\ Spent \in Nat  BY NatTimes, SpentType, Constants DEF Reading
<1>b. /\ kmp_retry \in Nat /\ c3_retry \in Int /\ frame_retry \in Nat /\ seeks \in Nat
      /\ frame_retry <= FRAME_RETRY /\ c3_retry <= C3_RETRY
  BY Constants DEF Counters, Budget
<1>1. CASE UNCHANGED vars  BY <1>1 DEF vars, status, memory, retries, Budget, Spent
<1>2. CASE Arrive
  <2>1. UNCHANGED <<pc, seeks, pickupseek, bufStatus, used, retries>>  BY <1>2 DEF Arrive, memory
  <2>2. Spent' = Spent  BY <2>1 DEF Spent, retries
  <2>3. PICK cell : Capture(cell)  BY <1>2 DEF Arrive
  <2>4. cdif \/ full => cdif' \/ full'
    <3>1. CASE UNCHANGED <<cdif, full>> \/ (full' = TRUE /\ cdif' = FALSE)  BY <3>1
    <3>2. CASE cdif' = (Len(ring') < RING) /\ full' = (full \/ Len(ring') >= RING)
      <4>1. Len(ring') \in Nat  BY NextBuffers, LenProperties DEF Buffers
      <4>2. Len(ring') < RING => cdif'  BY <3>2
      <4>3. Len(ring') >= RING => full'  BY <3>2
      <4>. QED  BY <4>1, <4>2, <4>3, Constants
    <3>. QED  BY <2>3, <3>1, <3>2 DEF Capture
  <2>. QED  BY <2>1, <2>2, <2>4 DEF Budget
<1>3. ASSUME NEW a \in Starts, NEW n \in Sizes, Request(a, n) PROVE Budget'
  BY <1>3 DEF Request, Budget
<1>4. CASE Research
  <2>1. seeks' = 0 /\ pc' = "enter"  BY <1>4 DEF Research, Budget
  <2>2. Spent' \in Nat  BY <1>a, <1>4 DEF Research, retries, Spent
  <2>. QED  BY <2>1, <2>2 DEF Budget
<1>5. CASE EnterNear
  <2>1. seeks' = 0 /\ pc' = "wait"  BY <1>5 DEF EnterNear, Budget
  <2>2. Spent' \in Nat  BY <1>a, <1>5 DEF EnterNear, retries, Spent
  <2>. QED  BY <2>1, <2>2 DEF Budget
<1>6. CASE EnterSeek
  BY <1>6 DEF EnterSeek, memory, retries, Spent, Budget
<1>7. CASE Seek
  <2>1. /\ pc' = "wait" /\ seeks' = seeks + 1 /\ pickupseek' /\ cdif' /\ seeks <= Spent
    BY <1>7 DEF Seek, Budget
  <2>2. Spent' = Spent  BY <1>7 DEF Seek, retries, Spent
  <2>. QED  BY <1>a, <1>b, <2>1, <2>2 DEF Budget
<1>8. CASE SeekFails  BY <1>8 DEF SeekFails, Return, Budget
<1>9. CASE Copy
  <2>1. UNCHANGED <<seeks, pickupseek>> /\ pc' = "search" /\ seeks - 1 <= Spent
    BY <1>9 DEF Copy, memory, Budget
  <2>2. Spent' = Spent  BY <1>9 DEF Copy, Spent
  <2>3. seeks' \in Nat /\ seeks' - 1 <= Spent'  BY <1>b, <2>1, <2>2
  <2>4. seeks' > 0 => pickupseek'  BY <2>1 DEF Budget
  <2>. QED  BY <2>1, <2>3, <2>4 DEF Budget
<1>10. CASE WaitExpires
  <2>1. seeks' = 0 /\ pc' = "seek"  BY <1>10, <1>b DEF WaitExpires, Budget
  <2>2. Spent' \in Nat  BY <1>a, <1>10 DEF WaitExpires, retries, Spent
  <2>. QED  BY <2>1, <2>2 DEF Budget
<1>11. CASE KmpMiss  BY <1>11 DEF KmpMiss, memory, Spent, Budget
<1>12. CASE KmpFail
  <2>1. CASE kmp_retry > 1
    <3>1. /\ pc' = "enter" /\ bufStatus' = "CD_BUF_STOP" /\ UNCHANGED <<seeks, pickupseek>>
          /\ kmp_retry' = kmp_retry - 1 /\ UNCHANGED <<c3_retry, frame_retry, used>>
          /\ seeks - 1 <= Spent
      BY <1>12, <2>1 DEF KmpFail, memory, Budget
    <3>2. Spent' = Spent + 1
      BY <1>a, <1>b, <3>1, Constants DEF Spent, Larger
    <3>3. seeks' \in Nat /\ seeks' <= Spent'  BY <1>a, <1>b, <3>1, <3>2
    <3>4. seeks' > 0 => pickupseek'  BY <3>1 DEF Budget
    <3>. QED  BY <3>1, <3>3, <3>4 DEF Budget
  <2>2. CASE ~(kmp_retry > 1)  BY <1>12, <2>2 DEF KmpFail, memory, Return, Budget
  <2>. QED  BY <2>1, <2>2
<1>13. CASE C3Fail
  <2>1. /\ pc' = "enter" /\ bufStatus' = "CD_BUF_STOP" /\ UNCHANGED <<seeks, pickupseek>>
        /\ c3_retry > 1 /\ c3_retry' = c3_retry - 1 /\ UNCHANGED <<kmp_retry, frame_retry, used>>
        /\ seeks - 1 <= Spent
    BY <1>13 DEF C3Fail, Header, Budget
  <2>2. Spent' = Spent + 1
    BY <1>a, <1>b, <2>1, Constants DEF Spent, Larger
  <2>3. seeks' \in Nat /\ seeks' <= Spent'  BY <1>a, <1>b, <2>1, <2>2
  <2>4. seeks' > 0 => pickupseek'  BY <2>1 DEF Budget
  <2>. QED  BY <2>1, <2>3, <2>4 DEF Budget
<1>14. CASE Take
  <2>1. CASE ~(used' < size)  BY <1>14, <2>1 DEF Take, Return, Budget
  <2>2. CASE used' < size
    <3>1. /\ pc' = "search" /\ UNCHANGED <<seeks, pickupseek, kmp_retry>>
          /\ used' = used + 1 /\ frame_retry' = FRAME_RETRY
          /\ c3_retry' = c3_retry \/ c3_retry' = c3_retry - 1
          /\ seeks - 1 <= Spent
      BY <1>14, <2>2 DEF Take, Header, reply, Budget
    <3>2. used' * FRAME_RETRY = Product + FRAME_RETRY
      BY <3>1, NatTimes, Constants DEF Reading
    <3>3. Spent' \in Int /\ Spent' >= Spent
      BY <1>a, <1>b, <3>1, <3>2, Constants DEF Spent, Larger
    <3>4. seeks' \in Nat /\ seeks' - 1 <= Spent'
      <4>1. seeks' = seeks /\ seeks - 1 <= Spent  BY <3>1
      <4>2. seeks \in Nat /\ Spent \in Nat  BY <1>a, <1>b
      <4>. QED  BY <3>3, <4>1, <4>2
    <3>5. seeks' > 0 => pickupseek'  BY <3>1 DEF Budget
    <3>. QED  BY <3>1, <3>4, <3>5 DEF Budget
  <2>. QED  BY <2>1, <2>2
<1>15. CASE FrameFail  BY <1>15 DEF FrameFail, Return, Budget
<1>16. CASE StepOver  BY <1>16 DEF StepOver, Header, retries, Spent, Budget
<1>17. CASE Jump  BY <1>17 DEF Jump, Header, retries, Spent, Budget
<1>18. CASE FrameRetry
  <2>1. /\ pc' = "enter" /\ bufStatus' = "CD_BUF_STOP" /\ UNCHANGED <<seeks, pickupseek>>
        /\ UNCHANGED <<kmp_retry, c3_retry, used>> /\ seeks - 1 <= Spent
        /\ frame_retry' = IF pickupseek THEN frame_retry - 1 ELSE frame_retry
    BY <1>18 DEF FrameRetry, Header, Budget
  <2>2. CASE pickupseek
    <3>1. Spent' = Spent + 1  BY <1>a, <1>b, <2>1, <2>2, Constants DEF Spent, Larger
    <3>2. seeks' \in Nat /\ seeks' <= Spent'  BY <1>a, <1>b, <2>1, <3>1
    <3>3. seeks' > 0 => pickupseek'  BY <2>1 DEF Budget
    <3>. QED  BY <2>1, <3>2, <3>3 DEF Budget
  <2>3. CASE ~pickupseek
    <3>1. Spent' = Spent  BY <2>1, <2>3 DEF Spent
    <3>2. seeks = 0  BY <1>b, <2>3 DEF Budget
    <3>. QED  BY <1>a, <2>1, <3>1, <3>2 DEF Budget
  <2>. QED  BY <2>2, <2>3
<1>19. CASE ForceStop  BY <1>19 DEF ForceStop, Return, Budget
<1>. QED
  BY <1>1, <1>2, <1>3, <1>4, <1>5, <1>6, <1>7, <1>8, <1>9, <1>10, <1>11, <1>12, <1>13, <1>14,
     <1>15, <1>16, <1>17, <1>18, <1>19 DEF Next, Reader

LEMMA ReadInvariant == Spec => []ReadInv
<1>1. ReadInv /\ [Next]_vars => ReadInv'
  BY NextPlaces, NextReading, NextCounters, NextBuffers, NextDecoded, NextBudget DEF ReadInv
<1>. QED  BY <1>1, InitInv, PTL DEF Spec
-----------------------------------------------------------------------------
\* The variables keep their types: the ring never holds more frames than it
\* has room for, and no retry counter goes below what the code tests for.
THEOREM TypeCorrect == Spec => []TypeOK
<1>1. ReadInv => TypeOK
  <2>. SUFFICES ASSUME ReadInv PROVE TypeOK
    OBVIOUS
  <2>. USE DEF ReadInv
  <2>1. {full, cdif, pickupseek} \subseteq BOOLEAN  BY Zenon DEF Flags
  <2>2. \A i \in DOMAIN ring : ring[i] \in [n : Nat \cup {-1}, says : Nat \cup {-1}, ok : BOOLEAN]
    <3>1. ASSUME NEW i \in DOMAIN ring PROVE ring[i] \in Cells
      BY LenProperties, ElementIsCell DEF Buffers
    <3>. QED  BY <3>1, CellTypes
  <2>3. used \in 0 .. size  BY Constants DEF Reading
  <2>4. Len(ring) <= RING /\ under \in Nat /\ at \in Nat  BY DEF Buffers
  <2>5. Len(out) = used  BY DEF Decoded
  <2>. HIDE DEF ReadInv
  <2>6. Places /\ Reading /\ Counters  BY DEF ReadInv
  <2>. QED  BY <2>1, <2>2, <2>3, <2>4, <2>5, <2>6 DEF TypeOK, Places, Reading, Counters
<1>. QED  BY <1>1, ReadInvariant, PTL

\* A read that succeeds has decoded the sectors it was asked for, in order,
\* unless another sector's damaged header read as the wanted address:
\* CD_DescrambleSector takes a sector only when its header says that it is the
\* wanted one, and reads headers right.
THEOREM ReadsTheRightSectors == Spec => []RightSectors
<1>1. ReadInv => RightSectors
  BY DEF ReadInv, Decoded, RightSectors
<1>. QED  BY <1>1, ReadInvariant, PTL

\* A read of n sectors seeks at most CD_KMP_RETRY_CNT + CD_C3_CNT - 1 and
\* CD_RETRY_CNT times n times, also when waits expire.
THEOREM SeeksAreBounded == Spec => []SeeksBounded
<1>1. ReadInv => SeeksBounded
  <2>. SUFFICES ASSUME ReadInv PROVE SeeksBounded
    OBVIOUS
  <2>. USE DEF ReadInv
  <2>1. size \in Nat /\ used \in Nat  BY Constants DEF Reading
  <2>2. size * FRAME_RETRY \in Nat  BY <2>1, NatTimes, Constants
  <2>3. CASE pc = "idle"  BY <2>2, <2>3, Constants DEF Budget, SeeksBounded
  <2>4. CASE pc # "idle"
    <3>1. used * FRAME_RETRY + FRAME_RETRY <= size * FRAME_RETRY
      BY <2>1, <2>4, MoreSectors, Constants DEF Reading
    <3>2. used * FRAME_RETRY \in Nat  BY <2>1, NatTimes, Constants
    <3>3. /\ kmp_retry \in Nat /\ kmp_retry > 0 /\ c3_retry \in Int /\ c3_retry <= C3_RETRY
          /\ frame_retry \in Nat
      BY <2>4, Constants DEF Counters
    <3>4. Spent + 1 <= KMP_RETRY + C3_RETRY - 1 + size * FRAME_RETRY /\ Spent \in Int
      BY <2>2, <3>1, <3>2, <3>3, Constants DEF Spent, Larger
    <3>5. seeks \in Nat /\ seeks - 1 <= Spent
      <4>1. Spent \in Nat  BY <2>1, SpentType
      <4>. QED  BY <2>4, <4>1 DEF Budget, Places
    <3>. QED  BY <2>2, <3>4, <3>5, Constants DEF SeeksBounded
  <2>. QED  BY <2>3, <2>4
<1>. QED  BY <1>1, ReadInvariant, PTL
-----------------------------------------------------------------------------
(* The ring and the chunk buffer stay in step.  After a seek without frames *)
(* from before it, the captured frames follow each other (Follows), and     *)
(* what the search has still to see of the copied frames is what the ring   *)
(* starts with (InStep).                                                    *)

\* Frame b is the first of the ring.
Follows(b) ==
    /\ \A i \in 1 .. Len(ring) : ring[i] # NOISE => ring[i].n = b + i - 1
    /\ next <= END => next = b + Len(ring)

InStep ==
    \A i \in 1 .. copied - at :
        at + i <= Len(chunk) /\ chunk[at + i] # NOISE =>
            under = 0 /\ i <= Len(ring) /\ ring[i] = chunk[at + i]

Beyond == under > 0 => ring = <<>>

Ordered == ~spoiled => prev = 0 /\ \E b \in Int : Follows(b)

Matching == pc = "search" /\ ~spoiled => InStep

LEMMA PassedFrames ==
    ASSUME ring \in Seq(Cells), under \in Nat, NEW k \in Nat, PassInRing(k),
           under > 0 => ring = <<>>
    PROVE  /\ k <= Len(ring) =>
                 /\ under' = under /\ Len(ring') = Len(ring) - k
                 /\ \A i \in 1 .. Len(ring) - k : ring'[i] = ring[i + k]
           /\ k >= Len(ring) => ring' = <<>>
           /\ under' > 0 => ring' = <<>>
<1>1. Len(ring) \in Nat  BY LenProperties
<1>2. ASSUME k <= Len(ring)
      PROVE  /\ under' = under /\ ring' = Drop(ring, k) /\ Len(ring') = Len(ring) - k
             /\ \A i \in 1 .. Len(ring) - k : ring'[i] = ring[i + k]
  <2>1. Smaller(k, Len(ring)) = k \/ (k = Len(ring) /\ Smaller(k, Len(ring)) = Len(ring))
    BY <1>1, <1>2 DEF Smaller
  <2>2. ring' = Drop(ring, k) /\ under' = under + (k - k)
    BY <2>1 DEF PassInRing
  <2>3. k \in 0 .. Len(ring) /\ under' = under  BY <1>1, <1>2, <2>2
  <2>. QED  BY <2>2, <2>3, DropElements
<1>3. ASSUME k >= Len(ring) PROVE ring' = <<>>
  <2>1. Smaller(k, Len(ring)) = Len(ring)  BY <1>1, <1>3 DEF Smaller
  <2>2. ring' = Drop(ring, Len(ring))  BY <2>1 DEF PassInRing
  <2>3. ring' \in Seq(Cells) /\ Len(ring') = Len(ring) - Len(ring)
    BY <1>1, <2>2, DropElements, DropType
  <2>. QED  BY <1>1, <2>3, EmptySeq
<1>4. ASSUME under' > 0 PROVE ring' = <<>>
  <2>1. CASE k >= Len(ring)  BY <1>3, <2>1
  <2>2. CASE ~(k >= Len(ring))
    <3>1. under > 0 /\ ring = <<>>  BY <1>1, <1>2, <1>4, <2>2
    <3>. QED  BY <1>1, <2>2, <3>1
  <2>. QED  BY <2>1, <2>2
<1>. QED  BY <1>2, <1>3, <1>4

LEMMA PassedFollow ==
    ASSUME ring \in Seq(Cells), under \in Nat, NEW k \in Nat, PassInRing(k),
           under > 0 => ring = <<>>, next \in Nat, next' = next, NEW b \in Int, Follows(b)
    PROVE  (\E c \in Int : Follows(c)') /\ (k <= Len(ring) => Follows(b + k)')
<1>1. Len(ring) \in Nat  BY LenProperties
<1>2. ASSUME k <= Len(ring) PROVE Follows(b + k)'
  <2>1. /\ Len(ring') = Len(ring) - k
        /\ \A i \in 1 .. Len(ring) - k : ring'[i] = ring[i + k]
    BY <1>2, PassedFrames
  <2>2. ASSUME NEW i \in 1 .. Len(ring'), ring'[i] # NOISE PROVE ring'[i].n = (b + k) + i - 1
    <3>1. i + k \in 1 .. Len(ring) /\ ring'[i] = ring[i + k]  BY <1>1, <2>1
    <3>2. ring[i + k].n = b + (i + k) - 1  BY <2>2, <3>1 DEF Follows
    <3>. QED  BY <1>1, <2>1, <3>1, <3>2
  <2>3. next' <= END => next' = (b + k) + Len(ring')  BY <1>1, <2>1 DEF Follows
  <2>. QED  BY <2>2, <2>3 DEF Follows
<1>3. ASSUME k >= Len(ring) PROVE Follows(next)'
  <2>1. ring' = <<>> /\ Len(ring') = 0  BY <1>3, PassedFrames, EmptySeq
  <2>. QED  BY <2>1 DEF Follows
<1>4. CASE k <= Len(ring)  BY <1>2, <1>4
<1>5. CASE ~(k <= Len(ring))  BY <1>1, <1>3, <1>5
<1>. QED  BY <1>4, <1>5

\* The interrupt appends the frame that follows.
LEMMA ArrivedFollows ==
    ASSUME Buffers, Beyond, Arrive, prev = 0
    PROVE  /\ prev' = 0 /\ Beyond'
           /\ \A b \in Int : Follows(b) => (\E c \in Int : Follows(c)') /\ (under = 0 => Follows(b)')
           /\ under = 0 => under' = 0 /\ Len(ring') = Len(ring) + 1
                           /\ \A i \in 1 .. Len(ring) : ring'[i] = ring[i]
<1>1. PICK q \in Qualities, says \in {next} \cup Misreads :
         Capture(Cell(next, says, q)) /\ next' = Smaller(next, END) + 1 /\ UNCHANGED <<prev, old>>
  BY DEF Arrive, Buffers
<1>. DEFINE c == Cell(next, says, q)
<1>2. c \in Cells /\ next \in Nat /\ END \in Nat /\ ring \in Seq(Cells) /\ Len(ring) \in Nat
  BY CellTypes, Constants, LenProperties DEF Buffers
<1>3. (c # NOISE => c.n = next /\ next <= END) /\ (next <= END => next' = next + 1)
      /\ (next > END => next' > END)
  BY <1>1, <1>2 DEF Cell, Smaller
<1>4. CASE under > 0
  <2>1. ring = <<>> /\ ring' = <<>> /\ under' = under - 1
    BY <1>1, <1>4 DEF Capture, Beyond
  <2>2. Follows(next)'
    <3>1. next' <= END => next' = next' + Len(ring')  BY <1>1, <1>2, <2>1, EmptySeq DEF Smaller
    <3>2. Len(ring') = 0  BY <2>1, EmptySeq
    <3>. QED  BY <3>1, <3>2 DEF Follows
  <2>3. next' \in Int  BY <1>1, <1>2 DEF Smaller
  <2>. QED  BY <1>1, <1>4, <2>1, <2>2, <2>3 DEF Beyond
<1>5. CASE ~(under > 0)
  <2>1. ring' = Append(ring, c) /\ under' = under /\ under = 0
    BY <1>1, <1>5 DEF Capture, Buffers
  <2>. HIDE DEF c
  <2>2. /\ Len(ring') = Len(ring) + 1 /\ ring'[Len(ring) + 1] = c
        /\ \A i \in 1 .. Len(ring) : ring'[i] = ring[i]
    BY <1>2, <2>1, AppendProperties
  <2>3. ASSUME NEW b \in Int, Follows(b) PROVE Follows(b)'
    <3>1. ASSUME NEW i \in 1 .. Len(ring'), ring'[i] # NOISE PROVE ring'[i].n = b + i - 1
      <4>1. CASE i \in 1 .. Len(ring)  BY <2>2, <2>3, <3>1, <4>1 DEF Follows
      <4>2. CASE i = Len(ring) + 1
        <5>1. c # NOISE /\ c.n = next /\ next = b + Len(ring)
          BY <1>3, <2>2, <2>3, <3>1, <4>2 DEF Follows
        <5>. QED  BY <1>2, <2>2, <4>2, <5>1
      <4>. QED  BY <1>2, <2>2, <4>1, <4>2
    <3>2. next' <= END => next' = b + Len(ring')
      <4>1. CASE next <= END  BY <1>2, <1>3, <2>2, <2>3, <4>1 DEF Follows
      <4>2. CASE ~(next <= END)
        <5>1. next' \in Nat  BY <1>1, <1>2 DEF Smaller
        <5>. QED  BY <1>2, <1>3, <4>2, <5>1
      <4>. QED  BY <4>1, <4>2
    <3>. QED  BY <3>1, <3>2 DEF Follows
  <2>. QED  BY <1>1, <2>1, <2>2, <2>3 DEF Beyond
<1>. QED  BY <1>2, <1>4, <1>5 DEF Buffers

LEMMA NextBeyond == ASSUME ReadInv, Beyond, [Next]_vars PROVE Beyond'
<1>a. ring \in Seq(Cells) /\ under \in Nat  BY DEF ReadInv, Buffers
<1>1. CASE UNCHANGED <<ring, under>>  BY <1>1 DEF Beyond
<1>2. CASE ring' = <<>>  BY <1>2 DEF Beyond
<1>3. ASSUME NEW k \in Nat, PassInRing(k) PROVE Beyond'
  BY <1>a, <1>3, PassedFrames DEF Beyond
<1>4. CASE Arrive
  <2>1. PICK c : Capture(c)  BY <1>4 DEF Arrive
  <2>. QED  BY <1>a, <2>1 DEF Capture, Beyond
<1>5. CASE Research
  <2>1. ASSUME SectorDiff >= 0, PassInRing(SectorDiff) PROVE Beyond'
    <3>1. SectorDiff \in Nat
      BY <1>5, <2>1, Constants DEF Research, SectorDiff, ReadInv, Reading, Counters
    <3>. QED  BY <1>3, <2>1, <3>1
  <2>. QED  BY <1>1, <1>5, <2>1 DEF Research
<1>6. CASE Jump
  <2>1. Secdiff \in Nat
    <3>1. Frame \in Nat /\ Frame < Wanted
      BY <1>6, FoundType, Constants DEF Jump, Header, ReadInv, Buffers
    <3>2. Wanted \in Nat  BY <1>6, Constants DEF Jump, Header, Wanted, ReadInv, Reading
    <3>. QED  BY <3>1, <3>2 DEF Secdiff
  <2>. QED  BY <1>3, <1>6, <2>1 DEF Jump, Pass
<1>7. CASE KmpMiss \/ Take \/ StepOver
  <2>1. PassInRing(1)  BY <1>7 DEF KmpMiss, Take, StepOver, Pass
  <2>. QED  BY <1>3, <2>1
<1>. QED
  BY <1>1, <1>2, <1>3, <1>4, <1>5, <1>6, <1>7
     DEF Next, Reader, vars, buffers, Request, EnterNear, EnterSeek, Seek, SeekFails, Copy,
         WaitExpires, KmpFail, C3Fail, FrameFail, FrameRetry, ForceStop

LEMMA NextOrdered == ASSUME ReadInv, Beyond, Ordered, [Next]_vars PROVE Ordered'
<1>a. /\ ring \in Seq(Cells) /\ under \in Nat /\ next \in Nat /\ (under > 0 => ring = <<>>)
      /\ Len(ring) \in Nat
  BY LenProperties DEF ReadInv, Buffers, Beyond
<1>. DEFINE Still == UNCHANGED <<next, prev>> /\ (spoiled => spoiled')
<1>1. ASSUME UNCHANGED ring, Still PROVE Ordered'
  BY <1>1 DEF Ordered, Follows
<1>2. ASSUME NEW k \in Nat, PassInRing(k), Still PROVE Ordered'
  <2>. SUFFICES ASSUME ~spoiled' PROVE prev' = 0 /\ \E b \in Int : Follows(b)'
    BY DEF Ordered
  <2>1. prev = 0 /\ \E b \in Int : Follows(b)  BY <1>2 DEF Ordered
  <2>2. PICK b \in Int : Follows(b)  BY <2>1
  <2>3. \E c \in Int : Follows(c)'
    BY <1>a, <1>2, <2>2, PassedFollow
  <2>. QED  BY <1>2, <2>1, <2>3
<1>3. ASSUME ring' = <<>>, next' \in Int, ~spoiled' => prev' = 0 PROVE Ordered'
  <2>1. Len(ring') = 0  BY <1>3, EmptySeq
  <2>2. Follows(next)'
    <3>1. \A m \in Int : m = m + 0  OBVIOUS
    <3>2. next' = next' + Len(ring')  BY <1>3, <2>1, <3>1, Zenon
    <3>. QED  BY <2>1, <3>2 DEF Follows
  <2>. QED  BY <1>3, <2>2 DEF Ordered
<1>4. CASE Arrive
  <2>. SUFFICES ASSUME ~spoiled' PROVE prev' = 0 /\ \E b \in Int : Follows(b)'
    BY DEF Ordered
  <2>1. ~spoiled  BY <1>4 DEF Arrive
  <2>2. PICK b \in Int : Follows(b)  BY <2>1 DEF Ordered
  <2>3. prev = 0  BY <2>1 DEF Ordered
  <2>. QED  BY <1>4, <2>2, <2>3, ArrivedFollows DEF ReadInv
<1>5. CASE Research
  <2>1. Still  BY <1>5 DEF Research, deck
  <2>2. ASSUME SectorDiff >= 0, PassInRing(SectorDiff) PROVE Ordered'
    <3>1. SectorDiff \in Nat
      BY <1>5, <2>2, Constants DEF Research, SectorDiff, ReadInv, Reading, Counters
    <3>. QED  BY <1>2, <2>1, <2>2, <3>1
  <2>. QED  BY <1>1, <1>5, <2>1, <2>2 DEF Research
<1>6. CASE Jump
  <2>1. Secdiff \in Nat
    <3>1. Frame \in Nat /\ Frame < Wanted
      BY <1>6, FoundType, Constants DEF Jump, Header, ReadInv, Buffers
    <3>2. Wanted \in Nat  BY <1>6, Constants DEF Jump, Header, Wanted, ReadInv, Reading
    <3>. QED  BY <3>1, <3>2 DEF Secdiff
  <2>2. Still  BY <1>6 DEF Jump, deck
  <2>. QED  BY <1>2, <1>6, <2>1, <2>2 DEF Jump, Pass
<1>7. CASE KmpMiss \/ Take \/ StepOver
  <2>1. PassInRing(1) /\ UNCHANGED <<next, prev>>
    BY <1>7 DEF KmpMiss, Take, StepOver, Pass, deck
  <2>2. spoiled => spoiled'
    BY <1>7, Zenon DEF KmpMiss, Take, StepOver, deck
  <2>. QED  BY <1>2, <2>1, <2>2
<1>8. CASE Seek
  <2>1. PICK d \in Landings, p \in Previous :
           GoMSF + d >= 0 /\ next' = GoMSF + d /\ prev' = p /\ spoiled' = (p > 0)
    BY <1>8 DEF Seek
  <2>2. GoMSF \in Int
    BY <1>8, Constants DEF Seek, GoMSF, Wanted, ReadInv, Reading
  <2>3. d \in Int /\ p \in Nat  BY Constants
  <2>4. next' \in Int  BY <2>1, <2>2, <2>3
  <2>5. ~spoiled' => prev' = 0
    <3>1. p > 0 \/ p = 0  BY <2>3
    <3>. QED  BY <2>1, <3>1, Zenon
  <2>. QED  BY <1>3, <1>8, <2>4, <2>5 DEF Seek
<1>9. CASE SeekFails \/ WaitExpires
  <2>1. ring' = <<>> /\ Still  BY <1>9 DEF SeekFails, WaitExpires, deck
  <2>2. next' \in Int /\ (~spoiled' => prev' = 0)  BY <1>a, <2>1 DEF Ordered
  <2>. QED  BY <1>3, <2>1, <2>2
<1>. HIDE DEF Still
<1>10. CASE \/ UNCHANGED vars \/ \E a \in Starts, n \in Sizes : Request(a, n)
            \/ EnterNear \/ EnterSeek \/ Copy \/ KmpFail \/ C3Fail \/ FrameFail \/ FrameRetry
            \/ ForceStop
  <2>1. UNCHANGED <<ring, next, prev, spoiled>>
    BY <1>10 DEF vars, buffers, deck, Request, EnterNear, EnterSeek, Copy, KmpFail, C3Fail,
       FrameFail, FrameRetry, ForceStop
  <2>. QED  BY <1>1, <2>1 DEF Still
<1>. QED
  BY <1>4, <1>5, <1>6, <1>7, <1>8, <1>9, <1>10 DEF Next, Reader

\* Going over frames keeps the chunk buffer and the ring in step.
LEMMA PassedInStep ==
    ASSUME ring \in Seq(Cells), under \in Nat, Beyond, InStep, NEW k \in Nat \ {0}, Pass(k),
           chunk \in Seq(Cells), at \in Nat, copied \in Nat, copied' = copied,
           chunk' = chunk \/ chunk' = Descrambled
    PROVE  InStep'
<1>1. Len(ring) \in Nat /\ Len(chunk) \in Nat  BY LenProperties
<1>2. Len(chunk') = Len(chunk) /\ \A j \in 1 .. Len(chunk) : j # at + 1 => chunk'[j] = chunk[j]
  <2>1. CASE chunk' = chunk  BY <2>1
  <2>2. CASE chunk' = Descrambled
    <3>1. chunk \in [1 .. Len(chunk) -> Cells]  BY LenProperties
    <3>2. chunk' \in Seq(Cells) /\ DOMAIN chunk' = 1 .. Len(chunk)
      BY <2>2, <3>1, ExceptType, CellTypes DEF Descrambled
    <3>3. Len(chunk') = Len(chunk)  BY <1>1, <3>2, LenProperties
    <3>4. \A j \in 1 .. Len(chunk) : j # at + 1 => chunk'[j] = chunk[j]
      BY <2>2, <3>1 DEF Descrambled
    <3>. QED  BY <3>3, <3>4
  <2>. QED  BY <2>1, <2>2
<1>3. ASSUME NEW i \in 1 .. copied' - at', at' + i <= Len(chunk'), chunk'[at' + i] # NOISE
      PROVE  under' = 0 /\ i <= Len(ring') /\ ring'[i] = chunk'[at' + i]
  <2>1. at' = at + k /\ copied' = copied  BY DEF Pass
  <2>2. i + k \in 1 .. copied - at /\ at' + i = at + (i + k) /\ at + (i + k) \in 1 .. Len(chunk)
        /\ at + (i + k) # at + 1
    BY <1>1, <1>2, <1>3, <2>1
  <2>3. chunk'[at' + i] = chunk[at + (i + k)]  BY <1>2, <2>2
  <2>4. under = 0 /\ i + k <= Len(ring) /\ ring[i + k] = chunk[at + (i + k)]
    BY <1>3, <2>2, <2>3 DEF InStep
  <2>5. k <= Len(ring) /\ i \in 1 .. Len(ring) - k  BY <1>1, <2>1, <2>4
  <2>6. under' = under /\ Len(ring') = Len(ring) - k /\ ring'[i] = ring[i + k]
    BY <2>5, PassedFrames DEF Pass, Beyond
  <2>. QED  BY <2>3, <2>4, <2>5, <2>6
<1>. QED  BY <1>3 DEF InStep

LEMMA NextMatching ==
    ASSUME ReadInv, Beyond, Ordered, Matching, [Next]_vars PROVE Matching'
<1>a. /\ ring \in Seq(Cells) /\ under \in Nat /\ chunk \in Seq(Cells) /\ at \in Nat /\ copied \in Nat
      /\ Len(ring) \in Nat
  BY LenProperties DEF ReadInv, Buffers
<1>1. ASSUME pc' # "search" PROVE Matching'  BY <1>1 DEF Matching
<1>2. ASSUME NEW k \in Nat \ {0}, Pass(k), copied' = copied, chunk' = chunk \/ chunk' = Descrambled,
             pc = "search", spoiled => spoiled'
      PROVE  Matching'
  <2>. SUFFICES ASSUME ~spoiled' PROVE InStep'
    BY DEF Matching
  <2>1. InStep  BY <1>2 DEF Matching
  <2>. QED  BY <1>a, <1>2, <2>1, PassedInStep
<1>3. CASE Arrive
  <2>. SUFFICES ASSUME ~spoiled', pc' = "search" PROVE InStep'
    BY DEF Matching
  <2>1. ~spoiled /\ pc = "search" /\ UNCHANGED <<chunk, at, copied>>  BY <1>3 DEF Arrive
  <2>2. InStep /\ prev = 0  BY <2>1 DEF Matching, Ordered
  <2>3. under = 0 => under' = 0 /\ Len(ring') = Len(ring) + 1
                     /\ \A i \in 1 .. Len(ring) : ring'[i] = ring[i]
    BY <1>3, <2>2, ArrivedFollows DEF ReadInv
  <2>4. ASSUME NEW i \in 1 .. copied' - at', at' + i <= Len(chunk'), chunk'[at' + i] # NOISE
        PROVE  under' = 0 /\ i <= Len(ring') /\ ring'[i] = chunk'[at' + i]
    <3>1. i \in 1 .. copied - at /\ at + i <= Len(chunk) /\ chunk[at + i] # NOISE
      BY <2>1, <2>4
    <3>2. under = 0 /\ i <= Len(ring) /\ ring[i] = chunk[at + i]
      BY <2>2, <3>1 DEF InStep
    <3>3. under' = 0 /\ i <= Len(ring) + 1 /\ Len(ring') = Len(ring) + 1 /\ ring'[i] = ring[i]
      BY <1>a, <2>3, <3>1, <3>2
    <3>. QED  BY <2>1, <3>2, <3>3
  <2>. QED  BY <2>4 DEF InStep
<1>4. CASE Copy
  <2>. SUFFICES ASSUME ~spoiled' PROVE InStep'
    BY DEF Matching
  <2>1. RequestSize \in Nat
    BY <1>4, Constants DEF Copy, RequestSize, ReadInv, Reading
  <2>2. copied' \in 0 .. Len(ring) /\ \A i \in 1 .. copied' : chunk'[i] = ring[i]
    BY <1>a, <1>4, <2>1, CopiedChunk
  <2>3. at' = 0 /\ UNCHANGED <<ring, under>>  BY <1>4 DEF Copy
  <2>4. ASSUME NEW i \in 1 .. copied' - at', at' + i <= Len(chunk'), chunk'[at' + i] # NOISE
        PROVE  under' = 0 /\ i <= Len(ring') /\ ring'[i] = chunk'[at' + i]
    <3>1. i \in 1 .. copied' /\ at' + i = i  BY <2>2, <2>3
    <3>2. i <= Len(ring) /\ chunk'[i] = ring[i]  BY <1>a, <2>2, <3>1
    <3>3. ring # <<>>  BY <1>a, <3>1, <3>2, EmptySeq
    <3>. QED  BY <1>a, <2>3, <3>1, <3>2, <3>3 DEF Beyond
  <2>. QED  BY <2>4 DEF InStep
<1>5. CASE Jump
  <2>1. Secdiff \in Nat \ {0}
    <3>1. Frame \in Nat /\ Frame < Wanted
      BY <1>5, FoundType, Constants DEF Jump, Header, ReadInv, Buffers
    <3>2. Wanted \in Nat  BY <1>5, Constants DEF Jump, Header, Wanted, ReadInv, Reading
    <3>. QED  BY <3>1, <3>2 DEF Secdiff
  <2>2. Pass(Secdiff) /\ copied' = copied /\ chunk' = Descrambled /\ pc = "search"
    BY <1>5 DEF Jump, Header
  <2>3. spoiled => spoiled'  BY <1>5 DEF Jump, deck
  <2>. QED  BY <1>2, <2>1, <2>2, <2>3
<1>6. CASE KmpMiss \/ StepOver
  <2>1. Pass(1) /\ copied' = copied /\ (chunk' = chunk \/ chunk' = Descrambled) /\ pc = "search"
    BY <1>6 DEF KmpMiss, StepOver, Header
  <2>2. spoiled => spoiled'  BY <1>6 DEF KmpMiss, StepOver, deck
  <2>. QED  BY <1>2, <2>1, <2>2
<1>7. CASE Take
  <2>1. CASE used' < size
    <3>1. Pass(1) /\ copied' = copied /\ chunk' = Descrambled /\ pc = "search"
      BY <1>7, <2>1 DEF Take, Header, Pass
    <3>2. spoiled => spoiled'  BY <1>7, Zenon DEF Take
    <3>. QED  BY <1>2, <3>1, <3>2
  <2>2. CASE ~(used' < size)
    <3>1. pc' = "idle"  BY <1>7, <2>2 DEF Take, Return
    <3>. QED  BY <1>1, <3>1
  <2>. QED  BY <2>1, <2>2
<1>8. CASE UNCHANGED vars
  BY <1>8 DEF vars, buffers, deck, Matching, InStep
<1>9. CASE \/ \E a \in Starts, n \in Sizes : Request(a, n)
           \/ Research \/ EnterNear \/ EnterSeek \/ Seek \/ SeekFails \/ WaitExpires
           \/ KmpFail \/ C3Fail \/ FrameFail \/ FrameRetry \/ ForceStop
  <2>1. pc' # "search"
    BY <1>9 DEF Request, Research, EnterNear, EnterSeek, Seek, SeekFails, WaitExpires, KmpFail,
       C3Fail, FrameFail, FrameRetry, ForceStop, Return
  <2>. QED  BY <1>1, <2>1
<1>. QED
  BY <1>3, <1>4, <1>5, <1>6, <1>7, <1>8, <1>9 DEF Next, Reader

\* The ring after a read that found its sectors in what it had copied.
Placed ==
    pc = "idle" /\ result = "ok" /\ bufStatus = "CD_BUF_START" /\ ~spoiled =>
        under = 0 /\ Follows(lastSector + 1)

\* The frame that is taken is the first of the ring.
LEMMA TakenIsFirst ==
    ASSUME ReadInv, Beyond, Ordered, Matching, Take, ~spoiled'
    PROVE  under' = 0 /\ Follows(lastSector + 1)'
<1>a. /\ ring \in Seq(Cells) /\ under \in Nat /\ chunk \in Seq(Cells) /\ at \in Nat /\ copied \in Nat
      /\ next \in Nat /\ Len(ring) \in Nat /\ Len(chunk) \in Nat
  BY LenProperties DEF ReadInv, Buffers
<1>1. ~spoiled /\ ~(at >= copied) /\ ~(Found.n # Wanted)  BY Zenon DEF Take
<1>2. at < copied  BY <1>a, <1>1
<1>3. pc = "search" /\ Found # NOISE /\ Frame = Wanted /\ PassInRing(1) /\ next' = next
      /\ lastSector' = Wanted
  BY DEF Take, Header
<1>4. at < Len(chunk) /\ chunk[at + 1] = Found  BY <1>3 DEF Found
<1>5. InStep /\ \E b \in Int : Follows(b)  BY <1>1, <1>3 DEF Matching, Ordered
<1>6. 1 \in 1 .. copied - at /\ at + 1 <= Len(chunk)  BY <1>a, <1>2, <1>4
<1>7. under = 0 /\ 1 <= Len(ring) /\ ring[1] = Found
  BY <1>3, <1>4, <1>5, <1>6 DEF InStep
<1>8. PICK b \in Int : Follows(b)  BY <1>5
<1>9. b = Wanted
  <2>1. ring[1].n = b + 1 - 1  BY <1>a, <1>3, <1>7, <1>8 DEF Follows
  <2>2. Found.n = Wanted  BY <1>1
  <2>. QED  BY <1>7, <2>1, <2>2
<1>10. Follows(b + 1)'  BY <1>a, <1>3, <1>7, <1>8, PassedFollow
<1>11. under' = under  BY <1>a, <1>3, <1>7, PassedFrames
<1>12. lastSector' = b  BY <1>3, <1>9
<1>. QED  BY <1>7, <1>10, <1>11, <1>12 DEF Follows

LEMMA NextPlaced ==
    ASSUME ReadInv, Beyond, Ordered, Matching, Placed, [Next]_vars PROVE Placed'
<1>1. ASSUME pc' # "idle" \/ result' # "ok" PROVE Placed'  BY <1>1 DEF Placed
<1>2. CASE UNCHANGED vars
  BY <1>2 DEF vars, status, memory, buffers, reply, deck, Placed, Follows
<1>3. CASE Arrive
  <2>. SUFFICES ASSUME pc' = "idle", result' = "ok", bufStatus' = "CD_BUF_START", ~spoiled'
                PROVE  under' = 0 /\ Follows(lastSector + 1)'
    BY DEF Placed
  <2>1. /\ pc = "idle" /\ result = "ok" /\ bufStatus = "CD_BUF_START" /\ ~spoiled
        /\ lastSector' = lastSector
    BY <1>3 DEF Arrive, memory, reply
  <2>2. under = 0 /\ Follows(lastSector + 1) /\ prev = 0  BY <2>1 DEF Placed, Ordered
  <2>3. lastSector + 1 \in Int  BY DEF ReadInv, Counters
  <2>4. under' = 0 /\ \A b \in Int : Follows(b) => Follows(b)'
    BY <1>3, <2>2, ArrivedFollows DEF ReadInv
  <2>. QED  BY <2>1, <2>2, <2>3, <2>4 DEF Follows
<1>4. CASE Take
  BY <1>4, TakenIsFirst DEF Placed
<1>5. CASE \/ \E a \in Starts, n \in Sizes : Request(a, n)
           \/ Research \/ EnterNear \/ EnterSeek \/ Seek \/ SeekFails \/ Copy \/ WaitExpires
           \/ KmpMiss \/ KmpFail \/ C3Fail \/ FrameFail \/ StepOver \/ Jump \/ FrameRetry
           \/ ForceStop
  <2>1. pc' # "idle" \/ result' # "ok"
    BY <1>5 DEF Request, Research, EnterNear, EnterSeek, Seek, SeekFails, Copy, WaitExpires,
       KmpMiss, KmpFail, C3Fail, FrameFail, StepOver, Jump, FrameRetry, ForceStop, Header, Return
  <2>. QED  BY <1>1, <2>1
<1>. QED  BY <1>2, <1>3, <1>4, <1>5 DEF Next, Reader

\* After a read that succeeded, while buffering goes on, the first frame of the
\* ring is the sector after lastSector, for any disc, deck and sequence of
\* reads: the read pointer and the search move over the same frames.
THEOREM RingIsPlaced == Spec => []RingPlaced
<1>. DEFINE PlaceInv == ReadInv /\ Beyond /\ Ordered /\ Matching /\ Placed
<1>1. Init => PlaceInv
  <2>. SUFFICES ASSUME Init PROVE Beyond /\ Ordered /\ Matching /\ Placed
    BY InitInv
  <2>1. Len(<<>>) = 0 /\ ring = <<>> /\ next = 0 /\ prev = 0  BY EmptySeq DEF Init
  <2>2. Follows(0)  BY <2>1 DEF Follows
  <2>. QED  BY <2>1, <2>2 DEF Init, Beyond, Ordered, Matching, Placed
<1>2. PlaceInv /\ [Next]_vars => PlaceInv'
  <2>1. ReadInv /\ [Next]_vars => ReadInv'
    BY NextPlaces, NextReading, NextCounters, NextBuffers, NextDecoded, NextBudget DEF ReadInv
  <2>. QED  BY <2>1, NextBeyond, NextOrdered, NextMatching, NextPlaced
<1>3. PlaceInv => RingPlaced
  <2>. SUFFICES ASSUME PlaceInv, pc = "idle", result = "ok", bufStatus = "CD_BUF_START", ~spoiled
                PROVE  under = 0 /\ (ring # <<>> /\ ring[1] # NOISE => ring[1].n = lastSector + 1)
    BY DEF RingPlaced
  <2>1. under = 0 /\ Follows(lastSector + 1)  BY DEF Placed
  <2>2. ASSUME ring # <<>>, ring[1] # NOISE PROVE ring[1].n = lastSector + 1
    <3>1. Len(ring) \in Nat /\ Len(ring) # 0 /\ lastSector \in Nat
      BY <2>2, LenProperties, EmptySeq DEF ReadInv, Buffers, Counters
    <3>2. 1 \in 1 .. Len(ring)  BY <3>1
    <3>3. ring[1].n = (lastSector + 1) + 1 - 1  BY <2>1, <2>2, <3>2 DEF Follows
    <3>. QED  BY <3>1, <3>3
  <2>. QED  BY <2>1, <2>2
<1>. QED  BY <1>1, <1>2, <1>3, PTL DEF Spec
-----------------------------------------------------------------------------
(* Every C3 retry seeks: a counted retry that was not yet followed by a     *)
(* seek finds the buffering stopped.                                        *)

Retries == C3_RETRY - Larger(c3_retry, 1)

Retried ==
    pc # "idle" =>
        \/ seeks >= Retries
        \/ /\ pc = "seek" \/ (pc = "enter" /\ bufStatus = "CD_BUF_STOP")
           /\ seeks + 1 >= Retries

LEMMA NextRetried == ASSUME ReadInv, Retried, [Next]_vars PROVE Retried'
<1>a. c3_retry \in Int /\ c3_retry <= C3_RETRY /\ seeks \in Nat /\ Retries \in Int
  BY Constants DEF ReadInv, Counters, Budget, Retries, Larger
<1>1. ASSUME pc' = "idle" PROVE Retried'  BY <1>1 DEF Retried
<1>2. ASSUME pc # "idle", UNCHANGED <<c3_retry, seeks>>,
             \/ pc \notin {"enter", "seek"} \/ pc' = "seek"
             \/ pc = "enter" /\ bufStatus # "CD_BUF_STOP"
      PROVE  Retried'
  <2>1. Retries' = Retries  BY <1>2 DEF Retries
  <2>. QED  BY <1>2, <2>1 DEF Retried
<1>3. CASE UNCHANGED vars \/ Arrive
  <2>1. UNCHANGED <<pc, bufStatus, c3_retry, seeks>>
    BY <1>3 DEF vars, status, retries, Arrive
  <2>. QED  BY <2>1 DEF Retried, Retries
<1>4. ASSUME NEW a \in Starts, NEW n \in Sizes, Request(a, n) PROVE Retried'
  <2>1. c3_retry' = C3_RETRY /\ seeks' = 0  BY <1>4 DEF Request
  <2>2. Retries' = 0  BY <2>1, Constants DEF Retries, Larger
  <2>. QED  BY <2>1, <2>2 DEF Retried
<1>5. CASE Seek
  <2>1. pc = "seek" /\ UNCHANGED c3_retry /\ seeks' = seeks + 1  BY <1>5 DEF Seek, retries
  <2>2. Retries' = Retries  BY <2>1 DEF Retries
  <2>3. seeks + 1 >= Retries  BY <1>a, <2>1 DEF Retried
  <2>. QED  BY <2>1, <2>2, <2>3 DEF Retried
<1>6. CASE C3Fail
  <2>1. /\ pc = "search" /\ pc' = "enter" /\ bufStatus' = "CD_BUF_STOP" /\ seeks' = seeks
        /\ c3_retry > 1 /\ c3_retry' = c3_retry - 1
    BY <1>6 DEF C3Fail, Header
  <2>2. Retries' = Retries + 1  BY <1>a, <2>1, Constants DEF Retries, Larger
  <2>3. seeks >= Retries  BY <2>1 DEF Retried
  <2>4. seeks + 1 >= Retries'  BY <1>a, <2>2, <2>3
  <2>. QED  BY <2>1, <2>4 DEF Retried
<1>7. CASE Take
  <2>1. CASE ~(used' < size)  BY <1>1, <1>7, <2>1 DEF Take, Return
  <2>2. CASE used' < size
    <3>1. /\ pc = "search" /\ seeks' = seeks
          /\ c3_retry' = c3_retry \/ (c3_retry <= 1 /\ c3_retry' = c3_retry - 1)
      BY <1>7, <2>2 DEF Take, Header
    <3>2. Retries' = Retries  BY <1>a, <3>1, Constants DEF Retries, Larger
    <3>. QED  BY <3>1, <3>2 DEF Retried
  <2>. QED  BY <2>1, <2>2
<1>8. CASE SeekFails \/ FrameFail \/ ForceStop
  BY <1>1, <1>8 DEF SeekFails, FrameFail, ForceStop, Return
<1>9. CASE KmpFail
  <2>1. CASE kmp_retry > 1  BY <1>2, <1>9, <2>1 DEF KmpFail
  <2>2. CASE ~(kmp_retry > 1)  BY <1>1, <1>9, <2>2 DEF KmpFail, Return
  <2>. QED  BY <2>1, <2>2
<1>10. CASE \/ Research \/ EnterNear \/ EnterSeek \/ Copy \/ WaitExpires \/ KmpMiss \/ StepOver
            \/ Jump \/ FrameRetry
  <2>1. /\ pc # "idle" /\ UNCHANGED <<c3_retry, seeks>>
        /\ \/ pc \notin {"enter", "seek"} \/ pc' = "seek"
           \/ pc = "enter" /\ bufStatus # "CD_BUF_STOP"
    BY <1>10 DEF Research, EnterNear, EnterSeek, Copy, WaitExpires, KmpMiss, StepOver, Jump,
       FrameRetry, Header, retries
  <2>. QED  BY <1>2, <2>1
<1>. QED
  BY <1>3, <1>4, <1>5, <1>6, <1>7, <1>8, <1>9, <1>10 DEF Next, Reader

\* CD_DescrambleSector ignores a C3 error only when each C3 retry it made has
\* sent the pick-up again, however many retries CD_C3_CNT allows: stopping the
\* buffering before TRY_READ is what makes CD_ReadData seek.
THEOREM SectorsAreRetried == Spec => UndecodedAfterRetry
<1>1. ReadInv /\ Retried /\ [Next]_vars => [Take /\ ~Found.ok => seeks >= C3_RETRY - 1]_vars
  <2>. SUFFICES ASSUME ReadInv, Retried, Take, ~Found.ok PROVE seeks >= C3_RETRY - 1
    OBVIOUS
  <2>1. pc = "search" /\ c3_retry <= 1 /\ c3_retry \in Int
    BY Zenon DEF Take, Header, ReadInv, Counters
  <2>2. seeks >= Retries  BY <2>1 DEF Retried
  <2>3. Retries = C3_RETRY - 1  BY <2>1, Constants DEF Retries, Larger
  <2>. QED  BY <2>2, <2>3
<1>2. Init => Retried  BY DEF Init, Retried
<1>3. Spec => [](ReadInv /\ Retried)
  BY <1>2, ReadInvariant, NextRetried, PTL DEF Spec
<1>. QED  BY <1>1, <1>3, PTL DEF Spec, UndecodedAfterRetry
-----------------------------------------------------------------------------
(* Reads of one sector.  SectorsFromCD, which larger reads violate, holds   *)
(* when every read is of one sector: then no cell of the chunk buffer lies  *)
(* behind what the last copy replaced, so that the search finds no header   *)
(* there, and no read ends with the read pointer past the write pointer.    *)

OneByOne == \A n \in Sizes : n = 1

\* What is left to be searched of the copy is in the ring.
Captured ==
    /\ pc = "wait" => bufStatus = "CD_BUF_START"
    /\ pc # "search" /\ bufStatus = "CD_BUF_START" => under = 0
    /\ pc = "search" /\ at <= copied => under = 0 /\ copied - at <= Len(ring)

Fresh ==
    /\ Len(chunk) <= 1 + MARGIN
    /\ pc = "search" => copied = 1 + MARGIN
    /\ \A i \in 1 .. used : out[i].fresh

LEMMA RememberedLength == ASSUME NEW s \in Seq(Cells) PROVE Len(Remembered(s)) = Len(s)
<1>1. Remembered(s) \in Seq(Cells) /\ DOMAIN Remembered(s) = DOMAIN s
  BY RememberedType DEF Remembered
<1>2. DOMAIN s = 1 .. Len(s) /\ Len(s) \in Nat  BY LenProperties
<1>3. DOMAIN Remembered(s) = 1 .. Len(Remembered(s)) /\ Len(Remembered(s)) \in Nat
  BY <1>1, LenProperties
<1>. QED  BY <1>1, <1>2, <1>3

LEMMA DescrambledLength ==
    ASSUME chunk \in Seq(Cells) PROVE Descrambled \in Seq(Cells) /\ Len(Descrambled) = Len(chunk)
<1>1. chunk \in [1 .. Len(chunk) -> Cells] /\ Len(chunk) \in Nat  BY LenProperties
<1>2. Descrambled \in Seq(Cells) /\ DOMAIN Descrambled = 1 .. Len(chunk)
  BY <1>1, ExceptType, CellTypes DEF Descrambled
<1>3. DOMAIN Descrambled = 1 .. Len(Descrambled) /\ Len(Descrambled) \in Nat
  BY <1>2, LenProperties
<1>. HIDE DEF Descrambled
<1>. QED  BY <1>1, <1>2, <1>3

\* How long the chunk buffer is after a step.
LEMMA ChunkLength ==
    ASSUME ReadInv, [Next]_vars
    PROVE  Len(chunk') = Len(chunk) \/ (Copy /\ Len(chunk') = Larger(RequestSize, Len(chunk)))
<1>a. chunk \in Seq(Cells) /\ ring \in Seq(Cells)  BY DEF ReadInv, Buffers
<1>b. /\ Len(Remembered(chunk)) = Len(chunk) /\ Len(Descrambled) = Len(chunk)
      /\ Len(Remembered(Descrambled)) = Len(chunk)
  BY <1>a, RememberedLength, DescrambledLength
<1>1. CASE Copy
  <2>1. RequestSize \in Nat
    BY <1>1, Constants DEF Copy, RequestSize, ReadInv, Reading
  <2>. QED  BY <1>a, <1>1, <2>1, CopiedChunk
<1>2. CASE ~Copy
  <2>1. chunk' \in {chunk, Remembered(chunk), Descrambled, Remembered(Descrambled)}
    BY <1>2 DEF Next, Reader, vars, buffers, Arrive, Request, Research, EnterNear, EnterSeek, Seek,
       SeekFails, WaitExpires, KmpMiss, KmpFail, C3Fail, Take, FrameFail, StepOver, Jump,
       FrameRetry, ForceStop, Return
  <2>. QED  BY <1>b, <2>1
<1>. QED  BY <1>1, <1>2

LEMMA NextCaptured ==
    ASSUME ReadInv, Beyond, Captured, Fresh, [Next]_vars PROVE Captured'
<1>a. /\ ring \in Seq(Cells) /\ Len(ring) \in Nat /\ under \in Nat /\ Len(chunk) \in Nat
      /\ at \in Nat /\ copied \in Nat /\ MARGIN \in Nat
  BY LenProperties, Constants DEF ReadInv, Buffers
<1>b. pc = "search" /\ Found # NOISE => at < copied
  BY <1>a DEF Found, Fresh
<1>c. pc = "search" /\ Found # NOISE => under = 0 /\ 1 <= Len(ring)
  BY <1>a, <1>b DEF Captured
<1>1. ASSUME pc' \in {"idle", "research", "enter", "seek"}, bufStatus' # "CD_BUF_START"
      PROVE  Captured'
  BY <1>1 DEF Captured
<1>2. ASSUME NEW k \in Nat, Pass(k), copied' = copied, pc = "search", pc' = "search"
      PROVE  Captured'
  <2>1. at' = at + k /\ PassInRing(k)  BY <1>2 DEF Pass
  <2>2. ASSUME at' <= copied' PROVE under' = 0 /\ copied' - at' <= Len(ring')
    <3>1. at <= copied  BY <1>a, <1>2, <2>1, <2>2
    <3>2. under = 0 /\ copied - at <= Len(ring)  BY <1>2, <3>1 DEF Captured
    <3>3. k <= Len(ring)  BY <1>a, <1>2, <2>1, <2>2, <3>2
    <3>4. under' = under /\ Len(ring') = Len(ring) - k
      BY <1>a, <2>1, <3>3, PassedFrames DEF Beyond
    <3>. QED  BY <1>a, <1>2, <2>1, <3>2, <3>4
  <2>. QED  BY <1>2, <2>2 DEF Captured
<1>3. ASSUME pc # "search", pc' # "search", under' = under, bufStatus' = bufStatus,
             pc' = "wait" => bufStatus = "CD_BUF_START"
      PROVE  Captured'
  BY <1>3 DEF Captured
<1>4. CASE Arrive
  <2>1. PICK c \in Cells : Capture(c)
    <3>1. PICK q \in Qualities, says \in {IF prev > 0 THEN old ELSE next} \cup Misreads :
             Capture(Cell(IF prev > 0 THEN old ELSE next, says, q))
      BY <1>4 DEF Arrive
    <3>2. (IF prev > 0 THEN old ELSE next) \in Nat  BY DEF ReadInv, Buffers
    <3>3. Cell(IF prev > 0 THEN old ELSE next, says, q) \in Cells  BY <3>1, <3>2, CellTypes
    <3>. QED  BY <3>1, <3>3
  <2>2. under = 0 => under' = 0 /\ Len(ring') = Len(ring) + 1
    <3>1. under = 0 => under' = under /\ ring' = Append(ring, c)  BY <2>1 DEF Capture
    <3>. QED  BY <1>a, <3>1, AppendProperties
  <2>3. UNCHANGED <<pc, bufStatus, at, copied>>  BY <1>4 DEF Arrive
  <2>4. pc = "search" /\ at <= copied => under' = 0 /\ copied - at <= Len(ring')
    BY <1>a, <2>2 DEF Captured
  <2>5. pc # "search" /\ bufStatus = "CD_BUF_START" => under' = 0  BY <2>2 DEF Captured
  <2>. QED  BY <2>3, <2>4, <2>5 DEF Captured
<1>5. CASE Research
  <2>1. pc = "research" /\ pc' = "enter"  BY <1>5 DEF Research
  <2>2. CASE bufStatus' # "CD_BUF_START"  BY <1>1, <2>1, <2>2
  <2>3. CASE bufStatus' = "CD_BUF_START" /\ under' = under
    <3>1. bufStatus = "CD_BUF_START"  BY <1>5, <2>3 DEF Research
    <3>. QED  BY <1>3, <2>1, <2>3, <3>1
  <2>4. CASE bufStatus = "CD_BUF_START" /\ SectorDiff >= 0 /\ Has(SectorDiff + 1)
             /\ PassInRing(SectorDiff)
    <3>1. SectorDiff \in Nat
      BY <2>1, <2>4, Constants DEF SectorDiff, ReadInv, Reading, Counters
    <3>2. under = 0 /\ SectorDiff <= Len(ring)  BY <1>a, <2>1, <2>4, <3>1 DEF Captured, Has
    <3>3. under' = 0  BY <1>a, <2>4, <3>1, <3>2, PassedFrames DEF Beyond
    <3>. QED  BY <2>1, <3>3 DEF Captured
  <2>. QED  BY <1>5, <2>2, <2>3, <2>4 DEF Research
<1>6. CASE Seek  BY <1>6 DEF Seek, Captured
<1>7. CASE SeekFails  BY <1>7 DEF SeekFails, Return, Captured
<1>8. CASE Copy
  <2>1. /\ pc = "wait" /\ pc' = "search" /\ at' = 0 /\ UNCHANGED <<ring, under>>
        /\ copied' = Smaller(RequestSize, Len(ring))
    BY <1>8 DEF Copy
  <2>2. under = 0  BY <2>1 DEF Captured
  <2>3. RequestSize \in Nat
    BY <2>1, Constants DEF RequestSize, ReadInv, Reading
  <2>4. copied' \in Nat /\ copied' - at' <= Len(ring')  BY <1>a, <2>1, <2>3 DEF Smaller
  <2>. QED  BY <2>1, <2>2, <2>4 DEF Captured
<1>9. CASE Jump
  <2>1. Secdiff \in Nat
    <3>1. Frame \in Nat /\ Frame < Wanted
      BY <1>9, FoundType, Constants DEF Jump, Header, ReadInv, Buffers
    <3>2. Wanted \in Nat  BY <1>9, Constants DEF Jump, Header, Wanted, ReadInv, Reading
    <3>. QED  BY <3>1, <3>2 DEF Secdiff
  <2>. QED  BY <1>2, <1>9, <2>1 DEF Jump, Header
<1>10. CASE KmpMiss \/ StepOver
  BY <1>2, <1>10 DEF KmpMiss, StepOver, Header
<1>11. CASE Take
  <2>1. pc = "search" /\ Found # NOISE /\ PassInRing(1)  BY <1>11 DEF Take, Header
  <2>2. CASE used' < size
    <3>1. Pass(1) /\ copied' = copied /\ pc' = "search"  BY <1>11, <2>1, <2>2 DEF Take, Pass
    <3>. QED  BY <1>2, <2>1, <3>1
  <2>3. CASE ~(used' < size)
    <3>1. pc' = "idle"  BY <1>11, <2>3 DEF Take, Return
    <3>2. under' = 0  BY <1>a, <1>c, <2>1, PassedFrames DEF Beyond
    <3>. QED  BY <3>1, <3>2 DEF Captured
  <2>. QED  BY <2>2, <2>3
<1>12. CASE KmpFail \/ C3Fail \/ FrameRetry
  BY <1>1, <1>12 DEF KmpFail, C3Fail, FrameRetry, Return
<1>13. CASE FrameFail \/ (ForceStop /\ pc = "search")
  <2>1. pc' = "idle" /\ under' = under /\ pc = "search" /\ Found # NOISE
    BY <1>13 DEF FrameFail, ForceStop, Header, Return
  <2>. QED  BY <1>c, <2>1 DEF Captured
<1>14. CASE \/ ForceStop /\ pc # "search"
            \/ \E a \in Starts, n \in Sizes : Request(a, n)
            \/ EnterNear
  <2>1. /\ pc # "search" /\ pc' # "search" /\ UNCHANGED <<under, bufStatus>>
        /\ pc' = "wait" => bufStatus = "CD_BUF_START"
    BY <1>14 DEF ForceStop, Request, EnterNear, Return, status, buffers
  <2>. QED  BY <1>3, <2>1
<1>15. CASE EnterSeek \/ WaitExpires
  BY <1>1, <1>15 DEF EnterSeek, WaitExpires
<1>16. CASE UNCHANGED vars
  BY <1>16 DEF vars, status, buffers, Captured
<1>. QED
  BY <1>4, <1>5, <1>6, <1>7, <1>8, <1>9, <1>10, <1>11, <1>12, <1>13, <1>14, <1>15, <1>16
     DEF Next, Reader

LEMMA NextFresh ==
    ASSUME OneByOne, ReadInv, Decoded', Captured, Fresh, [Next]_vars PROVE Fresh'
<1>a. /\ Len(chunk) \in Nat /\ Len(ring) \in Nat /\ MARGIN \in Nat /\ at \in Nat /\ used \in Nat
  BY LenProperties, Constants DEF ReadInv, Buffers, Reading
<1>b. pc # "idle" => size = 1 /\ used = 0
  BY Constants DEF OneByOne, ReadInv, Reading
<1>1. Len(chunk') <= 1 + MARGIN
  <2>1. CASE Len(chunk') = Len(chunk)  BY <2>1 DEF Fresh
  <2>2. CASE Copy /\ Len(chunk') = Larger(RequestSize, Len(chunk))
    <3>1. RequestSize = 1 + MARGIN  BY <1>a, <1>b, <2>2 DEF Copy, RequestSize
    <3>. QED  BY <1>a, <2>2, <3>1 DEF Larger, Fresh
  <2>. QED  BY <2>1, <2>2, ChunkLength
<1>2. pc' = "search" => copied' = 1 + MARGIN
  <2>1. CASE Copy
    <3>1. RequestSize = 1 + MARGIN  BY <1>a, <1>b, <2>1 DEF Copy, RequestSize
    <3>2. under = 0  BY <2>1 DEF Copy, Captured
    <3>3. RequestSize <= Len(ring)  BY <1>a, <2>1, <3>1, <3>2 DEF Copy, Has
    <3>. QED  BY <1>a, <2>1, <3>1, <3>3 DEF Copy, Smaller
  <2>2. CASE ~Copy /\ pc' = "search"
    <3>1. pc = "search" /\ copied' = copied
      BY <2>2 DEF Next, Reader, vars, buffers, Arrive, Request, Research, EnterNear, EnterSeek,
         Seek, SeekFails, WaitExpires, KmpMiss, KmpFail, C3Fail, Take, FrameFail, StepOver, Jump,
         FrameRetry, ForceStop, Return, Header
    <3>. QED  BY <3>1 DEF Fresh
  <2>. QED  BY <2>1, <2>2
<1>3. CASE Take
  <2>1. pc = "search" /\ Found # NOISE /\ used = 0 /\ used' = 1
    BY <1>3, <1>b DEF Take, Header
  <2>. DEFINE e == [n |-> Found.n, says |-> Found.says, fresh |-> at < copied]
  <2>2. out' = Append(out, e) /\ Len(out) = 0 /\ out \in Seq(Taken)
    BY <1>3, <2>1 DEF Take, ReadInv, Decoded
  <2>3. at < copied
    <3>1. at < Len(chunk)  BY <2>1 DEF Found
    <3>2. copied = 1 + MARGIN /\ Len(chunk) <= 1 + MARGIN  BY <2>1 DEF Fresh
    <3>. QED  BY <1>a, <3>1, <3>2
  <2>4. e \in Taken
    <3>1. (at < copied) \in BOOLEAN  OBVIOUS
    <3>2. Found.n \in 0 .. END /\ Found.says \in 0 .. END
      BY <2>1, FoundType DEF ReadInv, Buffers
    <3>. QED  BY <3>1, <3>2 DEF Taken
  <2>5. e.fresh = TRUE
    <3>1. (at < copied) = TRUE  BY <2>3
    <3>2. e = [n |-> Found.n, says |-> Found.says, fresh |-> TRUE]  BY <3>1, Zenon
    <3>. QED  BY <3>2
  <2>. HIDE DEF e
  <2>6. out'[1] = e  BY <2>2, <2>4, AppendProperties
  <2>7. \A i \in 1 .. used' : i = 1  BY <2>1
  <2>8. \A i \in 1 .. used' : out'[i].fresh  BY <2>5, <2>6, <2>7, Zenon
  <2>. QED  BY <1>1, <1>2, <2>8 DEF Fresh
<1>4. CASE ~Take
  <2>1. \/ used' = 0
        \/ UNCHANGED <<used, out>>
    BY <1>4 DEF Next, Reader, vars, Arrive, Request, Research, EnterNear, EnterSeek,
       Seek, SeekFails, Copy, WaitExpires, KmpMiss, KmpFail, C3Fail, FrameFail, StepOver, Jump,
       FrameRetry, ForceStop
  <2>2. \A i \in 1 .. used' : out'[i].fresh  BY <2>1 DEF Fresh
  <2>. QED  BY <1>1, <1>2, <2>2 DEF Fresh
<1>. QED  BY <1>3, <1>4

\* Reads of one sector are read from the CD: the jumps of CD_DescrambleSector
\* leave what CD_CopyReadData copied only into cells that are not there, and a
\* read starts with nothing passed that was not captured.  So what violates
\* SectorsFromCD takes a longer read before.
THEOREM SingleSectorsFromCD == OneByOne /\ Spec => []SectorsFromCD
<1>. DEFINE SingleInv == ReadInv /\ Beyond /\ Captured /\ Fresh
<1>1. Init => Beyond /\ Captured /\ Fresh
  <2>. SUFFICES ASSUME Init PROVE Beyond /\ Captured /\ Fresh
    OBVIOUS
  <2>1. Len(<<>>) = 0 /\ chunk = <<>> /\ used = 0 /\ pc = "idle" /\ under = 0
    BY EmptySeq DEF Init
  <2>2. \A i \in 1 .. 0 : FALSE  OBVIOUS
  <2>. QED  BY <2>1, <2>2, Constants DEF Beyond, Captured, Fresh
<1>2. OneByOne /\ ReadInv' /\ SingleInv /\ [Next]_vars => (Beyond /\ Captured /\ Fresh)'
  BY NextBeyond, NextCaptured, NextFresh DEF ReadInv
<1>3. ReadInv /\ Fresh => SectorsFromCD
  <2>. SUFFICES ASSUME ReadInv, Fresh PROVE SectorsFromCD
    OBVIOUS
  <2>1. DOMAIN out = 1 .. used  BY LenProperties DEF ReadInv, Decoded
  <2>. QED  BY <2>1 DEF Fresh, SectorsFromCD
<1>4. CASE OneByOne
  <2>1. ReadInv' /\ SingleInv /\ [Next]_vars => (Beyond /\ Captured /\ Fresh)'  BY <1>2, <1>4
  <2>. QED  BY <1>1, <1>3, <2>1, ReadInvariant, PTL DEF Spec
<1>. QED  BY <1>4
=============================================================================
