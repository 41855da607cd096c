--------------------------- MODULE CdifRingProofs ---------------------------
(***************************************************************************)
(* Theorems about CdifRing: its type invariant, for every value of the     *)
(* constants, and -- when no half buffer completes while the read pointer  *)
(* is stored out of range (FIX_HALVES = 0) -- that the interrupt and the   *)
(* reader never overrun one another and never miscount the ring, and that  *)
(* a sequential read never copies before its samples are there.            *)
(***************************************************************************)
EXTENDS CdifRing, TLAPS

(***************************************************************************)
(* The inductive invariants.                                               *)
(***************************************************************************)

\* The read pointer is out of range exactly between its two stores.
Placed == /\ pc \in Fixing => rp >= LEN
          /\ pc \notin Fixing => rp < LEN

\* The write pointer is a whole number of half buffers.
Aligned == \E k \in 0 .. HALVES - 1 : wp = k * CHUNK

TypeInv == TypeOK /\ Placed /\ Aligned

\* What the h half buffers since a reset, and one pending at it, come to.
Arrivals(h) == (h + 1) * CHUNK

Pending == IF irq THEN CHUNK ELSE 0

\* The pointers agree with the count of samples.
Agree ==
    CASE pc \in {"zeroR", "xzeroR"} -> wp = unread
      [] pc \in Fixing -> wp = Settled + unread
      [] OTHER -> wp = Settled + unread \/ wp = Settled + unread - LEN

\* As long as a half buffer can still be captured, there is room for it.
Room == cicr \/ irq => unread + CHUNK + SPARE < LEN

\* During a reset and its seek little has arrived.
Arrived ==
    pc \in Resetting => halves <= SEEK_HALVES /\ unread + Pending <= Arrivals(halves)

\* With the read pointer out of range, a pending half buffer does not wrap.
Straight == pc \in Fixing /\ irq => wp + CHUNK + SPARE < LEN

\* The search has not passed more than was captured.
Passed == pc \in {"use", "fixUse"} => left <= unread

Counted == /\ unread \in 0 .. LEN - 1
           /\ Agree /\ Room /\ Arrived /\ Straight /\ Passed

RingInv == TypeInv /\ (trusted => Counted)
-----------------------------------------------------------------------------
(* Arithmetic of the constants.                                            *)

LEMMA LenFacts ==
    /\ LEN \in Nat /\ CHUNK \in Nat /\ CHUNK > 0 /\ SPARE = 4
    /\ 2 * CHUNK + SPARE < LEN
<1>1. CHUNK \in Nat \ {0} /\ HALVES \in Nat \ {0} /\ SEEK_HALVES \in Nat
    BY ChunkAssumption, SeekAssumption
<1>2. LEN \in Nat
    BY <1>1 DEF LEN
<1>3. (SEEK_HALVES + 2) * CHUNK = SEEK_HALVES * CHUNK + 2 * CHUNK /\ SEEK_HALVES * CHUNK >= 0
    BY <1>1
<1>4. (SEEK_HALVES + 2) * CHUNK + SPARE < LEN
    BY SeekAssumption
<1> QED BY <1>1, <1>2, <1>3, <1>4 DEF SPARE

LEMMA ArrivalFacts ==
    ASSUME NEW h \in Nat
    PROVE  /\ Arrivals(h) \in Nat
           /\ Arrivals(0) = CHUNK
           /\ Arrivals(h) >= CHUNK
           /\ Arrivals(h + 1) = Arrivals(h) + CHUNK
           /\ h <= SEEK_HALVES => Arrivals(h) + CHUNK + SPARE < LEN
<1>1. CHUNK \in Nat /\ SEEK_HALVES \in Nat /\ LEN \in Nat
    BY LenFacts, SeekAssumption
<1>2. Arrivals(h) = h * CHUNK + CHUNK /\ h * CHUNK \in Nat
    BY <1>1 DEF Arrivals
<1>3. Arrivals(0) = CHUNK
    BY <1>1 DEF Arrivals
<1>4. Arrivals(h + 1) = Arrivals(h) + CHUNK
    BY <1>1 DEF Arrivals
<1>5. ASSUME h <= SEEK_HALVES PROVE Arrivals(h) + CHUNK + SPARE < LEN
    <2>1. PICK d \in Nat : SEEK_HALVES = h + d
        BY <1>1, <1>5
    <2>2. (SEEK_HALVES + 2) * CHUNK = h * CHUNK + d * CHUNK + 2 * CHUNK /\ d * CHUNK \in Nat
        BY <1>1, <2>1
    <2>3. (SEEK_HALVES + 2) * CHUNK + SPARE < LEN
        BY SeekAssumption
    <2> QED BY <1>1, <1>2, <2>2, <2>3 DEF SPARE
<1> QED BY <1>1, <1>2, <1>3, <1>4, <1>5

\* Zero is aligned.
LEMMA ZeroAligned == \E k \in 0 .. HALVES - 1 : 0 = k * CHUNK
<1>1. CHUNK \in Nat \ {0} /\ HALVES \in Nat \ {0}
    BY ChunkAssumption
<1> QED BY <1>1

\* The interrupt's write pointer stays aligned and never leaves the ring.
LEMMA NextWriteFacts ==
    ASSUME Aligned
    PROVE  /\ wp \in 0 .. LEN - 1
           /\ wp + CHUNK <= LEN
           /\ \E k \in 0 .. HALVES - 1 : NextWrite = k * CHUNK
<1>1. CHUNK \in Nat \ {0} /\ HALVES \in Nat \ {0} /\ LEN \in Nat
    BY ChunkAssumption, LenFacts
<1>2. PICK k \in 0 .. HALVES - 1 : wp = k * CHUNK
    BY DEF Aligned
<1>3. PICK d \in Nat : HALVES = k + 1 + d
    BY <1>1, <1>2
<1>4. LEN = k * CHUNK + CHUNK + d * CHUNK /\ d * CHUNK \in Nat /\ k * CHUNK \in Nat
    BY <1>1, <1>2, <1>3 DEF LEN
<1>5. wp \in 0 .. LEN - 1 /\ wp + CHUNK <= LEN
    BY <1>1, <1>2, <1>4
<1>6. ASSUME wp + CHUNK = LEN PROVE \E j \in 0 .. HALVES - 1 : NextWrite = j * CHUNK
    BY <1>6, ZeroAligned DEF NextWrite
<1>7. ASSUME wp + CHUNK # LEN PROVE \E j \in 0 .. HALVES - 1 : NextWrite = j * CHUNK
    <2>1. NextWrite = (k + 1) * CHUNK
        BY <1>1, <1>2, <1>7 DEF NextWrite
    <2>2. d # 0
        BY <1>1, <1>2, <1>4, <1>7
    <2> QED BY <1>1, <1>2, <1>3, <2>1, <2>2
<1>8. \E j \in 0 .. HALVES - 1 : NextWrite = j * CHUNK
    BY <1>6, <1>7
<1> QED BY <1>5, <1>8

\* What DataAvailable and Wrap answer for pointers in range.
LEMMA DataFacts ==
    ASSUME rp \in 0 .. LEN - 1, wp \in 0 .. LEN - 1
    PROVE  /\ Data \in 0 .. LEN - 1
           /\ wp = rp + Data \/ wp = rp + Data - LEN
BY LenFacts DEF Data, SingleBufferDataAvailable

LEMMA WrapFacts ==
    ASSUME NEW r \in LEN .. 2 * LEN - 1
    PROVE  Wrap(LEN, r) = r - LEN
BY LenFacts DEF Wrap

LEMMA SkipFacts ==
    ASSUME gap \in Int, gap >= 1, Skip + FRAME <= Data, Data \in 0 .. LEN - 1
    PROVE  Skip \in 0 .. LEN /\ Skip <= Data
<1>1. FRAME \in Nat \ {0} /\ LEN \in Nat
    BY FrameAssumption, LenFacts
<1>2. PICK s \in Nat : gap = s + 1
    BY ONLY gap \in Int, gap >= 1
<1>3. Skip = s * FRAME /\ s * FRAME \in Nat
    BY <1>1, <1>2 DEF Skip
<1> QED BY <1>1, <1>3
-----------------------------------------------------------------------------
(* Type correctness.                                                       *)

LEMMA TypeInvInit == Init => TypeInv
<1> SUFFICES ASSUME Init PROVE TypeInv
    OBVIOUS
<1>1. WORK \in Nat /\ EJECTS \in Nat
    BY ReadAssumption
<1>2. TypeOK
    <2>1. rp \in 0 .. 2 * LEN - 1 /\ wp \in 0 .. LEN - 1
        BY LenFacts DEF Init
    <2>2. work \in 0 .. WORK /\ ejects \in 0 .. EJECTS
        BY <1>1 DEF Init
    <2>3. /\ req \in Nat /\ gap \in Int /\ have \in Nat /\ left \in Nat
          /\ halves \in Nat /\ unread \in Int
        BY DEF Init
    <2>4. /\ cicr \in BOOLEAN /\ irq \in BOOLEAN /\ forceStop \in BOOLEAN
          /\ datacd \in BOOLEAN /\ pickupseek \in BOOLEAN /\ trusted \in BOOLEAN
        BY DEF Init
    <2>5. /\ bufStatus \in {"CD_BUF_START", "CD_BUF_STOP"}
          /\ errStatus \in {"CD_NO_PROBLEM", "CD_BUF_FULL", "CD_MISS_SUBQ"}
          /\ pc \in Locations
        BY DEF Init, Locations
    <2> QED BY <2>1, <2>2, <2>3, <2>4, <2>5 DEF TypeOK
<1>3. Placed
    BY LenFacts DEF Init, Placed, Fixing
<1>4. Aligned
    <2>1. wp = 0
        BY DEF Init
    <2> QED BY <2>1, ZeroAligned DEF Aligned
<1> QED BY <1>2, <1>3, <1>4 DEF TypeInv

\* The write pointer is moved by the interrupt and by the resets only.
LEMMA AlignedNext == ASSUME TypeInv, [Next]_vars PROVE Aligned'
<1>1. CASE AdmaInterrupt
    <2>1. \E k \in 0 .. HALVES - 1 : NextWrite = k * CHUNK
        BY NextWriteFacts DEF TypeInv
    <2>2. wp' = NextWrite
        BY <1>1 DEF AdmaInterrupt
    <2> QED BY <2>1, <2>2 DEF Aligned
<1>2. CASE ZeroWrite \/ ExpireZeroWrite
    BY <1>2, ZeroAligned DEF ZeroWrite, ExpireZeroWrite, ZeroWritePointer, Aligned
<1>3. CASE wp' = wp
    BY <1>3 DEF TypeInv, Aligned
<1>4. AdmaInterrupt \/ ZeroWrite \/ ExpireZeroWrite \/ wp' = wp
    <2>1. CASE HalfComplete \/ (\E b \in BOOLEAN : SetDevForceStop(b)) \/ UNCHANGED vars
        BY <2>1 DEF HalfComplete, SetDevForceStop, vars, ring
    <2>2. CASE \E r \in Requests, g \in Gaps : Request(r, g)
        BY <2>2 DEF Request, ring
    <2>3. CASE Reader
        BY <2>3 DEF Reader, ResearchSkip, ResearchMiss, ResearchStay, FixSkip, FixUse, Fix,
            EnterFar, EnterNear, EnterStopped, FullRestart, FullGoOn, ZeroRead,
            ZeroReadPointer, SeekDone, SeekDeckError, StartCdif, Sample, CheckForceStop,
            Tick, Expire, ExpireZeroRead, ExpireMiss, ExpireOff, ClearError, Copy,
            SearchRetry, SearchEnd, SearchMove, ring
    <2> QED BY <2>1, <2>2, <2>3 DEF Next
<1> QED BY <1>1, <1>2, <1>3, <1>4

\* The read pointer goes out of range exactly when the thread enters a "fix".
LEMMA PlacedNext == ASSUME TypeInv, [Next]_vars PROVE Placed' /\ rp' \in 0 .. 2 * LEN - 1
<1>0. /\ LEN \in Nat /\ 0 < LEN
      /\ rp \in 0 .. 2 * LEN - 1 /\ Placed /\ TypeOK
      /\ wp \in 0 .. LEN - 1
    BY LenFacts DEF TypeInv, TypeOK
<1>1. ASSUME rp' = rp, pc' \notin Fixing, pc \notin Fixing PROVE Placed' /\ rp' \in 0 .. 2 * LEN - 1
    BY <1>0, <1>1 DEF Placed
<1>2. ASSUME rp' = rp, pc' = pc PROVE Placed' /\ rp' \in 0 .. 2 * LEN - 1
    BY <1>0, <1>2 DEF Placed
<1>3. ASSUME NEW n \in 0 .. LEN, NEW next \in Locations \ Fixing, NEW fix \in Fixing,
             pc \notin Fixing, MoveReadPointer(n, next, fix)
      PROVE  Placed' /\ rp' \in 0 .. 2 * LEN - 1
    BY <1>0, <1>3 DEF MoveReadPointer, Placed
<1>4. CASE HalfComplete \/ AdmaInterrupt \/ (\E b \in BOOLEAN : SetDevForceStop(b)) \/ UNCHANGED vars
    BY <1>2, <1>4 DEF HalfComplete, AdmaInterrupt, SetDevForceStop, vars, ring
<1>5. CASE \E r \in Requests, g \in Gaps : Request(r, g)
    BY <1>1, <1>5 DEF Request, Goto, ring, Fixing
<1>6. CASE FixSkip \/ FixUse
    <2>1. rp \in LEN .. 2 * LEN - 1
        BY <1>0, <1>6 DEF FixSkip, FixUse, Fix, Goto, Fixing, Placed
    <2>2. rp' = rp - LEN
        BY <1>6, <2>1, WrapFacts DEF FixSkip, FixUse, Fix
    <2>3. pc' \notin Fixing
        BY <1>6 DEF FixSkip, FixUse, Fix, Goto, Fixing
    <2> QED BY <1>0, <2>1, <2>2, <2>3 DEF Placed
<1>7. CASE ResearchSkip
    <2>1. pc \notin Fixing /\ rp \in 0 .. LEN - 1
        BY <1>0, <1>7 DEF ResearchSkip, Fixing, Placed
    <2>2. Skip \in 0 .. LEN
        BY <1>0, <1>7, <2>1, DataFacts, SkipFacts DEF ResearchSkip, TypeOK
    <2> QED BY <1>3, <1>7, <2>1, <2>2 DEF ResearchSkip, Locations, Fixing
<1>8. CASE \E n \in Steps : SearchMove(n)
    <2>1. PICK n \in Steps : SearchMove(n)
        BY <1>8
    <2>2. n \in 0 .. LEN
        BY ReadAssumption
    <2> QED BY <1>3, <2>1, <2>2 DEF SearchMove, Locations, Fixing
<1>9. CASE ZeroRead \/ ExpireZeroRead
    BY <1>0, <1>9 DEF ZeroRead, ExpireZeroRead, ZeroReadPointer, Goto, Placed, Fixing
<1>10. CASE ResearchMiss \/ ResearchStay \/ EnterFar \/ EnterNear \/ EnterStopped
            \/ FullRestart \/ FullGoOn \/ ZeroWrite \/ ExpireZeroWrite
    BY <1>1, <1>10 DEF ResearchMiss, ResearchStay, EnterFar, EnterNear, EnterStopped,
        FullRestart, FullGoOn, ZeroWrite, ExpireZeroWrite, ZeroWritePointer, Goto, ring, Fixing
<1>11. CASE SeekDone \/ SeekDeckError \/ StartCdif \/ Sample \/ CheckForceStop \/ Tick \/ Expire
    BY <1>1, <1>11 DEF SeekDone, SeekDeckError, StartCdif, Sample, CheckForceStop, Tick, Expire,
        Leave, Goto, ring, Fixing
<1>12. CASE ExpireMiss \/ ExpireOff \/ ClearError \/ Copy \/ SearchRetry \/ SearchEnd
    BY <1>1, <1>12 DEF ExpireMiss, ExpireOff, ClearError, Copy, SearchRetry, SearchEnd,
        Leave, Goto, ring, Fixing
<1> QED BY <1>4, <1>5, <1>6, <1>7, <1>8, <1>9, <1>10, <1>11, <1>12 DEF Next, Reader

\* An aligned pointer is inside the ring.
LEMMA AlignedInRing ==
    ASSUME NEW w, \E k \in 0 .. HALVES - 1 : w = k * CHUNK
    PROVE  w \in 0 .. LEN - 1
<1>1. CHUNK \in Nat \ {0} /\ HALVES \in Nat \ {0}
    BY ChunkAssumption
<1>2. PICK k \in 0 .. HALVES - 1 : w = k * CHUNK
    OBVIOUS
<1>3. PICK d \in Nat : HALVES = k + 1 + d
    BY <1>1, <1>2
<1>4. LEN = k * CHUNK + CHUNK + d * CHUNK /\ d * CHUNK \in Nat /\ k * CHUNK \in Nat
    BY <1>1, <1>2, <1>3 DEF LEN
<1> QED BY <1>1, <1>2, <1>4

LEMMA TypeOKNext == ASSUME TypeInv, [Next]_vars PROVE TypeOK'
<1>0. TypeOK /\ Placed /\ Aligned
    BY DEF TypeInv
<1>1. rp' \in 0 .. 2 * LEN - 1 /\ wp' \in 0 .. LEN - 1
    <2>1. Aligned'
        BY AlignedNext
    <2> QED BY <2>1, PlacedNext, AlignedInRing DEF Aligned
<1> DEFINE Rest ==
    /\ bufStatus \in {"CD_BUF_START", "CD_BUF_STOP"}
    /\ errStatus \in {"CD_NO_PROBLEM", "CD_BUF_FULL", "CD_MISS_SUBQ"}
    /\ cicr \in BOOLEAN /\ irq \in BOOLEAN
    /\ forceStop \in BOOLEAN /\ datacd \in BOOLEAN /\ pickupseek \in BOOLEAN
    /\ pc \in Locations
    /\ req \in Nat /\ gap \in Int /\ have \in Nat /\ left \in Nat
    /\ work \in 0 .. WORK
    /\ halves \in Nat
    /\ ejects \in 0 .. EJECTS
    /\ unread \in Int
    /\ trusted \in BOOLEAN
<1>2. SUFFICES Rest'
    BY <1>1 DEF TypeOK
<1>3. Rest
    BY <1>0 DEF TypeOK
<1>4. /\ LEN \in Nat /\ CHUNK \in Nat /\ WORK \in Nat /\ EJECTS \in Nat
      /\ Requests \subseteq Nat /\ Gaps \subseteq Int /\ Steps \subseteq Nat
    BY LenFacts, ReadAssumption
<1>5. pc \notin Fixing => Data \in Nat
    BY <1>0, DataFacts, LenFacts DEF Placed, TypeOK
<1> USE <1>3, <1>4
<1>6. CASE HalfComplete
    <2>1. irq' \in BOOLEAN /\ halves' \in Nat
        BY <1>6 DEF HalfComplete
    <2> QED BY <1>6, <2>1 DEF HalfComplete, status, device, locals, history
<1>22. CASE UNCHANGED vars
    BY <1>22 DEF vars, status, device, locals, history
<1>7. CASE \E b \in BOOLEAN : SetDevForceStop(b)
    <2>1. PICK b \in BOOLEAN : SetDevForceStop(b)
        BY <1>7
    <2>2. forceStop' \in BOOLEAN /\ datacd' \in BOOLEAN /\ ejects' \in 0 .. EJECTS
        BY <2>1 DEF SetDevForceStop
    <2> QED BY <2>1, <2>2 DEF SetDevForceStop, ring, status, locals, history
<1>18. CASE AdmaInterrupt
    <2>1. cicr' \in BOOLEAN /\ trusted' \in BOOLEAN /\ irq' \in BOOLEAN
        BY <1>18, Zenon DEF AdmaInterrupt
    <2>2. unread' \in Int /\ errStatus' \in {"CD_NO_PROBLEM", "CD_BUF_FULL", "CD_MISS_SUBQ"}
        BY <1>18 DEF AdmaInterrupt
    <2> QED BY <1>18, <2>1, <2>2 DEF AdmaInterrupt, device, locals
<1>8. CASE \E r \in Requests, g \in Gaps : Request(r, g)
    BY <1>8 DEF Request, Goto, Locations, ring, status, device, history
<1>9. CASE FixSkip \/ FixUse \/ ResearchMiss \/ ResearchStay
    BY <1>9 DEF FixSkip, FixUse, Fix, ResearchMiss, ResearchStay, Goto, Locations,
        ring, status, device, locals, history
<1>10. CASE ResearchSkip
    <2>1. pc \notin Fixing
        BY <1>10 DEF ResearchSkip, Fixing
    <2>2. Skip \in Nat
        BY <1>0, <1>10, <2>1, DataFacts, SkipFacts DEF ResearchSkip, TypeOK, Placed
    <2> QED BY <1>10, <2>2 DEF ResearchSkip, MoveReadPointer, Locations, ring, status, device, locals
<1>11. CASE EnterFar \/ EnterNear \/ EnterStopped
    BY <1>5, <1>11 DEF EnterFar, EnterNear, EnterStopped, Goto, Locations, Fixing,
        ring, status, device, locals, history
<1>12. CASE FullRestart \/ FullGoOn
    BY <1>12 DEF FullRestart, FullGoOn, Goto, Locations, ring, status, device, locals, history
<1>19. CASE ZeroWrite \/ ExpireZeroWrite
    <2>1. halves' = 0 /\ unread' = 0 /\ pc' \in {"zeroR", "xzeroR"}
        BY <1>19 DEF ZeroWrite, ExpireZeroWrite, ZeroWritePointer, Goto
    <2>2. trusted' \in BOOLEAN
        BY <1>19, Zenon DEF ZeroWrite, ExpireZeroWrite, ZeroWritePointer
    <2> QED BY <1>19, <2>1, <2>2 DEF Locations, ZeroWrite, ExpireZeroWrite, ZeroWritePointer, status, device, locals
<1>20. CASE ZeroRead \/ ExpireZeroRead
    BY <1>20 DEF ZeroRead, ExpireZeroRead, ZeroReadPointer, Goto, Locations, device, locals,
        history
<1>13. CASE SeekDone \/ Tick \/ Expire
    BY <1>13 DEF SeekDone, Tick, Expire, Goto, Locations, ring, status, device, locals, history
<1>23. CASE StartCdif
    BY <1>23 DEF StartCdif, Goto, Locations, ring, status, device, locals, history
<1>21. CASE SeekDeckError \/ CheckForceStop
    BY <1>21 DEF SeekDeckError, CheckForceStop, Leave, Locations, ring, status, device, history
<1>14. CASE Sample \/ Copy
    BY <1>5, <1>14 DEF Sample, Copy, Goto, Locations, Fixing, ring, status, device, locals, history
<1>15. CASE ExpireMiss \/ ExpireOff \/ ClearError
    BY <1>15 DEF ExpireMiss, ExpireOff, ClearError, Goto, Locations, ring, status, device,
        locals, history
<1>16. CASE SearchRetry \/ SearchEnd
    BY <1>16 DEF SearchRetry, SearchEnd, Leave, Goto, Locations, ring, status, device,
        locals, history
<1>17. CASE \E n \in Steps : SearchMove(n)
    BY <1>17 DEF SearchMove, MoveReadPointer, Locations, status, device
<1> QED BY <1>6, <1>7, <1>8, <1>9, <1>10, <1>11, <1>12, <1>13, <1>14, <1>15, <1>16, <1>17,
        <1>18, <1>19, <1>20, <1>21, <1>22, <1>23 DEF Next, Reader

\* The typing of CdifRing, for every value of the constants: the write pointer
\* never leaves the ring, and the read pointer not by more than its length.
THEOREM TypeCorrect == Spec => []TypeOK
<1>1. Init => TypeInv
    BY TypeInvInit
<1>2. TypeInv /\ [Next]_vars => TypeInv'
    BY AlignedNext, PlacedNext, TypeOKNext DEF TypeInv
<1>3. TypeInv => TypeOK
    BY DEF TypeInv
<1> QED BY <1>1, <1>2, <1>3, PTL DEF Spec
-----------------------------------------------------------------------------
(* The count of the ring.                                                  *)

\* At rest, the pointers tell the number of samples not passed.
LEMMA DataIsUnread ==
    ASSUME RingInv, trusted, pc \notin {"zeroR", "xzeroR"} \cup Fixing
    PROVE  Data = unread /\ rp \in 0 .. LEN - 1 /\ wp \in 0 .. LEN - 1
<1>1. rp \in 0 .. LEN - 1 /\ wp \in 0 .. LEN - 1
    BY LenFacts DEF RingInv, TypeInv, TypeOK, Placed
<1>2. Data \in 0 .. LEN - 1 /\ (wp = rp + Data \/ wp = rp + Data - LEN)
    BY <1>1, DataFacts
<1>3. unread \in 0 .. LEN - 1 /\ (wp = rp + unread \/ wp = rp + unread - LEN)
    BY <1>1, LenFacts DEF RingInv, Counted, Agree, Settled, Fixing
<1> QED BY <1>1, <1>2, <1>3, LenFacts

\* The DMA only raises its interrupt when there is room for the half buffer.
LEMMA HalfCompleteCounted ==
    ASSUME FIX_HALVES = 0, RingInv, trusted, HalfComplete
    PROVE  Counted'
<1>1. /\ Counted /\ cicr /\ ~irq /\ irq' /\ pc \notin Fixing
      /\ UNCHANGED <<rp, wp, cicr, pc, left, unread>>
      /\ halves' = IF pc \in Resetting THEN halves + 1 ELSE halves
      /\ pc \in Resetting => halves < SEEK_HALVES
      /\ halves \in Nat /\ CHUNK \in Nat /\ SEEK_HALVES \in Nat
    BY LenFacts, SeekAssumption
       DEF HalfComplete, RingInv, TypeInv, TypeOK, ring, locals, history
<1>2. unread' \in 0 .. LEN - 1 /\ Agree' /\ Room' /\ Straight' /\ Passed'
    BY <1>1 DEF Counted, Agree, Settled, Room, Straight, Passed
<1>3. Arrived'
    <2> SUFFICES ASSUME pc \in Resetting
                 PROVE  halves + 1 <= SEEK_HALVES /\ unread + CHUNK <= Arrivals(halves + 1)
        BY <1>1 DEF Arrived, Pending, Arrivals
    <2>1. unread <= Arrivals(halves)
        BY <1>1 DEF Counted, Arrived, Pending
    <2> QED BY <1>1, <2>1, ArrivalFacts DEF Counted
<1> QED BY <1>2, <1>3 DEF Counted

\* The interrupt fills the room there was; its full check sees what is left.
LEMMA AdmaInterruptCounted ==
    ASSUME RingInv, trusted, trusted', AdmaInterrupt
    PROVE  Counted'
<1>1. /\ Counted /\ irq /\ datacd
      /\ UNCHANGED <<rp, pc, left, halves>>
      /\ wp' = NextWrite /\ unread' = unread + CHUNK /\ irq' = FALSE
      /\ cicr' <=> cicr /\ ~RingFull
    BY DEF AdmaInterrupt, RingInv, locals
<1>2. /\ LEN \in Nat /\ CHUNK \in Nat /\ CHUNK > 0 /\ SPARE = 4 /\ SEEK_HALVES \in Nat
      /\ halves \in Nat /\ left \in Nat
      /\ rp \in 0 .. 2 * LEN - 1 /\ (pc \in Fixing <=> rp >= LEN)
      /\ wp \in 0 .. LEN - 1 /\ wp + CHUNK <= LEN
    BY LenFacts, NextWriteFacts, SeekAssumption
       DEF RingInv, TypeInv, TypeOK, Placed
<1>3. unread \in 0 .. LEN - 1 /\ unread + CHUNK + SPARE < LEN
    BY <1>1 DEF Counted, Room
<1>4. unread' \in 0 .. LEN - 1 /\ Straight' /\ Passed'
    BY <1>1, <1>2, <1>3 DEF Counted, Straight, Passed
<1>5. pc \in Resetting => /\ halves <= SEEK_HALVES
                          /\ unread + CHUNK <= Arrivals(halves)
                          /\ Arrivals(halves) + CHUNK + SPARE < LEN
                          /\ Arrivals(halves) \in Nat
    BY <1>1, <1>2, ArrivalFacts DEF Counted, Arrived, Pending
<1>6. Arrived'
    BY <1>1, <1>2, <1>3, <1>5 DEF Arrived, Pending, Arrivals
<1>7. CASE pc \in {"zeroR", "xzeroR"}
    <2>1. unread + 2 * CHUNK + SPARE < LEN
        BY <1>2, <1>3, <1>5, <1>7 DEF Resetting
    <2>2. wp = unread
        BY <1>1, <1>7 DEF Counted, Agree, Fixing
    <2>3. NextWrite = unread + CHUNK
        BY <1>2, <1>3, <2>1, <2>2 DEF NextWrite
    <2>4. Agree'
        BY <1>1, <1>7, <2>3 DEF Agree, Fixing
    <2>5. Room'
        BY <1>1, <1>2, <1>3, <2>1 DEF Room
    <2> QED BY <1>4, <1>6, <2>4, <2>5 DEF Counted
<1>8. CASE pc \in Fixing
    <2>1. NextWrite = rp - LEN + (unread + CHUNK)
        BY <1>1, <1>2, <1>3, <1>8 DEF Counted, Agree, Settled, Straight, NextWrite, Fixing
    <2>2. SingleBufferSpaceAvailable(LEN, rp, NextWrite) = LEN - (unread + CHUNK) - SPARE
        <3>1. NextWrite < rp /\ NextWrite \in Int
            BY <1>2, <1>3, <1>8, <2>1
        <3> QED BY <1>2, <1>3, <2>1, <3>1 DEF SingleBufferSpaceAvailable
    <2>3. Room'
        BY <1>1, <1>2, <1>3, <2>2 DEF Room, RingFull
    <2>4. Agree'
        BY <1>1, <1>2, <1>8, <2>1 DEF Agree, Settled, Fixing
    <2> QED BY <1>4, <1>6, <2>3, <2>4 DEF Counted
<1>9. CASE pc \notin {"zeroR", "xzeroR"} \cup Fixing
    <2>1. wp = rp + unread \/ wp = rp + unread - LEN
        BY <1>1, <1>2, <1>9 DEF Counted, Agree, Settled
    <2>2. \/ NextWrite = rp + (unread + CHUNK)
          \/ NextWrite = rp + (unread + CHUNK) - LEN
        BY <1>2, <1>3, <1>9, <2>1 DEF NextWrite
    <2>3. SingleBufferSpaceAvailable(LEN, rp, NextWrite) = LEN - (unread + CHUNK) - SPARE
        <3>1. CASE NextWrite = rp + (unread + CHUNK)
            BY <1>2, <1>3, <3>1 DEF SingleBufferSpaceAvailable
        <3>2. CASE NextWrite = rp + (unread + CHUNK) - LEN
            BY <1>2, <1>3, <3>2 DEF SingleBufferSpaceAvailable
        <3> QED BY <2>2, <3>1, <3>2
    <2>4. Room'
        BY <1>1, <1>2, <1>3, <2>3 DEF Room, RingFull
    <2>5. Agree'
        BY <1>1, <1>2, <1>9, <2>2 DEF Agree, Settled
    <2> QED BY <1>4, <1>6, <2>4, <2>5 DEF Counted
<1> QED BY <1>7, <1>8, <1>9

\* The pointers are reset one after the other, with the CDIF perhaps still on.
LEMMA ZeroWriteCounted ==
    ASSUME RingInv, ZeroWrite \/ ExpireZeroWrite
    PROVE  Counted'
<1>1. /\ wp' = 0 /\ unread' = 0 /\ halves' = 0 /\ irq' = irq /\ cicr' = cicr
      /\ pc' \in {"zeroR", "xzeroR"}
    BY DEF ZeroWrite, ExpireZeroWrite, ZeroWritePointer, Goto
<1>2. /\ LEN \in Nat /\ CHUNK \in Nat /\ 2 * CHUNK + SPARE < LEN /\ SPARE = 4
      /\ SEEK_HALVES \in Nat
    BY LenFacts, SeekAssumption
<1>3. Arrived'
    BY <1>1, <1>2, ArrivalFacts DEF Arrived, Pending, Arrivals
<1> QED BY <1>1, <1>2, <1>3 DEF Counted, Agree, Room, Straight, Passed, Fixing

LEMMA ZeroReadCounted ==
    ASSUME RingInv, trusted, ZeroRead \/ ExpireZeroRead
    PROVE  Counted'
<1>1. /\ Counted /\ pc \in {"zeroR", "xzeroR"} /\ pc' \in {"seek", "miss"}
      /\ rp' = 0 /\ UNCHANGED <<wp, cicr, irq, halves, unread>>
      /\ pc' = "miss" \/ pc' = "seek"
    BY DEF RingInv, ZeroRead, ExpireZeroRead, ZeroReadPointer, Goto, history
<1>2. LEN \in Nat /\ LEN > 0
    BY LenFacts
<1>3. unread' \in 0 .. LEN - 1 /\ Room' /\ Straight' /\ Passed' /\ Arrived'
    BY <1>1 DEF Counted, Room, Straight, Passed, Arrived, Pending, Arrivals, Fixing, Resetting
<1>4. Agree'
    BY <1>1, <1>2 DEF Counted, Agree, Settled, Fixing
<1> QED BY <1>3, <1>4 DEF Counted

\* Correcting the read pointer changes nothing that is counted.
LEMMA FixCounted ==
    ASSUME RingInv, trusted, FixSkip \/ FixUse
    PROVE  Counted'
<1>1. /\ Counted /\ pc \in Fixing /\ pc' \notin Fixing \cup Resetting
      /\ (pc = "fixUse" <=> pc' = "use")
      /\ rp' = Wrap(LEN, rp) /\ UNCHANGED <<wp, cicr, irq, halves, unread, left>>
    BY DEF RingInv, FixSkip, FixUse, Fix, Goto, history, locals, Fixing, Resetting
<1>2. LEN \in Nat /\ LEN > 0 /\ rp \in LEN .. 2 * LEN - 1
    BY <1>1, LenFacts DEF RingInv, TypeInv, TypeOK, Placed
<1>3. rp' = rp - LEN
    BY <1>1, <1>2, WrapFacts
<1>4. wp = rp - LEN + unread
    BY <1>1, <1>2 DEF Counted, Agree, Settled, Fixing
<1>5. unread' \in 0 .. LEN - 1 /\ Room' /\ Straight' /\ Arrived'
    BY <1>1 DEF Counted, Room, Straight, Arrived
<1>6. Passed'
    BY <1>1 DEF Counted, Passed, Fixing
<1>7. Agree'
    BY <1>1, <1>2, <1>3, <1>4 DEF Agree, Settled, Resetting
<1> QED BY <1>5, <1>6, <1>7 DEF Counted

\* A move over n samples that were counted keeps the count.
LEMMA MoveCounted ==
    ASSUME RingInv, trusted, NEW n \in 0 .. LEN, n <= unread,
           NEW next, NEW fix \in Fixing, next \notin Fixing \cup Resetting,
           pc \notin {"zeroR", "xzeroR"} \cup Fixing,
           MoveReadPointer(n, next, fix),
           UNCHANGED <<wp, cicr, irq>>, unread' = unread - n
    PROVE  /\ unread' \in 0 .. LEN - 1 /\ Agree' /\ Room' /\ Arrived' /\ Straight'
<1>1. /\ rp' = rp + n /\ halves' = 0
      /\ pc' = IF rp + n < LEN THEN next ELSE fix
    BY DEF MoveReadPointer
<1>2. /\ LEN \in Nat /\ CHUNK \in Nat /\ SPARE = 4
      /\ rp \in 0 .. LEN - 1 /\ wp \in 0 .. LEN - 1
      /\ unread \in 0 .. LEN - 1
      /\ wp = rp + unread \/ wp = rp + unread - LEN
      /\ Room
    BY LenFacts, DataIsUnread DEF RingInv, Counted, Agree, Settled
<1>3. unread' \in 0 .. LEN - 1 /\ Room'
    BY <1>2 DEF Room
<1>4. pc' \notin Resetting
    BY <1>1 DEF Fixing, Resetting
<1>5. CASE rp + n < LEN
    BY <1>1, <1>2, <1>3, <1>4, <1>5 DEF Agree, Settled, Straight, Arrived, Resetting
<1>6. CASE rp + n >= LEN
    <2>1. wp = rp + unread - LEN
        BY <1>2, <1>6
    <2>2. pc' \in Fixing
        BY <1>1, <1>2, <1>6
    <2>3. Agree'
        BY <1>1, <1>2, <1>6, <2>1, <2>2 DEF Agree, Settled, Fixing
    <2>4. Straight'
        BY <1>2, <2>1 DEF Straight, Room
    <2> QED BY <1>3, <1>4, <2>3, <2>4 DEF Arrived
<1> QED BY <1>2, <1>5, <1>6

LEMMA ResearchSkipCounted ==
    ASSUME RingInv, trusted, ResearchSkip
    PROVE  Counted'
<1>1. /\ pc = "research" /\ gap \in Int /\ gap >= 1 /\ Skip + FRAME <= Data
      /\ MoveReadPointer(Skip, "enter", "fixSkip")
      /\ UNCHANGED <<wp, cicr, irq>> /\ unread' = unread - Skip
    BY DEF ResearchSkip, RingInv, TypeInv, TypeOK
<1>2. Data = unread /\ Data \in 0 .. LEN - 1
    BY <1>1, DataIsUnread, DataFacts DEF Fixing
<1>3. Skip \in 0 .. LEN /\ Skip <= unread
    BY <1>1, <1>2, SkipFacts
<1>4. unread' \in 0 .. LEN - 1 /\ Agree' /\ Room' /\ Arrived' /\ Straight'
    BY <1>1, <1>3, MoveCounted DEF Fixing, Resetting
<1>5. Passed'
    BY <1>1 DEF Passed, MoveReadPointer
<1> QED BY <1>4, <1>5 DEF Counted

LEMMA SearchMoveCounted ==
    ASSUME RingInv, trusted, NEW n \in Steps, SearchMove(n), trusted'
    PROVE  Counted'
<1>1. /\ pc = "use" /\ n \in 0 .. LEN /\ n <= left
      /\ MoveReadPointer(n, "use", "fixUse")
      /\ UNCHANGED <<wp, cicr, irq>> /\ unread' = unread - n /\ left' = left - n
    BY ReadAssumption DEF SearchMove, status, locals
<1>2. left \in Nat /\ unread \in 0 .. LEN - 1 /\ left <= unread /\ LEN \in Nat
    BY <1>1, LenFacts DEF RingInv, TypeInv, TypeOK, Counted, Passed
<1>3. unread' \in 0 .. LEN - 1 /\ Agree' /\ Room' /\ Arrived' /\ Straight'
    BY <1>1, <1>2, MoveCounted DEF Fixing, Resetting
<1>4. Passed'
    BY <1>1, <1>2 DEF Passed
<1> QED BY <1>3, <1>4 DEF Counted

\* A step of the thread that leaves the ring alone.
LEMMA ElsewhereCounted ==
    ASSUME RingInv, trusted,
           pc \notin {"zeroR", "xzeroR"} \cup Fixing,
           pc' \notin Resetting \cup Fixing \cup {"use"},
           UNCHANGED <<rp, wp, irq, halves, unread>>, cicr' = cicr \/ cicr' = FALSE
    PROVE  Counted'
<1>1. Counted
    BY DEF RingInv
<1>2. Agree'
    BY <1>1 DEF Counted, Agree, Settled, Resetting
<1> QED BY <1>1, <1>2 DEF Counted, Room, Arrived, Straight, Passed, Fixing

\* The seek, the start of the CDIF and the copy.
LEMMA SeekDoneCounted ==
    ASSUME RingInv, trusted, SeekDone
    PROVE  Counted'
<1>1. /\ Counted /\ pc = "seek" /\ pc' = "on"
      /\ UNCHANGED <<rp, wp, cicr, irq, halves, unread>>
    BY DEF RingInv, SeekDone, Goto, ring, history
<1>2. Agree' /\ Arrived'
    BY <1>1 DEF Counted, Agree, Settled, Fixing, Arrived, Pending, Arrivals, Resetting
<1> QED BY <1>1, <1>2 DEF Counted, Room, Straight, Passed, Fixing

LEMMA StartCdifCounted ==
    ASSUME RingInv, trusted, StartCdif
    PROVE  Counted'
<1>1. /\ Counted /\ pc = "on" /\ pc' = "sample"
      /\ UNCHANGED <<rp, wp, irq, halves, unread>>
      /\ halves \in Nat /\ CHUNK \in Nat /\ SPARE = 4 /\ LEN \in Nat
    BY LenFacts DEF RingInv, TypeInv, TypeOK, StartCdif, Goto, ring, history
<1>2. unread + CHUNK + SPARE < LEN
    <2>1. /\ halves <= SEEK_HALVES /\ unread <= Arrivals(halves)
        BY <1>1, ArrivalFacts DEF Counted, Arrived, Pending, Resetting
    <2> QED BY <1>1, <2>1, ArrivalFacts DEF Counted
<1>3. Agree'
    BY <1>1 DEF Counted, Agree, Settled, Fixing
<1> QED BY <1>1, <1>2, <1>3 DEF Counted, Room, Arrived, Straight, Passed, Fixing, Resetting

LEMMA CopyCounted ==
    ASSUME RingInv, trusted, Copy
    PROVE  Counted'
<1>1. /\ Counted /\ pc = "copy" /\ pc' = "use"
      /\ UNCHANGED <<rp, wp, cicr, irq, halves, unread>>
      /\ left' = IF Data < req THEN Data ELSE req
      /\ req \in Nat
    BY DEF RingInv, TypeInv, TypeOK, Copy, Goto, ring, history
<1>2. Data = unread
    BY <1>1, DataIsUnread DEF Fixing
<1>3. Agree'
    BY <1>1 DEF Counted, Agree, Settled, Fixing
<1>4. Passed'
    BY <1>1, <1>2, LenFacts DEF Counted, Passed
<1> QED BY <1>1, <1>3, <1>4 DEF Counted, Room, Arrived, Straight, Fixing, Resetting

LEMMA CountedNext ==
    ASSUME FIX_HALVES = 0, RingInv, [Next]_vars
    PROVE  trusted' => Counted'
<1> SUFFICES ASSUME trusted' PROVE Counted'
    OBVIOUS
<1>1. CASE HalfComplete
    BY <1>1, HalfCompleteCounted DEF HalfComplete, history
<1>2. CASE AdmaInterrupt
    BY <1>2, AdmaInterruptCounted DEF AdmaInterrupt
<1>3. CASE ZeroWrite \/ ExpireZeroWrite
    BY <1>3, ZeroWriteCounted
<1>4. CASE ZeroRead \/ ExpireZeroRead
    BY <1>4, ZeroReadCounted DEF ZeroRead, ExpireZeroRead, ZeroReadPointer, history
<1>5. CASE FixSkip \/ FixUse
    BY <1>5, FixCounted DEF FixSkip, FixUse, Fix, history
<1>6. CASE ResearchSkip
    BY <1>6, ResearchSkipCounted DEF ResearchSkip
<1>7. CASE \E n \in Steps : SearchMove(n)
    BY <1>7, SearchMoveCounted DEF SearchMove
<1>8. CASE SeekDone \/ StartCdif \/ Copy
    BY <1>8, SeekDoneCounted, StartCdifCounted, CopyCounted
       DEF SeekDone, StartCdif, Copy, history
<1>9. CASE UNCHANGED vars \/ (\E b \in BOOLEAN : SetDevForceStop(b))
    <2>1. UNCHANGED <<rp, wp, pc, cicr, irq, halves, unread, trusted, left>>
        BY <1>9 DEF vars, SetDevForceStop, ring, locals, history
    <2>2. Counted
        BY <2>1 DEF RingInv
    <2> QED BY <2>1, <2>2 DEF Counted, Agree, Settled, Room, Arrived, Pending, Arrivals,
                             Straight, Passed
<1>10. CASE \E r \in Requests, g \in Gaps : Request(r, g)
    BY <1>10, ElsewhereCounted DEF Request, Goto, ring, history, Fixing, Resetting
<1>11. CASE ResearchMiss \/ ResearchStay \/ EnterFar \/ EnterNear \/ EnterStopped
    <2>1. UNCHANGED <<rp, wp, irq, halves, unread, trusted>> /\ (cicr' = cicr \/ cicr' = FALSE)
        BY <1>11 DEF ResearchMiss, ResearchStay, EnterFar, EnterNear, EnterStopped, ring, history
    <2>2. /\ pc \notin {"zeroR", "xzeroR"} \cup Fixing
          /\ pc' \notin Resetting \cup Fixing \cup {"use"}
        BY <1>11 DEF ResearchMiss, ResearchStay, EnterFar, EnterNear, EnterStopped,
            Goto, Fixing, Resetting
    <2> QED BY <2>1, <2>2, ElsewhereCounted
<1>12. CASE FullRestart \/ FullGoOn \/ Tick \/ Expire
    <2>1. UNCHANGED <<rp, wp, irq, halves, unread, trusted>> /\ (cicr' = cicr \/ cicr' = FALSE)
        BY <1>12 DEF FullRestart, FullGoOn, Tick, Expire, ring, history
    <2>2. /\ pc \notin {"zeroR", "xzeroR"} \cup Fixing
          /\ pc' \notin Resetting \cup Fixing \cup {"use"}
        BY <1>12 DEF FullRestart, FullGoOn, Tick, Expire,
            Goto, Fixing, Resetting
    <2> QED BY <2>1, <2>2, ElsewhereCounted
<1>13. CASE SeekDeckError \/ CheckForceStop \/ SearchEnd
    <2>1. UNCHANGED <<rp, wp, irq, halves, unread, trusted>> /\ (cicr' = cicr \/ cicr' = FALSE)
        BY <1>13 DEF SeekDeckError, CheckForceStop, SearchEnd, ring, history
    <2>2. /\ pc \notin {"zeroR", "xzeroR"} \cup Fixing
          /\ pc' \notin Resetting \cup Fixing \cup {"use"}
        BY <1>13 DEF SeekDeckError, CheckForceStop, SearchEnd,
            Leave, Fixing, Resetting
    <2> QED BY <2>1, <2>2, ElsewhereCounted
<1>14. CASE Sample \/ ExpireMiss \/ ExpireOff \/ ClearError \/ SearchRetry
    <2>1. UNCHANGED <<rp, wp, irq, halves, unread, trusted>> /\ (cicr' = cicr \/ cicr' = FALSE)
        BY <1>14 DEF Sample, ExpireMiss, ExpireOff, ClearError, SearchRetry, ring, history
    <2>2. /\ pc \notin {"zeroR", "xzeroR"} \cup Fixing
          /\ pc' \notin Resetting \cup Fixing \cup {"use"}
        BY <1>14 DEF Sample, ExpireMiss, ExpireOff, ClearError, SearchRetry,
            Goto, Fixing, Resetting
    <2> QED BY <2>1, <2>2, ElsewhereCounted
<1> QED BY <1>1, <1>2, <1>3, <1>4, <1>5, <1>6, <1>7, <1>8, <1>9, <1>10, <1>11, <1>12, <1>13, <1>14
        DEF Next, Reader

LEMMA RingInvariant == FIX_HALVES = 0 /\ Spec => []RingInv
<1>1. Init => RingInv
    <2> SUFFICES ASSUME Init PROVE RingInv
        OBVIOUS
    <2>1. Counted
        BY LenFacts DEF Init, Counted, Agree, Settled, Room, Arrived, Straight, Passed, Fixing,
                        Resetting
    <2> QED BY <2>1, TypeInvInit DEF RingInv
<1>2. FIX_HALVES = 0 /\ RingInv /\ [Next]_vars => RingInv'
    <2> SUFFICES ASSUME FIX_HALVES = 0, RingInv, [Next]_vars PROVE RingInv'
        OBVIOUS
    <2>1. TypeInv'
        BY AlignedNext, PlacedNext, TypeOKNext DEF RingInv, TypeInv
    <2> QED BY <2>1, CountedNext DEF RingInv
<1>3. CASE FIX_HALVES = 0
    <2>1. RingInv /\ [Next]_vars => RingInv'
        BY <1>2, <1>3
    <2> QED BY <1>1, <2>1, PTL DEF Spec
<1>4. CASE FIX_HALVES # 0
    BY <1>4
<1> QED BY <1>3, <1>4

\* No sample is overwritten before the reader has passed it, and the reader
\* never passes the write pointer, however the interrupt falls between the
\* thread's accesses -- as long as it is not kept waiting between the two
\* stores of SingleBufferUpdateReadPointer.
THEOREM NeverOverrun == FIX_HALVES = 0 /\ Spec => []NoOverrun
<1>1. RingInv => NoOverrun
    BY DEF RingInv, Counted, NoOverrun
<1> QED BY <1>1, RingInvariant, PTL

\* The number of samples the reader is told is the number captured.
THEOREM CountIsFaithful == FIX_HALVES = 0 /\ Spec => []CountFaithful
<1>1. RingInv => CountFaithful
    BY DataIsUnread DEF CountFaithful
<1> QED BY <1>1, RingInvariant, PTL

\* The room the interrupt is told is the room there is.
THEOREM SpaceIsHonest == FIX_HALVES = 0 /\ Spec => []SpaceHonest
<1>1. ASSUME RingInv, trusted, pc \notin {"zeroR", "xzeroR"}
      PROVE  SingleBufferSpaceAvailable(LEN, rp, wp) = LEN - SPARE - unread
    <2>1. /\ LEN \in Nat /\ SPARE = 4
          /\ rp \in 0 .. 2 * LEN - 1 /\ wp \in 0 .. LEN - 1 /\ (pc \in Fixing <=> rp >= LEN)
          /\ unread \in 0 .. LEN - 1
        BY <1>1, LenFacts DEF RingInv, TypeInv, TypeOK, Placed, Counted
    <2>2. CASE pc \in Fixing
        <3>1. wp = rp - LEN + unread /\ rp >= LEN
            BY <1>1, <2>1, <2>2 DEF RingInv, Counted, Agree, Settled, Fixing
        <3> QED BY <2>1, <3>1 DEF SingleBufferSpaceAvailable
    <2>3. CASE pc \notin Fixing
        <3>1. wp = rp + unread \/ wp = rp + unread - LEN
            BY <1>1, <2>1, <2>3 DEF RingInv, Counted, Agree, Settled
        <3>2. CASE wp = rp + unread
            BY <2>1, <3>2 DEF SingleBufferSpaceAvailable
        <3>3. CASE wp = rp + unread - LEN
            BY <2>1, <3>3 DEF SingleBufferSpaceAvailable
        <3> QED BY <3>1, <3>2, <3>3
    <2> QED BY <2>2, <2>3
<1>2. RingInv => SpaceHonest
    BY <1>1 DEF SpaceHonest
<1> QED BY <1>2, RingInvariant, PTL
-----------------------------------------------------------------------------
(* Sequential reads.  What a full ring excuses is a wait that is long over: *)
(* the interrupt reports the ring full only when every request fits in     *)
(* what it holds, and what was reported before the wait has been compared  *)
(* with the request (FilledUp).                                            *)

Sequential ==
    /\ pc = "full" => have <= unread
    /\ pc \in {"sample", "check"} /\ errStatus = "CD_BUF_FULL" => pickupseek \/ req <= unread
    /\ pc = "copy" => pickupseek \/ req <= unread

\* Between a reset and the end of the wait after it, the pick-up was moved.
Moved == pc \in {"seek", "on", "clear"} => pickupseek

Fitting == req + CHUNK + SPARE <= LEN

SequentialInv == RingInv /\ Fitting /\ Moved /\ (trusted => Sequential)

LEMMA FittingNext == ASSUME RingInv, Fitting, [Next]_vars PROVE Fitting'
<1>1. LEN \in Nat /\ CHUNK \in Nat /\ SPARE = 4 /\ 0 + CHUNK + SPARE <= LEN
    BY LenFacts
<1>2. CASE req' = req
    BY <1>2 DEF Fitting
<1>3. CASE req' = 0
    BY <1>1, <1>3 DEF Fitting
<1>4. ASSUME NEW r \in Requests, NEW g \in Gaps, Request(r, g) PROVE Fitting'
    BY <1>4, FitAssumption DEF Request, Fitting
<1> QED
    BY <1>2, <1>3, <1>4
       DEF Next, Reader, vars, locals, HalfComplete, AdmaInterrupt, SetDevForceStop, ResearchSkip,
           ResearchMiss, ResearchStay, FixSkip, FixUse, Fix, EnterFar, EnterNear, EnterStopped,
           FullRestart, FullGoOn, ZeroWrite, ZeroRead, ZeroWritePointer, ZeroReadPointer, SeekDone,
           SeekDeckError, StartCdif, Sample, CheckForceStop, Tick, Expire, ExpireZeroWrite,
           ExpireZeroRead, ExpireMiss, ExpireOff, ClearError, Copy, SearchRetry, SearchEnd,
           SearchMove, Leave

LEMMA MovedNext == ASSUME Moved, [Next]_vars PROVE Moved'
<1>1. CASE UNCHANGED <<pc, pickupseek>>
    BY <1>1 DEF Moved
<1>2. CASE pc' \notin {"seek", "on", "clear"}
    BY <1>2 DEF Moved
<1>3. CASE ZeroRead \/ SeekDone \/ Sample
    BY <1>3 DEF ZeroRead, SeekDone, Sample, Goto, status, Moved
<1> QED
    BY <1>1, <1>2, <1>3
       DEF Next, Reader, vars, status, HalfComplete, AdmaInterrupt, SetDevForceStop, Request,
           ResearchSkip, ResearchMiss, ResearchStay, FixSkip, FixUse, Fix, EnterFar, EnterNear,
           EnterStopped, FullRestart, FullGoOn, ZeroWrite, ZeroWritePointer, ZeroReadPointer,
           SeekDeckError, StartCdif, CheckForceStop, Tick, Expire, ExpireZeroWrite,
           ExpireZeroRead, ExpireMiss, ExpireOff, ClearError, Copy, SearchRetry, SearchEnd,
           SearchMove, MoveReadPointer, Leave, Goto

\* A ring that is reported full holds what any read waits for.
LEMMA FullIsEnough ==
    ASSUME RingInv, Fitting, trusted, datacd, irq, RingFull,
           pc \notin {"zeroR", "xzeroR"} \cup Fixing
    PROVE  req <= unread + CHUNK
<1>1. /\ LEN \in Nat /\ CHUNK \in Nat /\ CHUNK > 0 /\ SPARE = 4 /\ req \in Nat
      /\ wp + CHUNK <= LEN /\ unread \in 0 .. LEN - 1 /\ unread + CHUNK + SPARE < LEN
    BY LenFacts, NextWriteFacts DEF RingInv, TypeInv, TypeOK, Counted, Room
<1>2. /\ rp \in 0 .. LEN - 1 /\ wp \in 0 .. LEN - 1
      /\ wp = rp + unread \/ wp = rp + unread - LEN
    BY <1>1, DataIsUnread DEF RingInv, Counted, Agree, Settled
<1>3. NextWrite = rp + (unread + CHUNK) \/ NextWrite = rp + (unread + CHUNK) - LEN
    BY <1>1, <1>2 DEF NextWrite
<1>4. SingleBufferSpaceAvailable(LEN, rp, NextWrite) = LEN - (unread + CHUNK) - SPARE
    <2>1. CASE NextWrite = rp + (unread + CHUNK)
        BY <1>1, <1>2, <2>1 DEF SingleBufferSpaceAvailable
    <2>2. CASE NextWrite = rp + (unread + CHUNK) - LEN
        BY <1>1, <1>2, <2>2 DEF SingleBufferSpaceAvailable
    <2> QED BY <1>3, <2>1, <2>2
<1> QED BY <1>1, <1>4 DEF RingFull, Fitting

LEMMA SequentialNext ==
    ASSUME SequentialInv, [Next]_vars, trusted' PROVE Sequential'
<1> USE DEF SequentialInv
<1>0. Moved'
    BY MovedNext
<1>1. CASE pc' \notin {"full", "sample", "check", "copy"}
    BY <1>0, <1>1 DEF Moved, Sequential
<1>2. CASE UNCHANGED <<pc, have, req, errStatus, pickupseek, unread, trusted>>
    BY <1>2 DEF Sequential
<1>3. CASE AdmaInterrupt
    <2>1. /\ trusted /\ datacd /\ irq /\ unread' = unread + CHUNK
          /\ UNCHANGED <<pc, have, req, pickupseek>>
          /\ errStatus' = IF RingFull THEN "CD_BUF_FULL" ELSE errStatus
        BY <1>3 DEF AdmaInterrupt, locals
    <2>2. unread \in Int /\ CHUNK \in Nat /\ req \in Nat /\ have \in Nat
        BY LenFacts DEF RingInv, TypeInv, TypeOK
    <2>3. \A n \in Nat : n <= unread => n <= unread + CHUNK
        BY <2>2
    <2>4. CASE RingFull /\ pc \in {"sample", "check"}
        <3>1. req <= unread'
            BY <2>1, <2>4, FullIsEnough DEF Fixing
        <3> QED BY <2>1, <2>4, <3>1 DEF Sequential
    <2>5. CASE ~(RingFull /\ pc \in {"sample", "check"})
        BY <2>1, <2>2, <2>3, <2>5 DEF Sequential
    <2> QED BY <2>4, <2>5
<1>4. CASE EnterNear
    <2>1. trusted /\ pc = "enter" /\ pc' = "full" /\ have' = Data /\ unread' = unread
        BY <1>4 DEF EnterNear, Goto, history
    <2>2. have' = unread' /\ unread \in Int
        BY <2>1, DataIsUnread DEF Fixing, RingInv, TypeInv, TypeOK
    <2> QED BY <2>1, <2>2 DEF Sequential
<1>5. CASE FullGoOn
    <2>1. /\ trusted /\ pc = "full" /\ pc' = "sample" /\ UNCHANGED <<errStatus, req, unread>>
          /\ have <= unread
          /\ errStatus = "CD_BUF_FULL" => ~(have < req)
        BY <1>5 DEF FullGoOn, FilledUp, Goto, history, locals, Sequential
    <2>2. have \in Nat /\ req \in Nat /\ unread \in Int
        BY DEF RingInv, TypeInv, TypeOK
    <2>3. errStatus' = "CD_BUF_FULL" => req' <= unread'
        BY <2>1, <2>2
    <2> QED BY <2>1, <2>3 DEF Sequential
<1>6. CASE StartCdif
    BY <1>6 DEF StartCdif, Goto, Moved, Sequential
<1>7. CASE Sample
    <2>1. /\ trusted /\ pc = "sample" /\ UNCHANGED <<errStatus, req, unread, pickupseek>>
          /\ pc' = IF Data < req THEN "check" ELSE IF pickupseek THEN "clear" ELSE "copy"
        BY <1>7 DEF Sample, history, status
    <2>2. Data = unread /\ unread \in Int /\ req \in Nat
        BY <2>1, DataIsUnread DEF Fixing, RingInv, TypeInv, TypeOK
    <2>3. CASE Data < req
        BY <2>1, <2>3 DEF Sequential
    <2>4. CASE ~(Data < req)
        BY <2>1, <2>2, <2>4 DEF Sequential
    <2> QED BY <2>3, <2>4
<1>8. CASE Tick
    BY <1>8 DEF Tick, Goto, status, locals, history, Sequential
<1>9. CASE Expire
    BY <1>9 DEF Expire, status, locals, history, Sequential
<1>10. CASE ClearError
    BY <1>10 DEF ClearError, Goto, Moved, Sequential
<1> QED
    BY <1>1, <1>2, <1>3, <1>4, <1>5, <1>6, <1>7, <1>8, <1>9, <1>10
       DEF Next, Reader, vars, status, locals, history, HalfComplete, SetDevForceStop, Request,
           ResearchSkip, ResearchMiss, ResearchStay, FixSkip, FixUse, Fix, EnterFar,
           EnterStopped, FullRestart, ZeroWrite, ZeroRead, ZeroWritePointer, ZeroReadPointer,
           SeekDone, SeekDeckError, CheckForceStop, ExpireZeroWrite, ExpireZeroRead, ExpireMiss,
           ExpireOff, Copy, SearchRetry, SearchEnd, SearchMove, MoveReadPointer, Leave, Goto

\* A read that goes on from the ring as it is copies only samples that were
\* captured: a full ring that was drained since is noticed before the wait.
THEOREM SequentialIsBuffered == FIX_HALVES = 0 /\ Spec => []SequentialBuffered
<1>1. Init => Fitting /\ Moved /\ Sequential
    BY LenFacts DEF Init, Fitting, Moved, Sequential
<1>2. RingInv /\ Fitting /\ Moved /\ (trusted => Sequential) /\ [Next]_vars
         => Fitting' /\ Moved' /\ (trusted' => Sequential')
    BY FittingNext, MovedNext, SequentialNext DEF SequentialInv
<1>3. RingInv /\ Fitting /\ (trusted => Sequential) => SequentialBuffered
    BY DataIsUnread DEF SequentialBuffered, Sequential, Fixing, RingInv, TypeInv, TypeOK
<1> QED BY <1>1, <1>2, <1>3, RingInvariant, PTL DEF Spec

\* CD_Do_StopBuffering starts the CDIF with an error status that is not of the
\* ring before.
StartsNotFull == pc = "on" => errStatus # "CD_BUF_FULL"

Buffered ==
    /\ pc = "full" => have <= unread
    /\ pc \in {"sample", "check"} /\ errStatus = "CD_BUF_FULL" => req <= unread
    /\ pc \in {"clear", "copy"} => req <= unread

LEMMA BufferedNext ==
    ASSUME RingInv, Fitting, StartsNotFull, trusted => Buffered, [Next]_vars, trusted'
    PROVE  Buffered'
<1>a. unread \in Int /\ CHUNK \in Nat /\ req \in Nat /\ have \in Nat
    BY LenFacts DEF RingInv, TypeInv, TypeOK
<1>1. CASE pc' \notin {"full", "sample", "check", "clear", "copy"}
    BY <1>1 DEF Buffered
<1>2. CASE UNCHANGED <<pc, have, req, errStatus, unread, trusted>>
    BY <1>2 DEF Buffered
<1>3. CASE AdmaInterrupt
    <2>1. /\ trusted /\ datacd /\ irq /\ unread' = unread + CHUNK
          /\ UNCHANGED <<pc, have, req>>
          /\ errStatus' = IF RingFull THEN "CD_BUF_FULL" ELSE errStatus
        BY <1>3 DEF AdmaInterrupt, locals
    <2>2. \A n \in Nat : n <= unread => n <= unread + CHUNK
        BY <1>a
    <2>3. CASE RingFull /\ pc \in {"sample", "check"}
        <3>1. req <= unread'
            BY <2>1, <2>3, FullIsEnough DEF Fixing
        <3> QED BY <2>1, <2>3, <3>1 DEF Buffered
    <2>4. CASE ~(RingFull /\ pc \in {"sample", "check"})
        BY <1>a, <2>1, <2>2, <2>4 DEF Buffered
    <2> QED BY <2>3, <2>4
<1>4. CASE EnterNear
    <2>1. trusted /\ pc = "enter" /\ pc' = "full" /\ have' = Data /\ unread' = unread
        BY <1>4 DEF EnterNear, Goto, history
    <2>2. have' = unread'
        BY <2>1, DataIsUnread DEF Fixing
    <2> QED BY <1>a, <2>1, <2>2 DEF Buffered
<1>5. CASE FullGoOn
    <2>1. /\ trusted /\ pc = "full" /\ pc' = "sample" /\ UNCHANGED <<errStatus, req, unread>>
          /\ have <= unread
          /\ errStatus = "CD_BUF_FULL" => ~(have < req)
        BY <1>5 DEF FullGoOn, FilledUp, Goto, history, locals, Buffered
    <2>2. errStatus' = "CD_BUF_FULL" => req' <= unread'
        BY <1>a, <2>1
    <2> QED BY <2>1, <2>2 DEF Buffered
<1>6. CASE StartCdif
    BY <1>6 DEF StartCdif, Goto, StartsNotFull, Buffered
<1>7. CASE Sample
    <2>1. /\ trusted /\ pc = "sample" /\ UNCHANGED <<errStatus, req, unread>>
          /\ pc' \in {"check", "clear", "copy"} /\ (Data < req <=> pc' = "check")
        BY <1>7 DEF Sample, history, status
    <2>2. Data = unread
        BY <2>1, DataIsUnread DEF Fixing
    <2>3. CASE Data < req
        BY <2>1, <2>3 DEF Buffered
    <2>4. CASE ~(Data < req)
        BY <1>a, <2>1, <2>2, <2>4 DEF Buffered
    <2> QED BY <2>3, <2>4
<1>8. CASE Tick \/ Expire \/ ClearError
    BY <1>8 DEF Tick, Expire, ClearError, Goto, status, locals, history, Buffered
<1> QED
    BY <1>1, <1>2, <1>3, <1>4, <1>5, <1>6, <1>7, <1>8
       DEF Next, Reader, vars, status, locals, history, HalfComplete, SetDevForceStop, Request,
           ResearchSkip, ResearchMiss, ResearchStay, FixSkip, FixUse, Fix, EnterFar,
           EnterStopped, FullRestart, ZeroWrite, ZeroRead, ZeroWritePointer, ZeroReadPointer,
           SeekDone, SeekDeckError, CheckForceStop, ExpireZeroWrite, ExpireZeroRead, ExpireMiss,
           ExpireOff, Copy, SearchRetry, SearchEnd, SearchMove, MoveReadPointer, Leave, Goto

\* "wait until datalength bigger than requestSize" (cdif_drv.c:528) is kept by
\* every read, also by one that seeks, if no CD_BUF_FULL is left when the CDIF
\* is started: what run ring_short shows is the only way to break it.
THEOREM FreshStatusIsBuffered ==
    FIX_HALVES = 0 /\ Spec /\ []StartsNotFull => []BufferedEnough
<1>1. Init => Fitting /\ Buffered
    BY LenFacts DEF Init, Fitting, Buffered
<1>2. RingInv /\ StartsNotFull /\ Fitting /\ (trusted => Buffered) /\ [Next]_vars
         => Fitting' /\ (trusted' => Buffered')
    BY FittingNext, BufferedNext
<1>3. RingInv /\ (trusted => Buffered) => BufferedEnough
    BY DataIsUnread DEF BufferedEnough, Buffered, Fixing, RingInv, TypeInv, TypeOK
<1> QED BY <1>1, <1>2, <1>3, RingInvariant, PTL DEF Spec
-----------------------------------------------------------------------------
(* The abstract queue.                                                     *)

\* What the pointers say is the count of samples, also between two stores.
LEMMA LevelIsUnread ==
    /\ RingInv /\ trusted => Level = unread
    /\ RingInv => Level \in Int
<1>1. ASSUME RingInv, trusted PROVE Level = unread
    <2>1. /\ LEN \in Nat /\ rp \in 0 .. 2 * LEN - 1 /\ wp \in 0 .. LEN - 1
          /\ unread \in 0 .. LEN - 1 /\ Agree /\ Placed
        BY <1>1, LenFacts DEF RingInv, Counted, TypeInv, TypeOK
    <2>2. CASE pc \in {"zeroR", "xzeroR"}
        <3>1. pc \notin Fixing  BY <2>2 DEF Fixing
        <3>2. wp = unread  BY <2>1, <2>2, <3>1 DEF Agree
        <3>3. Level = wp  BY <2>2 DEF Level
        <3> QED BY <3>2, <3>3
    <2>3. CASE pc \notin {"zeroR", "xzeroR"} /\ pc \in Fixing
        BY <2>1, <2>3 DEF Agree, Placed, Settled, Level, SingleBufferDataAvailable
    <2>4. CASE pc \notin {"zeroR", "xzeroR"} \cup Fixing
        <3>1. Data = unread  BY <1>1, <2>4, DataIsUnread
        <3>2. Settled = rp  BY <2>1, <2>4 DEF Placed, Settled
        <3> QED BY <2>4, <3>1, <3>2 DEF Level, Data
    <2> QED BY <2>2, <2>3, <2>4
<1>2. ASSUME RingInv PROVE Level \in Int
    BY <1>2, LenFacts DEF RingInv, TypeInv, TypeOK, Level, Settled, SingleBufferDataAvailable
<1> QED BY <1>1, <1>2

LEMMA NextLevel ==
    (/\ RingInv /\ trusted => Level = unread
     /\ RingInv => Level \in Int)'
BY LevelIsUnread, PTL

\* While the count is trusted, an action that leaves the count and the flow
\* alone is none of the queue's.
LEMMA QueueUnmoved ==
    ASSUME Level' = Level, UNCHANGED <<cicr, irq, trusted>>
    PROVE  UNCHANGED Queue!vars
BY Zenon DEF Queue!vars

LEMMA NextQueue ==
    ASSUME RingInv, RingInv', [Next]_vars
    PROVE  [Queue!Next]_(Queue!vars)
<1>. SUFFICES Queue!Next \/ UNCHANGED Queue!vars
    OBVIOUS
<1>a. /\ trusted \in BOOLEAN /\ trusted' \in BOOLEAN
      /\ cicr' \in BOOLEAN /\ irq' \in BOOLEAN
    BY Zenon DEF RingInv, TypeInv, TypeOK
<1>1. CASE ~trusted'
    <2>1. trusted' = FALSE /\ Level' \in Int /\ (cicr \/ irq)' \in BOOLEAN
        BY <1>a, <1>1, NextLevel, Zenon
    <2>2. Queue!Astray  BY <2>1, Zenon DEF Queue!Astray
    <2> QED BY <2>2, Zenon DEF Queue!Next
<1>2. CASE trusted' /\ (ZeroWrite \/ ExpireZeroWrite)
    <2>1. /\ pc' \in {"zeroR", "xzeroR"} /\ wp' = 0 /\ UNCHANGED <<cicr, irq>>
        BY <1>2 DEF ZeroWrite, ExpireZeroWrite, ZeroWritePointer, Goto
    <2>2. Level' = 0  BY <2>1 DEF Level
    <2>3. trusted' = TRUE /\ (cicr \/ irq)' = (cicr \/ irq)  BY <1>a, <1>2, <2>1, Zenon
    <2>4. Queue!Clear  BY <2>2, <2>3, Zenon DEF Queue!Clear
    <2> QED BY <2>4, Zenon DEF Queue!Next
<1>3. CASE trusted' /\ ~(ZeroWrite \/ ExpireZeroWrite)
    <2>a. trusted /\ UNCHANGED trusted
        <3>1. trusted
            BY <1>3, Zenon
               DEF Next, Reader, vars, history, HalfComplete, AdmaInterrupt, SetDevForceStop, Request,
                   ResearchSkip, ResearchMiss, ResearchStay, FixSkip, FixUse, Fix, EnterFar, EnterNear,
                   EnterStopped, FullRestart, FullGoOn, ZeroRead, ZeroReadPointer, SeekDone,
                   SeekDeckError, StartCdif, Sample, CheckForceStop, Tick, Expire, ExpireZeroRead,
                   ExpireMiss, ExpireOff, ClearError, Copy, SearchRetry, SearchEnd, SearchMove
        <3> QED BY <1>a, <1>3, <3>1, Zenon
    <2>b. /\ Level = unread /\ Level' = unread' /\ Counted /\ Counted'
          /\ LEN \in Nat /\ CHUNK \in Nat /\ SPARE \in Nat
          /\ unread \in 0 .. LEN - 1 /\ unread' \in 0 .. LEN - 1
        BY <1>3, <2>a, LevelIsUnread, NextLevel, LenFacts DEF RingInv, Counted
    <2>1. CASE UNCHANGED <<unread, cicr, irq>>
        <3>1. Level' = Level  BY <2>b, <2>1
        <3> QED BY <2>a, <2>1, <3>1, QueueUnmoved
    <2>2. CASE HalfComplete
        <3>1. cicr /\ UNCHANGED <<cicr, unread>>  BY <2>2 DEF HalfComplete, history
        <3>2. Level' = Level  BY <2>b, <3>1
        <3>3. (cicr \/ irq)' = (cicr \/ irq)  BY <3>1, Zenon
        <3> QED BY <2>a, <3>2, <3>3, Zenon DEF Queue!vars
    <2>3. CASE AdmaInterrupt
        <3>1. irq /\ unread' = unread + CHUNK
            BY <1>3, <2>3, <2>a, Zenon DEF AdmaInterrupt
        <3>2. Queue!Room  BY <2>b, <3>1 DEF Queue!Room, Counted, Room
        <3>3. (cicr \/ irq)' => Queue!Room'  BY <2>b DEF Queue!Room, Counted, Room
        <3>4. Level' = Level + CHUNK  BY <2>b, <3>1
        <3>5. (cicr \/ irq)' \in BOOLEAN  BY <1>a, Zenon
        <3>6. Queue!Capture  BY <2>a, <3>1, <3>2, <3>3, <3>4, <3>5, Zenon DEF Queue!Capture
        <3> QED BY <3>6, Zenon DEF Queue!Next
    <2>4. ASSUME NEW n \in Nat, unread' = unread - n, UNCHANGED <<cicr, irq>> PROVE Queue!Next
        <3>1. n \in 0 .. Level /\ Level' = Level - n  BY <2>b, <2>4
        <3>2. (cicr \/ irq)' = (cicr \/ irq)  BY <2>4, Zenon
        <3>3. Queue!Pass  BY <2>a, <3>1, <3>2, Zenon DEF Queue!Pass
        <3> QED BY <3>3, Zenon DEF Queue!Next
    <2>5. CASE ResearchSkip
        <3>1. Skip \in Nat
            <4>1. /\ pc = "research" /\ gap >= 1 /\ gap \in Int /\ Skip + FRAME <= Data
                BY <2>5 DEF ResearchSkip, RingInv, TypeInv, TypeOK
            <4>2. Data = unread  BY <2>a, <4>1, DataIsUnread DEF Fixing
            <4> QED BY <2>b, <4>1, <4>2, SkipFacts
        <3>2. unread' = unread - Skip /\ UNCHANGED <<cicr, irq>>
            BY <2>5, <2>a DEF ResearchSkip
        <3> QED BY <2>4, <3>1, <3>2
    <2>6. ASSUME NEW n \in Steps, SearchMove(n) PROVE Queue!Next
        <3>1. n \in Nat  BY ReadAssumption, LenFacts
        <3>2. trusted /\ n <= left  BY <1>3, <2>6, Zenon DEF SearchMove
        <3>3. unread' = unread - n /\ UNCHANGED <<cicr, irq>>
            BY <2>6, <3>2 DEF SearchMove
        <3> QED BY <2>4, <3>1, <3>3
    <2>7. CASE StartCdif
        <3>1. cicr' /\ UNCHANGED unread  BY <2>7, Zenon DEF StartCdif, history
        <3>2. Level' = Level /\ Queue!Room  BY <2>b, <3>1 DEF Queue!Room, Counted, Room
        <3>3. (cicr \/ irq)' = TRUE  BY <3>1, Zenon
        <3>4. Queue!Start  BY <2>a, <3>2, <3>3, Zenon DEF Queue!Start
        <3> QED BY <3>4, Zenon DEF Queue!Next
    <2>8. CASE EnterFar \/ EnterStopped \/ ExpireOff
        <3>1. ~cicr' /\ UNCHANGED <<irq, unread>>
            BY <2>8 DEF EnterFar, EnterStopped, ExpireOff, history
        <3>2. Level' = Level  BY <2>b, <3>1
        <3>3. CASE irq
            <4>1. (cicr \/ irq)' = (cicr \/ irq)  BY <3>1, <3>3, Zenon
            <4> QED BY <2>a, <3>2, <4>1, Zenon DEF Queue!vars
        <3>4. CASE ~irq
            <4>1. (cicr \/ irq)' = FALSE  BY <3>1, <3>4, Zenon
            <4>2. Queue!Stop  BY <2>a, <3>2, <4>1, Zenon DEF Queue!Stop
            <4> QED BY <4>2, Zenon DEF Queue!Next
        <3> QED BY <3>3, <3>4
    <2> QED
        BY <1>3, <2>1, <2>2, <2>3, <2>5, <2>6, <2>7, <2>8
           DEF Next, Reader, vars, history, SetDevForceStop, Request, ResearchMiss, ResearchStay,
               FixSkip, FixUse, Fix, EnterNear, FullRestart, FullGoOn, ZeroRead, ZeroReadPointer,
               SeekDone, SeekDeckError, Sample, CheckForceStop, Tick, Expire, ExpireZeroRead,
               ExpireMiss, ClearError, Copy, SearchRetry, SearchEnd
<1> QED BY <1>1, <1>2, <1>3

\* The ring implements the bounded count of samples: what the interrupt and the
\* reader do to the pointers in several stores, each of which the other may see,
\* is one step of the count (cdif_adma_handler, SingleBufferUpdateReadPointer,
\* CD_SetBufferPointer).
THEOREM ImplementsQueue == FIX_HALVES = 0 /\ Spec => QueueImplemented
<1>1. Init => Queue!Init
    <2> SUFFICES ASSUME Init PROVE Queue!Init
        OBVIOUS
    <2>1. Level = 0
        <3>1. rp = 0 /\ wp = 0 /\ pc = "idle" /\ LEN \in Nat /\ LEN > 0
            BY LenFacts DEF Init
        <3>2. Settled = 0  BY <3>1 DEF Settled
        <3> QED BY <3>1, <3>2 DEF Level, SingleBufferDataAvailable
    <2>2. (cicr \/ irq) = FALSE /\ trusted = TRUE  BY Zenon DEF Init
    <2> QED BY <2>1, <2>2, Zenon DEF Queue!Init
<1>2. RingInv /\ RingInv' /\ [Next]_vars => [Queue!Next]_(Queue!vars)
    BY NextQueue
<1> QED BY <1>1, <1>2, RingInvariant, PTL DEF Spec, QueueImplemented, Queue!Spec
=============================================================================
