------------------------------ MODULE CdifRing ------------------------------
(***************************************************************************)
(* The sample ring between the CDIF interrupt and the reading thread.      *)
(*                                                                         *)
(* Two processes share sCDDIBuffer, the CD status and the CICR enable bit: *)
(*   - the DMA interrupt (tcc_adma_handler / cdif_adma_handler), which     *)
(*     appends half a DMA buffer, CHUNK samples, and stops the CDIF when   *)
(*     the ring is full;                                                   *)
(*   - the block thread inside CD_ReadSector: it skips ahead, seeks,       *)
(*     waits for samples, copies them and moves the read pointer.          *)
(* There is no lock between them.  The kernel runs on one CPU: the         *)
(* interrupt is atomic to the thread and may run between any two accesses  *)
(* of the thread to shared state, so an action of the thread makes one     *)
(* such access (accesses the interrupt cannot tell apart are merged).      *)
(* The deck daemon sets and clears force stop (CD_SetDevForceStop).        *)
(*                                                                         *)
(* The contents of the samples are left out: what the header search makes  *)
(* of them is a choice of moves in the "use" state.                        *)
(***************************************************************************)
EXTENDS SingleBuffer

CONSTANTS
    CHUNK,       \* samples per half DMA buffer: CDDIDMA_BUFFER_SIZE >> 2
    HALVES,      \* half buffers that fit the ring
    FRAME,       \* CDDA_SAMPLE_SIZE
    FAR,         \* largest sector gap that is read through (20 in the code)
    Requests,    \* sample counts a read waits for
    Gaps,        \* requested sector minus last sector read
    Steps,       \* moves of the read pointer the header search makes
    WORK,        \* bound: moves and retries of one read
    SEEK_HALVES, \* half buffers that can complete during a reset and its seek
    FIX_HALVES,  \* half buffers that can complete while rp is out of range
    EJECTS       \* bound: calls of CD_SetDevForceStop

LEN == HALVES * CHUNK    \* lLength: CDDI_BUFFER_SIZE

ASSUME ChunkAssumption == CHUNK \in Nat \ {0} /\ HALVES \in Nat \ {0}
ASSUME LengthAssumption == LengthAccepted(LEN)
ASSUME FrameAssumption == FRAME \in Nat \ {0} /\ FAR \in Nat
ASSUME ReadAssumption == /\ Requests \subseteq Nat
                         /\ Gaps \subseteq Int
                         /\ Steps \subseteq 0 .. LEN
                         /\ WORK \in Nat
                         /\ EJECTS \in Nat
\* A read waits for 44 frames at most (32 sectors, tdev->buf, and
\* CD_SEEK_TOLERANCE), the ring has room for 3566.
ASSUME FitAssumption == \A r \in Requests : r + CHUNK + SPARE <= LEN
\* A seek ends after 10 s, a ring lasts 47 s: what arrives from the reset of
\* the pointers to the end of the seek leaves room for the next interrupt.
ASSUME SeekAssumption == /\ SEEK_HALVES \in Nat
                         /\ (SEEK_HALVES + 2) * CHUNK + SPARE < LEN
\* 0 when the thread is not kept off the CPU for the 46 ms of a half buffer
\* just between the two stores of SingleBufferUpdateReadPointer.
ASSUME FixAssumption == FIX_HALVES \in Nat

VARIABLES
    rp, wp,      \* lReadPtr, lWritePtr
    bufStatus,   \* gCDBufStatus
    errStatus,   \* gCDErrorStatus
    cicr,        \* the CDIF enable bit of CICR
    irq,         \* the DMA's half-buffer interrupt is pending
    forceStop,   \* CD_DevForceStop
    datacd,      \* datacd_enable
    pickupseek,  \* 1: the pick-up was moved for the current samples
    pc,          \* where the reading thread is
    req, gap,    \* requestSampleSize and wantSectorGap of the current read
    have,        \* haveSampleSize, as last sampled
    left,        \* captured samples among those copied, not yet passed by the search
    work,        \* moves and retries left to the current read
    halves,      \* half buffers completed since the reset or the store began
    ejects,      \* calls of CD_SetDevForceStop so far
    unread,      \* history: samples captured since the reset and not passed
    trusted      \* history: unread has been counted since the reset

ring    == <<rp, wp>>
status  == <<bufStatus, errStatus, pickupseek>>
locals  == <<req, gap, have, left, work>>
device  == <<forceStop, datacd, ejects>>
history == <<unread, trusted>>
vars    == <<ring, status, cicr, irq, device, pc, locals, halves, history>>

Locations == {"idle", "research", "fixSkip", "enter", "full", "zeroW", "zeroR",
              "seek", "on", "sample", "check", "xzeroW", "xzeroR", "miss", "off",
              "clear", "copy", "use", "fixUse"}

\* From the reset of the write pointer to the end of the seek.
Resetting == {"zeroR", "xzeroR", "seek", "on"}
\* The read pointer is stored past the end of the ring.
Fixing == {"fixSkip", "fixUse"}

Data == SingleBufferDataAvailable(LEN, rp, wp)

\* Samples CD_Research_Frame would pass to reach the requested sector.
Skip == (gap - 1) * FRAME
-----------------------------------------------------------------------------
\* cd_drv_initialize, with no read in progress.
Init ==
    /\ rp = 0 /\ wp = 0
    /\ bufStatus = "CD_BUF_STOP" /\ errStatus = "CD_NO_PROBLEM"
    /\ cicr = FALSE /\ irq = FALSE
    /\ forceStop = FALSE /\ datacd = FALSE /\ ejects = 0
    /\ pickupseek = FALSE
    /\ pc = "idle" /\ req = 0 /\ gap = 0 /\ have = 0 /\ left = 0 /\ work = 0
    /\ halves = 0 /\ unread = 0 /\ trusted = TRUE
-----------------------------------------------------------------------------
(* The DMA and its interrupt.                                              *)

\* Half of the DMA buffer is filled.
HalfComplete ==
    /\ cicr /\ ~irq
    /\ pc \in Resetting => halves < SEEK_HALVES
    /\ pc \in Fixing => halves < FIX_HALVES
    /\ irq' = TRUE
    /\ halves' = IF pc \in Resetting \cup Fixing THEN halves + 1 ELSE halves
    /\ UNCHANGED <<ring, status, cicr, device, pc, locals, history>>

\* Mutation: the write pointer is not taken back to 0.
NextWriteUnwrapped == wp + CHUNK

NextWrite == IF wp + CHUNK = LEN THEN 0 ELSE wp + CHUNK

\* Mutation: the ring counts as full only when nothing fits any more.
RingFullLate ==
    /\ SingleBufferSpaceAvailable(LEN, rp, NextWrite) <= 0
    /\ datacd

RingFull ==
    /\ SingleBufferSpaceAvailable(LEN, rp, NextWrite) <= CHUNK
    /\ datacd

\* The half buffer is copied in, the write pointer advanced, and the CDIF
\* stopped if the next one would not fit -- on a data CD only.
AdmaInterrupt ==
    /\ irq
    /\ irq' = FALSE
    /\ wp' = NextWrite
    /\ cicr' = (cicr /\ ~RingFull)
    /\ errStatus' = IF RingFull THEN "CD_BUF_FULL" ELSE errStatus
    /\ trusted' = (trusted /\ datacd)
    /\ unread' = IF trusted /\ datacd THEN unread + CHUNK ELSE 0
    /\ UNCHANGED <<rp, bufStatus, pickupseek, device, pc, locals, halves>>
-----------------------------------------------------------------------------
\* The deck daemon reports an eject (b), or the disc is opened again (~b).
SetDevForceStop(b) ==
    /\ ejects < EJECTS
    /\ ejects' = ejects + 1
    /\ forceStop' = b
    /\ datacd' = ~b
    /\ UNCHANGED <<ring, status, cicr, irq, pc, locals, halves, history>>

\* Mutation: force stop is never seen.
ForceStopUnseen == FALSE

CD_IsDevForceStop == forceStop
-----------------------------------------------------------------------------
(* The reading thread.                                                     *)

Goto(from, to) == pc = from /\ pc' = to

\* The read ends; its locals go.
Leave ==
    /\ pc' = "idle"
    /\ req' = 0 /\ gap' = 0 /\ have' = 0 /\ left' = 0 /\ work' = 0

\* CD_DescrambleSector refuses a read while force stop is set.  No request
\* comes before the disc was opened, which sets datacd_enable.
Request(r, g) ==
    /\ ~CD_IsDevForceStop /\ datacd
    /\ Goto("idle", "research")
    /\ req' = r /\ gap' = g /\ work' = WORK
    /\ UNCHANGED <<ring, status, cicr, irq, device, have, left, halves, history>>

\* SingleBufferUpdateReadPointer: the sum is stored first; past the end of
\* the ring it stays out of range until the thread runs again.
MoveReadPointer(n, next, fix) ==
    /\ rp' = rp + n
    /\ halves' = 0
    /\ pc' = IF rp + n < LEN THEN next ELSE fix

Fix(from, to) ==
    /\ Goto(from, to)
    /\ rp' = Wrap(LEN, rp)
    /\ UNCHANGED <<wp, status, cicr, irq, device, locals, halves, history>>

FixSkip == Fix("fixSkip", "enter")
FixUse  == Fix("fixUse", "use")

\* CD_Research_Frame: the requested sector may be further on in the ring.
\* (secdiff < datalength / CDDA_SAMPLE_SIZE, without the division.)
ResearchSkip ==
    /\ pc = "research" /\ bufStatus = "CD_BUF_START" /\ gap >= 1
    /\ Skip + FRAME <= Data
    /\ MoveReadPointer(Skip, "enter", "fixSkip")
    /\ unread' = IF trusted THEN unread - Skip ELSE 0
    /\ UNCHANGED <<wp, status, cicr, irq, device, locals, trusted>>

ResearchMiss ==
    /\ Goto("research", "enter") /\ bufStatus = "CD_BUF_START" /\ gap >= 1
    /\ Skip + FRAME > Data
    /\ bufStatus' = "CD_BUF_STOP"
    /\ UNCHANGED <<ring, errStatus, pickupseek, cicr, irq, device, locals, halves, history>>

ResearchStay ==
    /\ Goto("research", "enter")
    /\ bufStatus = "CD_BUF_STOP" \/ gap < 1
    /\ UNCHANGED <<ring, status, cicr, irq, device, locals, halves, history>>
-----------------------------------------------------------------------------
(* CD_ReadData: check the buffering status.                                *)

GapIsFar == gap > FAR \/ gap < 0

\* Buffering, and the sector is too far away: stop and seek.
EnterFar ==
    /\ Goto("enter", "zeroW") /\ bufStatus = "CD_BUF_START" /\ GapIsFar
    /\ bufStatus' = "CD_BUF_STOP"
    /\ cicr' = FALSE
    /\ have' = Data
    /\ UNCHANGED <<ring, errStatus, pickupseek, irq, device, req, gap, left, work, halves, history>>

\* Buffering, and the sector is near: count the samples.
EnterNear ==
    /\ Goto("enter", "full") /\ bufStatus = "CD_BUF_START" /\ ~GapIsFar
    /\ have' = Data
    /\ UNCHANGED <<ring, status, cicr, irq, device, req, gap, left, work, halves, history>>

EnterStopped ==
    /\ Goto("enter", "zeroW") /\ bufStatus = "CD_BUF_STOP"
    /\ cicr' = FALSE
    /\ UNCHANGED <<ring, status, irq, device, locals, halves, history>>

\* Mutation: a full ring is not noticed.
FilledUpUnseen == FALSE

FilledUp == errStatus = "CD_BUF_FULL" /\ have < req

\* The ring was full and is now too short: buffering has ended, seek again.
\* The CDIF is not stopped here: the interrupt has done it.
FullRestart ==
    /\ Goto("full", "zeroW") /\ FilledUp
    /\ bufStatus' = "CD_BUF_STOP"
    /\ errStatus' = "CD_NO_PROBLEM"
    /\ UNCHANGED <<ring, pickupseek, cicr, irq, device, locals, halves, history>>

\* Into CD_Do_StartBuffering.
FullGoOn ==
    /\ Goto("full", "sample") /\ ~FilledUp
    /\ pickupseek' = FALSE
    /\ UNCHANGED <<ring, bufStatus, errStatus, cicr, irq, device, locals, halves, history>>
-----------------------------------------------------------------------------
(* CD_Do_StopBuffering: empty the ring, move the pick-up, start the CDIF.  *)

ZeroWritePointer(from, to) ==
    /\ Goto(from, to)
    /\ wp' = 0
    /\ halves' = 0 /\ unread' = 0 /\ trusted' = TRUE
    /\ UNCHANGED <<rp, status, cicr, irq, device, locals>>

\* Mutation: only the write pointer is reset.
ZeroReadPointerForgotten(from, to) ==
    /\ Goto(from, to)
    /\ UNCHANGED <<rp, wp, bufStatus, errStatus, cicr, irq, device, locals, halves, history>>

ZeroReadPointer(from, to) ==
    /\ Goto(from, to)
    /\ rp' = 0
    /\ UNCHANGED <<wp, bufStatus, errStatus, cicr, irq, device, locals, halves, history>>

ZeroWrite == ZeroWritePointer("zeroW", "zeroR")
ZeroRead  == ZeroReadPointer("zeroR", "seek") /\ pickupseek' = TRUE

\* CD_Send_msf answers 1 or SEEK_TIME_OUT: only DECK_ERROR is looked at.
SeekDone ==
    /\ Goto("seek", "on")
    /\ UNCHANGED <<ring, status, cicr, irq, device, locals, halves, history>>

SeekDeckError ==
    /\ pc = "seek" /\ Leave
    /\ UNCHANGED <<ring, status, cicr, irq, device, halves, history>>

\* Mutation: the CDIF stays stopped after the seek.
StartCdifForgotten ==
    /\ Goto("on", "sample")
    /\ bufStatus' = "CD_BUF_START"
    /\ UNCHANGED <<ring, errStatus, pickupseek, cicr, irq, device, locals, halves, history>>

StartCdif ==
    /\ Goto("on", "sample")
    /\ bufStatus' = "CD_BUF_START"
    /\ cicr' = TRUE
    /\ UNCHANGED <<ring, errStatus, pickupseek, irq, device, locals, halves, history>>
-----------------------------------------------------------------------------
(* The waiting loops of CD_Do_StartBuffering (~pickupseek) and             *)
(* CD_Do_StopBuffering (pickupseek).                                       *)

Sample ==
    /\ pc = "sample"
    /\ have' = Data
    /\ pc' = IF Data < req THEN "check"
             ELSE IF pickupseek THEN "clear" ELSE "copy"
    /\ UNCHANGED <<ring, status, cicr, irq, device, req, gap, left, work, halves, history>>

CheckForceStop ==
    /\ pc = "check" /\ CD_IsDevForceStop /\ Leave
    /\ UNCHANGED <<ring, status, cicr, irq, device, halves, history>>

Tick ==
    /\ Goto("check", "sample") /\ ~CD_IsDevForceStop
    /\ UNCHANGED <<ring, status, cicr, irq, device, locals, halves, history>>

\* iWaitTimer is used up: with a full ring the read goes on with what there
\* is, otherwise everything is stopped and CD_ReadData tries again.
Expire ==
    /\ pc = "check" /\ ~CD_IsDevForceStop
    /\ pc' = IF errStatus = "CD_BUF_FULL" THEN "copy"
             ELSE IF pickupseek THEN "miss" ELSE "xzeroW"
    /\ UNCHANGED <<ring, status, cicr, irq, device, locals, halves, history>>

ExpireZeroWrite == ZeroWritePointer("xzeroW", "xzeroR")
ExpireZeroRead  == ZeroReadPointer("xzeroR", "miss") /\ UNCHANGED pickupseek

ExpireMiss ==
    /\ Goto("miss", "off")
    /\ errStatus' = "CD_MISS_SUBQ"
    /\ bufStatus' = "CD_BUF_STOP"
    /\ UNCHANGED <<ring, pickupseek, cicr, irq, device, locals, halves, history>>

\* BUFFERING_TIME_OUT: CD_ReadData goes back to TRY_READ, stopped.
ExpireOff ==
    /\ Goto("off", "zeroW")
    /\ cicr' = FALSE
    /\ UNCHANGED <<ring, status, irq, device, locals, halves, history>>

ClearError ==
    /\ Goto("clear", "copy")
    /\ errStatus' = "CD_NO_PROBLEM"
    /\ UNCHANGED <<ring, bufStatus, pickupseek, cicr, irq, device, locals, halves, history>>
-----------------------------------------------------------------------------
(* CD_CopyReadData and the header search of CD_DescrambleSector.           *)

\* req samples are copied, captured or not.
Copy ==
    /\ Goto("copy", "use")
    /\ left' = IF Data < req THEN Data ELSE req
    /\ UNCHANGED <<ring, status, cicr, irq, device, req, gap, have, work, halves, history>>

\* The search moves the read pointer over what it has looked at.  A move past
\* the samples the read waited for is not stopped by anything.
SearchMove(n) ==
    /\ pc = "use" /\ work > 0
    /\ work' = work - 1
    /\ MoveReadPointer(n, "use", "fixUse")
    /\ trusted' = (trusted /\ n <= left)
    /\ unread' = IF trusted /\ n <= left THEN unread - n ELSE 0
    /\ left' = IF n <= left THEN left - n ELSE 0
    /\ UNCHANGED <<wp, status, cicr, irq, device, req, gap, have>>

\* The sector was not found or not decoded: seek again.
SearchRetry ==
    /\ Goto("use", "enter") /\ work > 0
    /\ work' = work - 1
    /\ bufStatus' = "CD_BUF_STOP"
    /\ UNCHANGED <<ring, errStatus, pickupseek, cicr, irq, device, req, gap, have, left, halves, history>>

\* The read ends, with its data or an error.  The status is left stopped by
\* the last KMP failure and by a C3 error that is ignored.
SearchEnd ==
    /\ pc = "use" /\ Leave
    /\ bufStatus' \in {bufStatus, "CD_BUF_STOP"}
    /\ UNCHANGED <<ring, errStatus, pickupseek, cicr, irq, device, halves, history>>
-----------------------------------------------------------------------------
Reader ==
    \/ ResearchSkip \/ ResearchMiss \/ ResearchStay \/ FixSkip
    \/ EnterFar \/ EnterNear \/ EnterStopped \/ FullRestart \/ FullGoOn
    \/ ZeroWrite \/ ZeroRead \/ SeekDone \/ SeekDeckError \/ StartCdif
    \/ Sample \/ CheckForceStop \/ Tick \/ Expire
    \/ ExpireZeroWrite \/ ExpireZeroRead \/ ExpireMiss \/ ExpireOff
    \/ ClearError \/ Copy \/ SearchRetry \/ SearchEnd \/ FixUse
    \/ \E n \in Steps : SearchMove(n)

Next ==
    \/ HalfComplete
    \/ AdmaInterrupt
    \/ \E b \in BOOLEAN : SetDevForceStop(b)
    \/ \E r \in Requests, g \in Gaps : Request(r, g)
    \/ Reader

Spec == Init /\ [][Next]_vars

\* The thread is scheduled, a pending interrupt is served, and the wait
\* cannot go round for ever: iWaitTimer counts down.
Fairness ==
    /\ WF_vars(Reader)
    /\ WF_vars(AdmaInterrupt)
    /\ SF_vars(Expire)

FairSpec == Spec /\ Fairness
-----------------------------------------------------------------------------
TypeOK ==
    /\ rp \in 0 .. 2 * LEN - 1
    /\ wp \in 0 .. LEN - 1
    /\ bufStatus \in {"CD_BUF_START", "CD_BUF_STOP"}
    /\ errStatus \in {"CD_NO_PROBLEM", "CD_BUF_FULL", "CD_MISS_SUBQ"}
    /\ cicr \in BOOLEAN /\ irq \in BOOLEAN
    /\ forceStop \in BOOLEAN /\ datacd \in BOOLEAN /\ pickupseek \in BOOLEAN
    /\ pc \in Locations
    /\ req \in Nat /\ gap \in Int /\ have \in Nat /\ left \in Nat
    /\ work \in 0 .. WORK
    /\ halves \in Nat
    /\ ejects \in 0 .. EJECTS
    /\ unread \in Int
    /\ trusted \in BOOLEAN

(***************************************************************************)
(* Properties.  They are about a ring whose history is known: since the    *)
(* last reset the full check was on at every interrupt (a data CD, not     *)
(* ejected), and the search kept to the samples it had waited for.         *)
(***************************************************************************)

\* The interrupt never overwrites a sample the reader has not passed and never
\* fills the ring so far that it looks empty, and the reader never passes the
\* write pointer -- although the pointers are reset one after the other, the
\* read pointer is out of range between two stores, and an interrupt may be
\* pending when the CDIF is stopped (cdif_adma_handler's full check).
NoOverrun == trusted => unread \in 0 .. LEN - 1

\* Except between the two stores of a reset, SingleBufferSpaceAvailable, which
\* decides whether the CDIF goes on, answers "the number of samples that can
\* be added" (SingleBuffer.c:109), even with the read pointer out of range.
SpaceHonest ==
    trusted /\ pc \notin {"zeroR", "xzeroR"} =>
        SingleBufferSpaceAvailable(LEN, rp, wp) = LEN - SPARE - unread

\* Whenever the thread is not in the middle of updating a pointer, what
\* SingleBufferDataAvailable answers is what was captured since the last
\* reset and not passed yet.
CountFaithful ==
    trusted /\ pc \notin {"zeroR", "xzeroR"} \cup Fixing => Data = unread

\* What the pointers say that is in the ring: between the stores of a reset the
\* write pointer alone says it, between those of a move the read pointer is
\* taken as it will be once it is corrected.
Settled == IF rp >= LEN THEN rp - LEN ELSE rp

Level ==
    IF pc \in {"zeroR", "xzeroR"} THEN wp ELSE SingleBufferDataAvailable(LEN, Settled, wp)

Queue == INSTANCE SampleQueue
    WITH LENGTH <- LEN, HALF <- CHUNK, KEPT <- SPARE,
         level <- Level, flowing <- cicr \/ irq, known <- trusted

\* The pointers implement a bounded count: a reset in two stores and a move in
\* two stores are one step of it each, with interrupts in between, and no half
\* buffer comes to a ring that has no room for it.
QueueImplemented == Queue!Spec

\* "wait until datalength bigger than requestSize" (cdif_drv.c:456, 528): a
\* read copies samples only when those it asked for are in the ring.
BufferedEnough == pc = "copy" /\ trusted => Data >= req

\* The same for a read that goes on from the ring as it is, without moving the
\* pick-up: a full ring that was drained since is noticed before the wait
\* (CD_Set_StartBuffing), so the timeout that a full ring excuses
\* (CD_Do_StartBuffering) never hands on too little.
SequentialBuffered == pc = "copy" /\ trusted /\ ~pickupseek => Data >= req

\* The deck fills half buffers as long as the CDIF is on and, from some time
\* on, in time: iWaitTimer is used up only while the CDIF is off.
SteadyDeck ==
    /\ WF_vars(HalfComplete)
    /\ <>[][Expire => ~cicr]_vars

\* With a steady deck every read ends, whatever seeks, stale data and timeouts
\* it goes through: no interrupt, wherever it falls, leaves the CDIF off and the
\* read waiting (CD_Do_StartBuffering, CD_Do_StopBuffering).
ReadReturns == SteadyDeck => []<>(pc = "idle")

\* Once the disc is ejected for good, the read in progress ends and no other
\* starts, even when the deck delivers nothing any more.
ForceStopEndsRead == <>[]forceStop => <>[](pc = "idle")
=============================================================================
