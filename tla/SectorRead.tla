----------------------------- MODULE SectorRead -----------------------------
(***************************************************************************)
(* CD_ReadSector: finding a sector in what the deck delivers.              *)
(*                                                                         *)
(* The deck is sent BACK frames before the sector, lands near there, may   *)
(* first deliver frames from where it was before, and then delivers frame  *)
(* after frame.  A read waits for some frames, copies them into the chunk  *)
(* buffer, and looks there for the header of its sector: it steps over     *)
(* frames, jumps, decodes, or seeks again, under three retry counters.     *)
(* Every step in the chunk buffer is also made by the read pointer of the  *)
(* ring, so that the next read finds the ring at the next sector.          *)
(*                                                                         *)
(* One cell stands for one frame of 588 samples.  The ring itself, its     *)
(* interrupt and its waiting loops are in CdifRing, the seek in            *)
(* SeekChannel; here the deck delivers and answers in time.                *)
(***************************************************************************)
EXTENDS Integers, Sequences, MsfCodec

CONSTANTS
    Starts,       \* startAddr of the reads
    Sizes,        \* sectorSize of the reads
    BACK,         \* CD_SEEK_POSITION
    MARGIN,       \* CD_SEEK_TOLERANCE
    FAR,          \* largest gap that is read through
    SKIPS,        \* PREVIOUS_DATA_SKIP_COUNT
    FRAME_RETRY,  \* CD_RETRY_CNT
    C3_RETRY,     \* CD_C3_CNT
    KMP_RETRY,    \* CD_KMP_RETRY_CNT
    RING,         \* frames the ring holds when the CDIF is stopped
    Landings,     \* where the deck lands, from where it was sent
    Previous,     \* how many frames it still delivers from where it was
    Misreads,     \* the wrong addresses a damaged header may read as
    Laps,         \* frames an earlier lap of the ring may have left in it
    END,          \* the last frame of the disc
    SWITCHES,     \* bound: changes of quality and damaged headers between two seeks
    STOPS,        \* bound: force stops
    AHEAD         \* bound: frames the read pointer is past the write pointer at a request

ASSUME SizeAssumption == Starts \subseteq 0 .. END /\ Sizes \subseteq Nat \ {0}
ASSUME RetryAssumption ==
    /\ {BACK, MARGIN, FAR, SKIPS, FRAME_RETRY, END, SWITCHES, STOPS, AHEAD} \subseteq Nat
    /\ {C3_RETRY, KMP_RETRY} \subseteq Nat \ {0}
\* No read asks for more frames than the ring holds.
ASSUME RingAssumption == RING \in Nat /\ \A n \in Sizes : n + MARGIN <= RING
\* An address in a header goes up to 99:59:74.
ASSUME DiscAssumption == END < 450000
ASSUME DeckAssumption ==
    /\ Landings \subseteq Int /\ Previous \subseteq Nat
    /\ Misreads \subseteq 0 .. END /\ Laps \subseteq Nat

VARIABLES
    pc,           \* where the read is
    bufStatus,    \* gCDBufStatus
    full,         \* gCDErrorStatus = CD_BUF_FULL
    cdif,         \* the CDIF is on
    lastSector,   \* gLastSector
    pickupseek,   \* 1: the samples follow a seek of this read
    research_cnt, \* headers looked at since the seek, up to SKIPS + 1
    ring,         \* the captured frames from the read pointer on
    under,        \* frames the read pointer is past the write pointer
    chunk,        \* the chunk buffer
    at,           \* cells of the chunk buffer that were passed
    start, size,  \* the read: startAddr, sectorSize
    used,         \* usedSectNum: sectors already decoded
    kmpcnt, kmp_retry, c3_retry, frame_retry,
    out,          \* the decoded sectors, where the chunk buffer starts
    result,       \* what the last read returned
    given,        \* the sectors copied to the caller
    next, prev,   \* deck: the next frame, and previous frames still to come
    old,          \* deck: the next previous frame
    quality,      \* deck: how the frames come through
    switches,     \* deck: changes of quality and damaged headers since the seek
    stops,        \* force stops so far
    spoiled,      \* history: since the last seek the deck mixed in previous frames, or
                  \* a sector was taken that was not among the copied frames, or that a
                  \* damaged header gave for another
    copied,       \* history: cells of the chunk buffer with frames of the last copy
    seeks         \* history: seeks of the current read

status  == <<bufStatus, full, cdif>>
memory  == <<lastSector, pickupseek, research_cnt>>
buffers == <<ring, under, chunk, at, copied>>
request == <<start, size>>
retries == <<kmpcnt, kmp_retry, c3_retry, frame_retry>>
reply   == <<result, given>>
deck    == <<next, prev, old, quality, switches, spoiled>>
vars    == <<pc, status, memory, buffers, request, used, retries, out, reply, deck, stops, seeks>>

\* A frame is [n |-> its address, says |-> the address in its header,
\* ok |-> C3_decoder can decode it], or has no header that could be found.  The
\* header is read before C3_decoder corrects anything: it may say another frame.
NOISE == [n |-> -1, says |-> -1, ok |-> FALSE]
Qualities == {"clean", "noise", "bad"}
Cell(n, says, q) ==
    IF q = "noise" \/ n > END THEN NOISE ELSE [n |-> n, says |-> says, ok |-> q = "clean"]

\* What lies in k frames of the ring that were not written since the last seek.
OldSamples(k) == {[i \in 1 .. k |-> Cell(b + i - 1, b + i - 1, q)] : b \in Laps, q \in Qualities}

Smaller(a, b) == IF a < b THEN a ELSE b
Drop(s, k) == SubSeq(s, k + 1, Len(s))

\* The address the driver reads in a header that says n (lines 887-896), for all
\* frames of the disc.
FrameOfHeader == [n \in 0 .. END |-> HeaderFrame(DiscHeader(n))]

\* The sector looked for, where the deck is sent for it, and what is waited for.
\* Mutation: the sectors already decoded are not counted.
WantedFirst == start

Wanted == start + used
GoMSF  == Wanted - BACK
RequestSize == size - used + MARGIN

\* Past the write pointer SingleBufferDataAvailable counts nearly a whole ring.
Has(k) == under > 0 \/ Len(ring) >= k
-----------------------------------------------------------------------------
Init ==
    /\ pc = "idle" /\ bufStatus = "CD_BUF_STOP" /\ full = FALSE /\ cdif = FALSE
    /\ lastSector = 0 /\ pickupseek = FALSE /\ research_cnt = 0
    /\ ring = <<>> /\ under = 0 /\ chunk = <<>> /\ at = 0
    /\ start = 0 /\ size = 0 /\ used = 0
    /\ kmpcnt = 0 /\ kmp_retry = 0 /\ c3_retry = 0 /\ frame_retry = 0
    /\ out = <<>> /\ result = "none" /\ given = <<>>
    /\ next = 0 /\ prev = 0 /\ old = 0 /\ quality = "clean" /\ switches = 0
    /\ stops = 0 /\ copied = 0 /\ seeks = 0 /\ spoiled = FALSE
-----------------------------------------------------------------------------
(* The deck and the interrupt: one more frame is in the ring.              *)

\* The interrupt stops the CDIF when the ring is full.  Past the write pointer
\* the space it sees ends at the read pointer: when that is near, the ring looks
\* full although nothing in it was captured.
Capture(cell) ==
    \/ /\ under = 0 /\ UNCHANGED under
       /\ ring' = Append(ring, cell)
       /\ cdif' = (Len(ring') < RING)
       /\ full' = (full \/ Len(ring') >= RING)
    \/ /\ under > 0 /\ under' = under - 1 /\ UNCHANGED ring
       /\ \/ UNCHANGED <<full, cdif>>
          \/ under' > 0 /\ full' = TRUE /\ cdif' = FALSE

Arrive ==
    /\ cdif
    /\ LET frame == IF prev > 0 THEN old ELSE next
       IN  \E q \in Qualities, says \in {frame} \cup Misreads :
              /\ Capture(Cell(frame, says, q))
              /\ quality' = q
              /\ switches' = switches + (IF q = quality THEN 0 ELSE 1)
                                       + (IF says = frame THEN 0 ELSE 1)
              /\ switches' <= SWITCHES
    /\ IF prev > 0
       THEN prev' = prev - 1 /\ old' = (IF prev > 1 THEN old + 1 ELSE 0) /\ UNCHANGED next
       ELSE next' = Smaller(next, END) + 1 /\ UNCHANGED <<prev, old>>
    /\ UNCHANGED <<spoiled, pc, bufStatus, memory, chunk, at, copied, request, used, retries, out, reply, stops, seeks>>
-----------------------------------------------------------------------------
(* CD_DescrambleSector, up to TRY_READ.                                    *)

Request(a, n) ==
    /\ pc = "idle" /\ pc' = "research"
    /\ under <= AHEAD
    /\ start' = a /\ size' = n /\ used' = 0
    /\ kmp_retry' = KMP_RETRY /\ c3_retry' = C3_RETRY /\ frame_retry' = FRAME_RETRY
    /\ out' = <<>> /\ result' = "none" /\ given' = <<>> /\ seeks' = 0
    /\ UNCHANGED <<status, memory, buffers, kmpcnt, deck, stops>>

\* SingleBufferUpdateReadPointer, by k frames.
\* Mutation: a jump falls one frame short in the ring.
PassInRingShort(k) ==
    LET j == IF k > 1 THEN k - 1 ELSE k
    IN  /\ ring' = Drop(ring, Smaller(j, Len(ring)))
        /\ under' = under + (j - Smaller(j, Len(ring)))

PassInRing(k) ==
    /\ ring' = Drop(ring, Smaller(k, Len(ring)))
    /\ under' = under + (k - Smaller(k, Len(ring)))

\* CD_Research_Frame: the read pointer is taken to be just behind lastSector.
SectorDiff == start - lastSector - 1

Research ==
    /\ pc = "research" /\ pc' = "enter"
    /\ IF bufStatus = "CD_BUF_START" /\ SectorDiff >= 0
       THEN IF Has(SectorDiff + 1)
            THEN PassInRing(SectorDiff) /\ UNCHANGED bufStatus
            ELSE bufStatus' = "CD_BUF_STOP" /\ UNCHANGED <<ring, under>>
       ELSE UNCHANGED <<bufStatus, ring, under>>
    /\ UNCHANGED <<full, cdif, memory, chunk, at, copied, request, used, retries, out, reply,
                   deck, stops, seeks>>

(* CD_ReadData.                                                            *)

GapIsFar == start - lastSector > FAR \/ start < lastSector

\* Mutation: the end of buffering at a full ring is not noticed.
EnterNearFull ==
    /\ pc = "enter" /\ bufStatus = "CD_BUF_START" /\ ~GapIsFar
    /\ pc' = "wait"
    /\ pickupseek' = FALSE
    /\ UNCHANGED <<status, lastSector, research_cnt, buffers, request, used, retries, out,
                   reply, deck, stops, seeks>>

\* Buffering goes on (pickupseek = 0) ...
EnterNear ==
    /\ pc = "enter" /\ bufStatus = "CD_BUF_START" /\ ~GapIsFar
    /\ ~full \/ Has(RequestSize)
    /\ pc' = "wait"
    /\ pickupseek' = FALSE
    /\ UNCHANGED <<status, lastSector, research_cnt, buffers, request, used, retries, out,
                   reply, deck, stops, seeks>>

\* ... or is over, because the sector is far, the ring was full and is now too
\* short, or it had been stopped.
EnterSeek ==
    /\ pc = "enter" /\ pc' = "seek"
    /\ \/ bufStatus = "CD_BUF_START" /\ GapIsFar /\ cdif' = FALSE /\ UNCHANGED full
       \/ /\ bufStatus = "CD_BUF_START" /\ ~GapIsFar /\ full /\ ~Has(RequestSize)
          /\ full' = FALSE /\ UNCHANGED cdif
       \/ bufStatus = "CD_BUF_STOP" /\ cdif' = FALSE /\ UNCHANGED full
    /\ bufStatus' = "CD_BUF_STOP"
    /\ UNCHANGED <<memory, buffers, request, used, retries, out, reply, deck, stops, seeks>>

\* The ring is emptied and the pick-up sent BACK frames before the sector.
Seek ==
    /\ pc = "seek" /\ pc' = "wait"
    /\ ring' = <<>> /\ under' = 0
    /\ pickupseek' = TRUE /\ research_cnt' = 0
    /\ seeks' = seeks + 1
    /\ \E d \in Landings, p \in Previous :
          /\ GoMSF + d >= 0
          /\ next' = GoMSF + d
          /\ prev' = p /\ spoiled' = (p > 0)
          /\ old' = IF p > 0 THEN next ELSE 0
    /\ switches' = 0
    /\ bufStatus' = "CD_BUF_START" /\ cdif' = TRUE
    /\ UNCHANGED <<full, lastSector, chunk, at, copied, request, used, retries, out, reply, quality, stops>>

\* The first copy of a read replaces the first cells of the chunk buffer: they
\* need not be remembered from one read to the next.
Remembered(cells) ==
    [i \in DOMAIN cells |-> IF \A n \in Sizes : i <= n + MARGIN THEN NOISE ELSE cells[i]]

\* The read returns.
Return(res, handed, cells) ==
    /\ pc' = "idle"
    /\ result' = res
    /\ given' = handed
    /\ chunk' = Remembered(cells) /\ at' = 0 /\ copied' = 0 /\ seeks' = 0
    /\ kmpcnt' = 0 /\ kmp_retry' = 0 /\ c3_retry' = 0 /\ frame_retry' = 0

\* The seek fails (DECK_ERROR): bufStatus stays stopped.
SeekFails ==
    /\ pc = "seek" /\ Return("error", <<>>, chunk)
    /\ ring' = <<>> /\ under' = 0
    /\ pickupseek' = TRUE /\ research_cnt' = 0
    /\ UNCHANGED <<status, lastSector, request, used, out, deck, stops>>

\* Enough frames seem to be there: CD_CopyReadData copies those asked for over
\* the start of the chunk buffer.  From the write pointer on it copies what an
\* earlier lap left; what follows in the chunk buffer is from earlier reads.
Copy ==
    /\ pc = "wait" /\ pc' = "search"
    /\ Has(RequestSize)
    /\ copied' = Smaller(RequestSize, Len(ring))
    /\ \E older \in OldSamples(RequestSize - copied') :
          chunk' = SubSeq(ring, 1, copied') \o older
                       \o Drop(chunk, Smaller(RequestSize, Len(chunk)))
    /\ at' = 0
    /\ kmpcnt' = KMP_RETRY
    /\ full' = (full /\ ~pickupseek)
    /\ UNCHANGED <<bufStatus, cdif, memory, ring, under, request, used, kmp_retry, c3_retry,
                   frame_retry, out, reply, deck, stops, seeks>>

\* Nothing comes any more: the CDIF was stopped by a full ring, but the end of
\* an earlier wait has replaced CD_BUF_FULL by CD_NO_PROBLEM.  The ring is
\* emptied and the pick-up sent again.
WaitExpires ==
    /\ pc = "wait" /\ ~Has(RequestSize) /\ ~cdif /\ ~full
    /\ pc' = "seek"
    /\ ring' = <<>>
    /\ bufStatus' = "CD_BUF_STOP"
    /\ UNCHANGED <<full, cdif, memory, under, chunk, at, copied, request, used, retries, out,
                   reply, deck, stops, seeks>>

\* What CD_KmpPatternSearch finds at psCDBuff, and after the whole buffer.
Found  == IF at < Len(chunk) THEN chunk[at + 1] ELSE NOISE
Header == pc = "search" /\ Found # NOISE
Frame  == FrameOfHeader[Found.says]

\* Force stop, seen while waiting or after a header was found.
ForceStop ==
    /\ pc = "wait" \/ Header
    /\ stops < STOPS /\ stops' = stops + 1
    /\ Return("error", <<>>, chunk)
    /\ UNCHANGED <<status, memory, ring, under, request, used, out, deck>>
-----------------------------------------------------------------------------
(* SEARCH_LBN.                                                             *)

\* psCDBuff and the read pointer go over k frames together.
Pass(k) == at' = at + k /\ PassInRing(k)

\* Descramble_Sector works in the chunk buffer: the frame cannot be read twice.
Descrambled == [chunk EXCEPT ![at + 1] = NOISE]

Counted == Smaller(research_cnt + 1, SKIPS + 1)

\* Mutation: the misses are not limited.
KmpMissAlways ==
    /\ pc = "search" /\ Found = NOISE
    /\ Pass(1)
    /\ kmpcnt' = kmpcnt - 1
    /\ UNCHANGED <<pc, status, memory, chunk, copied, request, used, kmp_retry, c3_retry,
                   frame_retry, out, reply, deck, stops, seeks>>

\* No header within a sector: look one further on.
KmpMiss ==
    /\ pc = "search" /\ Found = NOISE /\ kmpcnt > 0
    /\ Pass(1)
    /\ kmpcnt' = kmpcnt - 1
    /\ UNCHANGED <<pc, status, memory, chunk, copied, request, used, kmp_retry, c3_retry, frame_retry,
                   out, reply, deck, stops, seeks>>

KmpFail ==
    /\ pc = "search" /\ Found = NOISE /\ kmpcnt = 0
    /\ bufStatus' = "CD_BUF_STOP"
    /\ IF kmp_retry > 1
       THEN /\ pc' = "enter"
            /\ kmp_retry' = kmp_retry - 1
            /\ UNCHANGED <<reply, chunk, at, copied, kmpcnt, c3_retry, frame_retry, seeks>>
       ELSE Return("error", <<>>, chunk)
    /\ UNCHANGED <<full, cdif, memory, ring, under, request, used, out, deck, stops>>

\* Mutation: buffering is not stopped, the retry reads on.
C3FailReadsOn ==
    /\ Header /\ Frame = Wanted /\ ~Found.ok /\ c3_retry > 1
    /\ pc' = "enter"
    /\ c3_retry' = c3_retry - 1
    /\ research_cnt' = Counted
    /\ chunk' = Descrambled
    /\ UNCHANGED <<status, lastSector, pickupseek, ring, under, at, copied, request, used, kmpcnt,
                   kmp_retry, frame_retry, out, reply, deck, stops, seeks>>

\* The sector is found but cannot be decoded: seek again while c3_retry allows.
C3Fail ==
    /\ Header /\ Frame = Wanted /\ ~Found.ok /\ c3_retry > 1
    /\ pc' = "enter"
    /\ bufStatus' = "CD_BUF_STOP"
    /\ c3_retry' = c3_retry - 1
    /\ research_cnt' = Counted
    /\ chunk' = Descrambled
    /\ UNCHANGED <<full, cdif, lastSector, pickupseek, ring, under, at, copied, request, used, kmpcnt,
                   kmp_retry, frame_retry, out, reply, deck, stops, seeks>>

\* CD_ReadSector copies as many bytes as CD_DescrambleSector returns: the
\* SECTOR_SIZE bytes of one sector.
Delivered(sectors) == SubSeq(sectors, 1, 1)

\* The sector is decoded -- or it is not, and the error is ignored.
Take ==
    /\ Header /\ Frame = Wanted /\ (Found.ok \/ c3_retry <= 1)
    /\ bufStatus' = IF Found.ok THEN bufStatus ELSE "CD_BUF_STOP"
    /\ research_cnt' = Counted
    /\ out' = Append(out, [n |-> Found.n, says |-> Found.says, fresh |-> at < copied])
    /\ lastSector' = Wanted
    /\ PassInRing(1)
    /\ used' = used + 1
    /\ IF used' < size
       THEN /\ at' = at + 1 /\ chunk' = Descrambled
            /\ c3_retry' = IF Found.ok THEN c3_retry ELSE c3_retry - 1
            /\ frame_retry' = FRAME_RETRY
            /\ UNCHANGED <<pc, reply, copied, kmpcnt, kmp_retry, seeks>>
       ELSE Return("ok", Delivered(out'), Descrambled)
    /\ spoiled' = (spoiled \/ at >= copied \/ Found.n # Wanted)
    /\ UNCHANGED <<full, cdif, pickupseek, request, next, prev, old, quality, switches, stops>>

\* FRAME_OVER, FRAME_UNDER.
FrameFail ==
    /\ Header /\ Frame # Wanted /\ frame_retry <= 0
    /\ Return("error", <<>>, Descrambled)
    /\ research_cnt' = Counted
    /\ UNCHANGED <<status, lastSector, pickupseek, ring, under, request, used, out, deck,
                   stops>>

Secdiff == Wanted - Frame

\* A frame behind the sector may be left from before the seek, one before it
\* leads to it: the search goes on with the next header.
StepOver ==
    /\ Header /\ frame_retry > 0
    /\ \/ Frame > Wanted /\ Counted <= SKIPS
       \/ Frame < GoMSF
       \/ GoMSF <= Frame /\ Frame < Wanted /\ ~Has(Secdiff) /\ Counted <= SKIPS
    /\ Pass(1)
    /\ research_cnt' = Counted
    /\ chunk' = Descrambled
    /\ UNCHANGED <<pc, status, lastSector, pickupseek, copied, request, used, retries, out, reply,
                   deck, stops, seeks>>

\* The sector is in the ring: go there, whether it was copied or not.
Jump ==
    /\ Header /\ frame_retry > 0
    /\ GoMSF <= Frame /\ Frame < Wanted /\ Has(Secdiff)
    /\ Pass(Secdiff)
    /\ research_cnt' = Counted
    /\ chunk' = Descrambled
    /\ UNCHANGED <<pc, status, lastSector, pickupseek, copied, request, used, retries, out, reply,
                   deck, stops, seeks>>

\* Mutation: the retry is counted only without a seek.
FrameRetryUncounted ==
    /\ Header /\ frame_retry > 0 /\ Counted > SKIPS
    /\ \/ Frame > Wanted
       \/ GoMSF <= Frame /\ Frame < Wanted /\ ~Has(Secdiff)
    /\ pc' = "enter"
    /\ bufStatus' = "CD_BUF_STOP"
    /\ frame_retry' = IF pickupseek THEN frame_retry ELSE frame_retry - 1
    /\ research_cnt' = Counted
    /\ chunk' = Descrambled
    /\ UNCHANGED <<full, cdif, lastSector, pickupseek, ring, under, at, copied, request, used, kmpcnt,
                   kmp_retry, c3_retry, out, reply, deck, stops, seeks>>

\* Neither: seek again.  The retry is counted only after a seek.
FrameRetry ==
    /\ Header /\ frame_retry > 0 /\ Counted > SKIPS
    /\ \/ Frame > Wanted
       \/ GoMSF <= Frame /\ Frame < Wanted /\ ~Has(Secdiff)
    /\ pc' = "enter"
    /\ bufStatus' = "CD_BUF_STOP"
    /\ frame_retry' = IF pickupseek THEN frame_retry - 1 ELSE frame_retry
    /\ research_cnt' = Counted
    /\ chunk' = Descrambled
    /\ UNCHANGED <<full, cdif, lastSector, pickupseek, ring, under, at, copied, request, used, kmpcnt,
                   kmp_retry, c3_retry, out, reply, deck, stops, seeks>>
-----------------------------------------------------------------------------
Reader ==
    \/ Research \/ EnterNear \/ EnterSeek \/ Seek \/ SeekFails \/ Copy \/ WaitExpires
    \/ KmpMiss \/ KmpFail \/ C3Fail \/ Take \/ FrameFail \/ StepOver \/ Jump \/ FrameRetry

Next ==
    \/ Arrive
    \/ \E a \in Starts, n \in Sizes : Request(a, n)
    \/ Reader
    \/ ForceStop

Spec == Init /\ [][Next]_vars

\* The thread runs and the deck delivers.
FairSpec == Spec /\ WF_vars(Reader) /\ WF_vars(Arrive)
-----------------------------------------------------------------------------
TypeOK ==
    /\ pc \in {"idle", "research", "enter", "seek", "wait", "search"}
    /\ bufStatus \in {"CD_BUF_START", "CD_BUF_STOP"}
    /\ {full, cdif, pickupseek} \subseteq BOOLEAN
    /\ lastSector \in Nat /\ research_cnt \in 0 .. SKIPS + 1
    /\ Len(ring) <= RING /\ under \in Nat
    /\ \A i \in DOMAIN ring : ring[i] \in [n : Nat \cup {-1}, says : Nat \cup {-1}, ok : BOOLEAN]
    /\ at \in Nat
    /\ start \in Starts \cup {0} /\ size \in Sizes \cup {0} /\ used \in 0 .. size
    /\ kmpcnt \in 0 .. KMP_RETRY /\ kmp_retry \in 0 .. KMP_RETRY
    /\ frame_retry \in 0 .. FRAME_RETRY /\ c3_retry <= C3_RETRY
    /\ Len(out) = used
    /\ result \in {"none", "ok", "error"}

\* A read that succeeds has decoded every sector it was asked for, in order,
\* wherever the deck landed and however often it was sent back -- unless the
\* header of another sector was damaged and read as the address that was looked
\* for: the code compares the header before it corrects the sector (line 896).
RightSectors ==
    result = "ok" => /\ Len(out) = size
                     /\ \A i \in 1 .. size :
                           out[i].says = out[i].n => out[i].n = start + i - 1

\* After a read that succeeded, while buffering goes on, the ring starts with
\* the sector after lastSector: CD_Research_Frame and wantSectorGap rely on it.
\* (Unless the deck mixed frames from before the seek with those after it, or
\* the search took a sector it had not copied (see SectorsFromCD), or one whose
\* damaged header gave it for another.)
RingPlaced ==
    pc = "idle" /\ result = "ok" /\ bufStatus = "CD_BUF_START" /\ ~spoiled =>
        /\ under = 0
        /\ ring # <<>> /\ ring[1] # NOISE => ring[1].n = lastSector + 1

\* The retry counters together bound the seeks of a read: a KMP retry, a C3
\* retry, and for each sector as many frame retries as CD_RETRY_CNT.
SeeksBounded == seeks <= KMP_RETRY + C3_RETRY - 1 + size * FRAME_RETRY

\* A sector is handed on undecoded only when the pick-up was sent again for every
\* C3 retry of the read: no retry is spent on the samples that were there already.
UndecodedAfterRetry == [][Take /\ ~Found.ok => seeks >= C3_RETRY - 1]_vars

\* Every read ends, even when the deck never lands where it should: no read is
\* in progress for ever.
ReadEnds == []<>(pc = "idle")

\* "Read indicated sector from CD" (cdif_drv.c:629): a sector that is taken
\* was captured since the last seek and copied from the ring by this read, not
\* left in the chunk buffer or in the ring.
SectorsFromCD == \A i \in DOMAIN out : out[i].fresh

\* "returnByteSize : read size" (cdif_drv.c:1078): a read that succeeds hands
\* the caller every sector it has read.
ReturnsReadSize == result = "ok" => Len(given) = size
=============================================================================
