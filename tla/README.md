# A verification model of the Automotive CD Player driver

The driver reads data CDs with an audio-only interface.  The deck streams
samples over CDIF; a DMA interrupt collects them in a ring; a kernel thread,
behind a block device, looks in that stream for the sectors it was asked for,
descrambles and decodes them, and tells a user-space daemon over netlink where
the pick-up should go.  This directory models the parts that make this work,
with the interleavings between them, and proves the central properties for
every size of the ring, disc and buffer, every pattern, and any number of seeks,
sectors, retries, requests and openers.

Contents: 1 the system, 2 the modules, 3 the runs, 4 bounds and fairness,
5 the proofs, 6 findings and observations, 7 not modelled, 8 the plan.

## 1. The system

| Part | Source | State | Operations |
|---|---|---|---|
| Sample buffer | `SingleBuffer.c` | `lLength`, `lReadPtr`, `lWritePtr` | `Set`, `DataAvailable`, `SpaceAvailable`, `UpdateReadPointer`; never called: `Init`, `IsEmpty`, `UpdateWritePointer` |
| CDIF ring | `cdif_drv.c:92-770`, `cdif_api.c:690-842` | the ring `sCDDIBuffer`, `gCDBufStatus`, `gCDErrorStatus`, the CDIF enable bit, `CD_DevForceStop`, `datacd_enable` | DMA interrupt, `CD_ReadData`, `CD_Set_StartBuffing`, `CD_Do_StartBuffering`, `CD_Do_StopBuffering`, `CD_Research_Frame`, `CD_SetDevForceStop` |
| Seek channel | `cdif_drv.c:335-381`, `knetlink.c` | `tcc_completion`, `seek_response`, `recv_pid`; the daemon's socket | `CD_Send_msf`, `nl_send_msf`, `nl_recv_msg`, `CD_SeekResultMonitor` |
| Sector search | `cdif_drv.c:563-1109` | chunk buffer, `gLastSector`, `pickupseek`, `research_cnt`, three retry counters | `CD_ReadSector`, `CD_DescrambleSector`, `CD_CopyReadData` |
| Request thread and eject | `cdrom.c:225-390, 552-556`, `cdrom_drv.c:34-65` | request in hand, queue, task state, `state_eject` | `tcr_issue_rq`, `tcr_request`, `set_State_eject`, `kthread_stop` |
| Lifecycle | `cdrom.c:42-160, 389-572` | kref of `tcc_cd`, `disk->private_data`, minors, `cdrom_dev`, two mutexes | `tcc_cdrom_probe`, `tcc_cdrom_remove`, `tcr_block_open`, `tcr_block_release` |
| Address conversions | `cdif_api.c:55-245`, `cd_filesystem.h` | none | BCD, MSF and frame conversions |
| Table of contents | `knetlink.c`, `cdrom_drv.c` | `toc_buffer` | copied in by the daemon, out by ioctls |
| Pattern search | `cdif_api.c:588-663`, `cdif_drv.c:816-880` | `kmpNext`, position in the chunk buffer | `CD_KmpPatternSearch` and the loop that calls it |
| Hidden eMMC area | `hidden_mmc.c` | open files, address limit | `MMC_ReadHidden`, `MMC_WriteHidden`; neither compiled nor called |
| C3 decoder | `libc3decoder.lo` | a binary | `C3_decoder`, `Descramble_Sector` |

How they interact:

- The **request thread** calls the **sector search** synchronously; everything
  the search does happens in that thread.
- The search waits for samples in the **ring** by polling, with `msleep`.  The
  **interrupt** fills it.  There is no lock between the two: each owns one
  pointer, but the thread resets both.
- The search seeks through the **seek channel**, and sleeps up to ten seconds on
  a completion that `nl_recv_msg` signals in the daemon's context.
- An **eject** comes in the daemon's context, a mount in an opener's.  Both
  write `state_eject` (under a mutex), then `CD_DevForceStop` and
  `datacd_enable` (under none), which the thread and the interrupt read.

What is hard: two contexts move one ring without a lock; the read pointer is
stored out of range before it is corrected; a "full" status outlives the ring it
describes; answers to seeks carry no number and may come late; three nested
retry counters; a chunk buffer that is never cleared; two flags for one eject; a
thread that must not sleep over work; a drive removed between finding and
opening it.  `PROJECT.json` lists each hazard at its
line with the properties that cover it.

What makes each part correct:

- *Ring*: nothing is overwritten unread; the two counting functions are right
  when decisions depend on them; a read copies what it waited for; a read ends.
- *Seek channel*: a success is about the current seek; the whole is an
  implementation of a one-seek-at-a-time service.
- *Search*: a successful read holds the right sectors in order, leaves the ring
  at the next sector, and needs a bounded number of seeks; every read ends.
- *Lifecycle*: the count of a `tcc_cd` is that of its users; what was freed is
  never taken again; two drives never share a minor.
- *Thread*: no lost wake-up; every request is ended once; ejects and removal
  are served even when the deck is silent; no segment is begun on an ejected
  disc.
- *Pattern search*: the first header is found, none is lost across two windows,
  the read pointer follows the search without passing it.
- *Conversions*: what a disc holds as the address of frame n is read as n.
- *Hidden area*: a transfer stays in the area it was asked for.

## 2. The modules

| Module | What it is |
|---|---|
| `SingleBuffer` | operators of `SingleBuffer.c` |
| `SampleQueue` | abstract: what the ring promises, a bounded count of samples |
| `CdifRing` | the ring, its interrupt, its reader, force stop; EXTENDS `SingleBuffer`; refines `SampleQueue` |
| `SeekService` | abstract: what `CD_Send_msf` promises |
| `SeekChannel` | `CD_Send_msf` over netlink; refines `SeekService` |
| `MsfCodec` | the conversions of addresses, with their width |
| `SectorRead` | `CD_ReadSector`, in whole frames; EXTENDS `MsfCodec` |
| `HeaderSearch` | `CD_KmpPatternSearch` and its caller, in bytes |
| `BlockDevice` | abstract: what a drive promises |
| `BlockThread` | `tcr_issue_rq` and who disturbs it; refines `BlockDevice` |
| `Lifecycle` | probe and remove against open and release |
| `HiddenMmc` | `hidden_mmc.c` |
| `MC...` | instances for TLC |
| `...Proofs` | theorems |

The components meet at narrow interfaces, each modelled on both sides:
`CdifRing` sees the seek as `SeekDone`/`SeekDeckError` (any answer but
`DECK_ERROR` goes on, as `SeekChannel`'s `Decide` shows) and the search as moves
of the read pointer; `SectorRead` sees the ring as a sequence of frames, stopped
when it is full, the seek as a landing place, the pattern search as what
`HeaderSearch` is proved to be (the first header is found, or none is there), and
decodes the header with `MsfCodec`; `BlockThread` sees
`CD_ReadSector` as an operation that succeeds, fails, or is cut off by force
stop.  `Lifecycle` stands beside them: it says who may call, not what a call does.

**CdifRing.**  `rp`, `wp` are the two pointers, `bufStatus`, `errStatus`, `cicr`
the shared status, `pc` the place of the thread.  The kernel is uniprocessor, so
the interrupt is atomic to the thread; an action of the thread is one access to
shared state, accesses the interrupt cannot tell apart being merged.  The reset
of the ring is two actions (`ZeroWrite`, `ZeroRead`) and `UpdateReadPointer` two
more (the store in `ResearchSkip`/`SearchMove`, the correction in
`FixSkip`/`FixUse`).  `HalfComplete` is the DMA, `AdmaInterrupt` the handler;
half a buffer may complete just before the CDIF is stopped and be handled
afterwards (`irq`).  The contents of samples are left out, so the header search
is a choice of `SearchMove`, `SearchRetry` and `SearchEnd`.  `unread` and
`trusted` are history: the samples captured since the last reset and not passed,
and whether they are meaningful (the interrupt checks for a full ring only on a
data CD, so an eject voids the count; so does a search beyond what it waited
for, which nothing in the code prevents).  `SampleQueue` has a count, whether a
half buffer may still come, and whether the count is known; the refinement reads
`Level` off the pointers: between the two stores of a reset the write pointer
alone tells, between those of a move the read pointer is taken as corrected, so
that each pair is one step of the count.

**SeekChannel.**  `done` is the completion's counter, `response` the one cell of
`seek_response`, `recvPid` the daemon last heard of.  Seeks are numbered in the
model only.  The daemon serves its socket in order and may be restarted, which
loses what the socket held.  The send may fail silently.  `cdif` records that
`CD_Do_StopBuffering` starts the CDIF unless the answer is `DECK_ERROR`.
`SeekService` has a pending seek, a pick-up and an answer; the refinement maps
the five places of the thread to three states.

**SectorRead.**  One cell is one 588-sample frame.  `ring` are the frames between
the pointers, `under` how far the read pointer has gone past the write pointer,
`chunk` and `at` the chunk buffer and `psCDBuff` in it.  A frame is its
address, the address its header says, and whether C3 can decode it, or has no
header that can be found.  A damaged header says another address (`Misreads`),
which is what the code compares: the header is read before anything is
corrected.  The deck lands anywhere in `Landings` around the place it was sent
to, may deliver old frames first (`Previous`), and its quality changes at any
frame.  While the read pointer is past the write pointer, the space the
interrupt sees ends at the read pointer, so that it may take the ring for full
and stop the CDIF (`Capture`).  A copy takes what is asked for, however little
was captured: from the write pointer on these are samples of an earlier lap of
the ring (`OldSamples`), which begin at any address in `Laps`.  `copied` is how
much of the chunk buffer holds frames captured since the seek, `spoiled` that
the deck mixed frames from before the seek with those after it, or that a sector
was taken that was not copied or that a damaged header gave for another.  Each
branch of `SEARCH_LBN` is an action: `KmpMiss`, `KmpFail`, `C3Fail`, `Take`, `StepOver`,
`Jump`, `FrameRetry`, `FrameFail`.  Descrambling is in place, so a cell that was
looked at is noise afterwards.  Frames are kept whole: after a retry that finds
some sectors decoded, the copy in the code begins 2048 bytes further on than a
cell, which only reads of several sectors meet.

**BlockThread.**  `task` is the task state, `queue` the request queue in no
order (the elevator's), `left` the segments of a request
(`__blk_end_request` per segment).  `set_State_eject` is two actions with
anything in between; the netlink callback and a mount are separate callers.
`BlockDevice` has neither thread nor task state nor force stop: a request in
hand, the segments left, whether one is being read, and the disc.  Between two
segments of a request the disc may be ejected, and the gate must look again.

**HeaderSearch.**  One action is one comparison: `BuildMatch`, `BuildFall`,
`BuildZero` make the table, `ScanMatch`, `ScanFall`, `ScanSkip` look through the
window, `Miss`, `Found` and `GoOn` are the caller, which moves in bytes while
`passed`, the read pointer of the ring, counts samples.  `AllocFails` is a
`kmalloc` without memory, which the caller cannot tell from a miss.

**MsfCodec.**  Each conversion is the function the code computes on bytes that
wrap at 256; the loops of `CD_HEX2BCD` and `CD_BCD2HEX` are recursive functions.
`DiscHeader` is what a disc holds (two digits each of minute, second, frame:
external), `HeaderFrame` what `CD_DescrambleSector` makes of it.  `RoundTrips`
states that the conversions undo each other.

**HiddenMmc.**  One call at a time, from `Enter` (the areas, the check, the
position) over `Open` to the transfer with its retries; the paths that undo
nothing leave `limit` and `open` as they are.

**Lifecycle.**  `bound` is how far probe or remove has come; a disk is numbered
by its probe, so that a removed disk which is still open and the one bound
meanwhile are told apart.  `state` and `on` say what each opener does with which
disk.  `tcr_ref_mutex` is held within one action; `tcr_mutex` from `Get` to the
end of the open, with remove running meanwhile, as in the code.  An open before
probe has set `cdrom_dev` dereferences NULL inside `tcr_cd_get`: the opener is
`oops` from then on, keeps its reference and both mutexes, and everything that
needs them waits for ever.

## 3. The runs

| Run | Spec | What it shows | Distinct states |
|---|---|---|---|
| `ring` | `FairSpec` | `NoOverrun`, `SpaceHonest`, `CountFaithful`, `SequentialBuffered`, refinement of `SampleQueue`; `ReadReturns` (with a steady deck), `ForceStopEndsRead` (with any) | 570 251 |
| `ring_short` | `Spec` | **violated**: `BufferedEnough` | |
| `seek_prompt` | `Spec`, prompt answers | `SuccessIsCurrent`, refinement of `SeekService` | 450 |
| `seek_late` | `Spec`, late answers | **violated**: `SuccessIsCurrent` | |
| `sector` | `FairSpec` | two-sector reads across the end of a second: `RightSectors`, `RingPlaced`, `SeeksBounded`, `UndecodedAfterRetry`, `ReadEnds` | 1 102 820 |
| `sector_size` | `Spec` | **violated**: `ReturnsReadSize` | |
| `sector_stale` | `Spec` | **violated**: `SectorsFromCD` | |
| `header` | `FairSpec` | `TableRight`, `FirstHeader`, `NothingMissed`, `RingFollows`, `SearchEnds`; as an assumption TLC evaluates, `RoundTrips` | 200 830 |
| `thread` | `FairSpec` | `NoLostWakeup`, `EndedOnce`, `EveryRequestEnds`, `RemoveReturns`, `EjectEndsRequests`, refinement of `BlockDevice` | 75 348 |
| `eject_flags` | `Spec` | **violated**: `FlagsAgree` | |
| `lifecycle` | `Spec` | `ReferencesExact`, `FreedForGood`, `MinorsAccounted` | 8 138 |
| `hidden` | `Spec` | **violated**: `AccessInArea` | |

Every passing run also checks its module's `TypeOK`.  Deadlock is not checked:
every module may stop by running into a bound, and the thread of `BlockThread`,
an ejected drive and a drive whose opener died really do stop.

## 4. Bounds and fairness

`CHUNK = 8`, `HALVES = 5`: five half buffers of eight samples, where the driver
has 1024 of 2048.  As there, a half buffer is larger than the four
spare samples, and neither a frame (`FRAME = 5` for 588) nor the search's moves
(3 and 7) divide the ring, so the read pointer wraps at every distance from the
end.  A request of 9 spans two half buffers, and the ring can fill and be
drained below a request.  `FAR = 2` for 20: `Gaps` holds a gap behind, at, next
to, and beyond the limit.  `WORK` bounds the moves of one read (1; 2 in
`ring_short`, for a wrap followed by a retry); reads repeat without a bound, so
that longer sequences of moves happen over several reads.  `FitAssumption`: a
read waits for 44 frames at most and the ring holds 3566.  `SEEK_HALVES = 1`:
what completes during a seek; the code's seek ends after ten seconds, the ring
lasts 47.  `FIX_HALVES = 0`: no half buffer completes between the two stores of
`UpdateReadPointer`, i.e. the thread is not kept off the CPU for 46 ms exactly
there (see section 6).  `EJECTS` counts calls of `CD_SetDevForceStop`: 2 are a
mount and an eject during a read; 1, in `ring_short`, only the mount.

`MAXSEEKS = 4`, `MAXPID = 2`: a late answer needs two seeks, a restart two
daemons; the theorems hold for all.  `PROMPT`: an answer that comes, comes
within ten seconds.

Sector search: `BACK = 2` for `CD_SEEK_POSITION = 6`, `MARGIN = 3` or 4 for 12,
a ring of 5 or 6 frames, `SKIPS = 1` for `PREVIOUS_DATA_SKIP_COUNT = 5`,
`FRAME_RETRY` 1 or 2 for 3, `C3_RETRY` and `KMP_RETRY` as in the code.  In
`sector` the reads start at frames 4573 and 4575, so that a second
carries (01:00:73 to 01:01:00) in the headers they compare; the disc ends at 4576,
so that a search also runs into its end.  The landings there are the place asked
for and so far behind the sector that one frame of the disc or none still comes
({0, 5}), in the other runs before the searched window, at the place asked for,
and behind the sector ({-3, 0, 4}).  Together with old frames and damaged headers
they take each branch of `SEARCH_LBN`.  One old
frame may come first (`Previous`), one force stop may come (`STOPS = 1`), and
between two seeks the quality changes once or one header is damaged
(`SWITCHES = 1`).  `Misreads` is one address that is before the sector for one
read and the second sector of another in `sector`, the wanted one or the one
behind it in the violated runs.  `Laps` matters only after a
read that ended past the write pointer.  The listed runs do not come there:
`sector`, because its ring holds no more than one copy, the violated ones,
because they end before.  What a copy takes from an earlier lap is covered by
the proofs, for any `Laps`; and TLC agrees on a variant of `sector` with
`Starts = {10, 11}`, `Sizes = {1, 2}`, `RING = 6`, `END = 14`,
`Laps = {10, 11}`, the three landings, `Previous = {0}`, `Misreads = {}`,
`SWITCHES = STOPS = 0`: 98 227 states in which jumps go into leavings of longer
reads and the next read copies from an earlier lap; `TypeOK`, `RightSectors`,
`RingPlaced` and `ReadEnds` hold.  `AHEAD = 2` bounds how far the read pointer
may be past the write pointer when a read begins, which only that variant comes
to feel: with reads of nothing but an earlier lap it would go on through the
whole of it.
Of the chunk buffer, as many cells as the smallest read copies are
forgotten between reads: every later read replaces them first.

Header search: windows of 8 bytes over two byte values, moves of 4, so that a
window overlaps the next by 4 bytes, one less than the longest pattern; the code
has 2352, 2048 and a pattern of 12.  `{0,1,1,0}` has the shape of the sync
pattern; the others have borders of borders, which the sync has not.  The
buffers are all sequences of four blocks out of five and a last header.  One miss
is allowed, and every move after a header.  `RoundTrips` looks at both sides of
every carry and at the first and last frames, `HeadersAreRead` proves it for all.

Hidden area: a card of 8 or 9 sectors of 2 bytes, three areas, one of them
empty, offsets at both ends and in the middle; `LEAKS` bounds the files that
failed writes leave open.

Request thread: two reads and one request of another kind, one or two
segments each, two calls of `set_State_eject`.  No symmetry is used.

Lifecycle: three openers (interchangeable: the only use of symmetry, and only
for safety), two minors for 256, three probes: a disk that is removed while open,
a second one bound meanwhile, and a third that finds no minor left or reuses one.

Fairness is as weak as the properties allow:

- The thread runs (weak fairness of `Reader` or `Thread`): it is a kernel
  thread with no rival that could starve it.
- A pending interrupt is served.
- `Expire` is strongly fair: `iWaitTimer` counts down once per 10 ms poll, so
  a wait cannot poll for ever.
- `SectorRead`: the deck delivers (`Arrive`); here it always does, the silent
  deck is `CdifRing`'s.
- What is asked of the *deck* elsewhere is not in a specification but the
  premise of a property: `SteadyDeck` (half buffers keep coming, and from some
  time on `iWaitTimer` runs out only while the CDIF is off) for `ReadReturns`,
  `ReadsReturn` for `EveryRequestEnds` and `RemoveReturns`, a lasting force
  stop for `ForceStopEndsRead` and `EjectEndsRequests`.

Under `SteadyDeck` a read can still wait with the CDIF off: the interrupt may
set `CD_BUF_FULL` just before the thread overwrites it with `CD_NO_PROBLEM`
(`cdif_drv.c:557`).  Then the ring is drained, nothing comes, the wait expires,
and the retry seeks and starts the CDIF: `ReadReturns` says that this always
recovers.

`EveryRequestEnds` is about *accepted* requests: those in the queue while the
thread has still to look at it.

## 5. The proofs

All proofs are checked by TLAPS.  Every safety property and every refinement of
a passing run is proved, for all values of the constants that the named
assumptions admit; the proofs of the ring, except of its types, need
`FIX_HALVES = 0`, those of the seek channel, except of its types, `PROMPT`.  Five
of the six violated properties have a theorem that says where the violation ends:
`FreshStatusIsBuffered` for a status that is not of the ring before,
`SuccessIsAboutTheCurrentSeek` for answers in time,
`SingleSectorsFromCD` for reads of one sector,
`FlagsAgreeOneByOne` for callers one at a time, `AccessIsInArea` for writes.
The sixth, `ReturnsReadSize`, is violated by every read of several sectors that
succeeds.

Model-checked only: the liveness properties `ReadReturns`, `ForceStopEndsRead`,
`ReadEnds`, `SearchEnds`, `EveryRequestEnds`, `RemoveReturns` and
`EjectEndsRequests` (TLAPS does not reach fairness).

**CdifRingProofs**: `TypeCorrect` for every value of the constants;
`NeverOverrun`, `SpaceIsHonest`, `CountIsFaithful`, `SequentialIsBuffered`,
`FreshStatusIsBuffered` and `ImplementsQueue` for those with `FIX_HALVES = 0`
(with 1 `SpaceHonest` and `NoOverrun` fail, see section 6).  The invariant `RingInv` is a type
invariant (with: the read pointer is out of range exactly between its two stores;
the write pointer is a whole number of half buffers) and, while the count is
trusted, `Counted`:

- `Agree` relates the pointers to `unread`, in three cases (between the two
  resets, between the two stores, otherwise);
- `Room`: while a half buffer can still come, there is room for it and the spare.
  This is what the full check in the interrupt maintains, and it needs
- `Arrived`: what arrived since a reset is bounded by the half buffers since;
  with `SeekAssumption` this is room for the next one when the CDIF is started;
- `Straight`: while the read pointer is out of range, a pending half buffer does
  not wrap `wp`;
- `Passed`: the search's own count is below `unread`.

None of the first three is inductive alone: the free space is right only if
the ring did not overrun, and the ring does not overrun because the free space
was right when the interrupt asked.

`SequentialIsBuffered` adds that a full ring holds what any read waits for
(`FullIsEnough`, from `FitAssumption`), and that a full status from before the
wait was compared with the request (`Sequential`).  `FreshStatusIsBuffered` is the
same for reads that seek: if the status is not full when the CDIF is started
(`StartsNotFull`), a full status during the wait comes from this ring, and
`BufferedEnough` holds.

`ImplementsQueue`: every step of the ring is one of `SampleQueue` or a stutter.
By `LevelIsUnread` the level read off the pointers is the history count at every
place of the thread; the guard of the abstract `Capture`, that the half buffer
fits, is `Room` of the invariant.

Assumptions on the constants are the named `ASSUME`s of `CdifRing`: the ring is
a multiple of four samples (`SingleBufferSet` insists), the search never moves
by more than a ring, `FitAssumption` and `SeekAssumption` above.  TLC evaluates them in every run.

**SeekChannelProofs**: `TypeCorrect`; `SuccessIsAboutTheCurrentSeek` and
`ImplementsService` for `PROMPT`, any number of seeks and restarts.  The
invariant says that with prompt answers at most one seek is in flight and only
while the thread waits, that the completion is 0 or 1, and what the response
cell holds at each place of the daemon.

**BlockThreadProofs**: `TypeCorrect`, `WakeupsAreKept`, `RequestsEndOnce`, for
any sets of requests and any number of segments.  `EndedOnce` needs to know
where the thread has a request in its hands (`Held`), and that a queued request
has a segment left (`ToBeRead`).  `ImplementsDevice`: every step of the thread is
one of `BlockDevice` or a stutter; a segment is admitted in the step that reads
`state_eject`.  `FlagsAgreeOneByOne`: as long as no two callers are inside
`set_State_eject` together, the flags agree whenever nobody is (`Said`: what the
one inside has stored is what it will hand on).

**SectorReadProofs**: `TypeCorrect`, `ReadsTheRightSectors`, `SeeksAreBounded`,
`RingIsPlaced`, `SectorsAreRetried`, for any disc of up to a hundred minutes,
deck, ring, number of sectors and retries.  What was decoded so far is the
beginning of what was asked for (`Decoded`): a sector is taken only when its header says so, and
`MsfCodecProofs` shows that headers are read as what they say.  Damaged headers
say anything (`Misreads` is any set of addresses), so what is shown is that a
wrong sector is decoded only if its own header, damaged, gave the address that
was looked for.  Every seek after the first
is paid for by a retry counter (`Budget`).  Two places in the code look as if
they were not: a wait that expires, and a retry that is not counted because no
seek preceded it.  The first happens only before the first seek, since a seek
starts the CDIF and only a full ring, which ends the wait, stops it; the second
by definition.

`RingIsPlaced` is about two things that are moved by hand and must move together,
the ring and the position in the chunk buffer.  Unless the read is spoiled, the
frames of the ring follow each other, and the next one of the deck follows them
(`Follows`); what the search has still to look at in the chunk buffer is at the
same place of the ring, or is noise (`InStep`); and the read pointer passes the
write pointer only when the ring is empty (`Beyond`).  Every branch of
`SEARCH_LBN` moves both by the same number of frames, so that the ring begins
behind the sector that was taken.

`SectorsAreRetried`: a sector may be handed on undecoded, but not before every
C3 retry of the read sent the pick-up again; the counter is not spent by what
was not sought (`Retries`).

`SingleSectorsFromCD`: with reads of one sector only (`OneByOne`) every copy
replaces the whole chunk buffer, so that the search finds nothing in it that an
earlier read left (`Fresh`); and what is left to be searched of a copy is still
in the ring, so that no read ends with the read pointer past the write pointer,
and none copies what an earlier lap left (`Captured`).

**HeaderSearchProofs**: `TableIsRight`, `FirstHeaderFound`, `NothingIsMissed`,
`RingFollowsSearch`, `TypeCorrect`, for any buffers, patterns, windows and moves
whose overlap holds all but one element of the pattern (`OverlapAssumption`:
2352 - 2048 against 12).  The table holds the longest border of each prefix; a
fall back to the longest border of what matched skips no occurrence
(`FallSkipsNothing`).  `SearchEnds` is model-checked.

**MsfCodecProofs**: `HeadersAreRead`: for every frame below 450000 the digits a
disc holds are read as its number.  `CD_BCD2HEX` is unfolded at most nine times.
`AddressesReadBack`: the two pairs of conversions the driver uses undo each other
on all of them, with `CD_HEX2BCD` unfolded as often.  `ConversionsRoundTrip` is
`RoundTrips` itself, single bytes and `CD_byte2sector` included.

**HiddenMmcProofs**: `AccessIsInArea`: a transfer starts in its area exactly if it
writes, or reads at an offset below the number of *sectors* of the area; such a
read still begins at another place than a write with the same offset, unless
that is 0.  That the starts of the areas are numbers is a premise (it is an
induction over the areas); on the instance of run `hidden` it holds.

**LifecycleProofs**: `TypeCorrect`, `ReferencesAreExact`, `FreedStaysFreed` and
`MinorsAreAccounted`, for any finite set of openers and any number of minors and
probes.  `ReferencesExact` needs to know that who holds something holds a disk
(`Placed`), that the next disk is unused (`Fresh`) and that `private_data` is
there exactly as long as the `tcc_cd` (`Visible`); the rest is counting: how the
set of holders grows and shrinks by one opener.

## 6. Findings and observations

Violated properties, each quoting the line it is measured against:

- `ring_short`: `CD_BUF_FULL` of the old ring survives the reset and excuses the
  wait after a seek; a read then copies samples that were never captured
  (`cdif_drv.c:541`).  By `FreshStatusIsBuffered` this is the only way.
- `seek_late`: an answer after ten seconds answers the next seek
  (`cdif_drv.c:356`: no `INIT_COMPLETION`, no number in the answer).
- `sector_size`: a read of several sectors returns the size of one
  (`cdif_drv.c:1029`), and one is copied.
- `sector_stale`: a jump in the chunk buffer can leave what was copied, and the
  search finds a frame of an earlier read there (`cdif_drv.c:994`).  Reads of one
  sector are free of it as long as there are no others (`SingleSectorsFromCD`).
  `RingPlaced` leaves out the reads this spoils (`spoiled`), those in which
  frames from before the seek came among those after it, and those that took a
  sector for the one its damaged header named.
- `hidden`: reading adds the offset, in bytes, to the start in sectors
  (`hidden_mmc.c:125`), writing to the start in bytes: what was written is read
  from elsewhere, also from behind the area.  Writes and reads at offset 0 are
  where they should be (`AccessIsInArea`).
- `eject_flags`: a mount between the two stores of an eject leaves
  `state_eject` and force stop in disagreement until the disc is opened again
  (`cdrom.c:386`); it takes two callers at once (`FlagsAgreeOneByOne`).

Seen while modelling, with no line in the repository to hold against them:

- After `SEEK_TIME_OUT`, `CD_Do_StopBuffering` starts the CDIF as after a
  success (`cdif_drv.c:509` tests for -1 only); the header search sorts it out.
- With `FIX_HALVES = 1`, `SpaceHonest` and then `NoOverrun` fail: an interrupt
  between the two stores of `UpdateReadPointer` sees a read pointer beyond the
  ring and gets a free space that is wrong, so that the CDIF is not stopped in
  time.  It takes a thread delayed for a half buffer exactly there.
- A request that comes between the empty `blk_fetch_request` and
  `kthread_should_stop` stays in the queue if the driver is removed in that
  moment (`cdrom.c:249-255`); hence `Accepted`.
- A request queued before an eject is served from the new disc if that is
  opened before the thread gets to the request (`cdrom.c:271`).
- With a deck that answers seeks but delivers nothing, `CD_ReadData` retries for
  ever (`cdif_drv.c:729` goes to `TRY_READ` without a limit): without
  `SteadyDeck`, `ReadReturns` fails.  `BUFFERING_TIME_OUT` never reaches its
  message in `Notify_Error` (`cdif_drv.c:1057`).
- `add_disk` precedes `cdrom_dev` (`cdrom.c:474, 514`): an open in between dies
  in the kernel with both mutexes, and no open, close or removal ends any more.
- When `register_cdrom` fails, the minor stays taken (`cdrom.c:479`; `lost`).
- After the first C3 error of a read, the following ones are ignored
  (`cdif_drv.c:919`): the sector is handed on undecoded and the read succeeds.
  `UndecodedAfterRetry` says that the pick-up was sent again before.
- The address of a header is compared before the C3 decoder has corrected
  anything (`cdif_drv.c:896`): a sector whose damaged header reads as the address
  looked for is taken for it, decoded, and the read succeeds.  `RightSectors` and
  `RingPlaced` except just such sectors; any other damaged header is stepped over,
  jumped from or answered with a retry, or fails the read when none is left.
- A table that `CD_KmpPatternSearch` cannot allocate is taken for a window
  without a header (`cdif_api.c:601`), which the search leaves behind.
- The position of a header moves the read pointer by whole samples: it falls
  behind the search by up to three bytes per header (`cdif_drv.c:877`,
  `RingFollows`).
- `MMC_WriteHidden` leaves the file open and the address limit lifted when all
  transfers failed (`hidden_mmc.c:221`); after a failed open the error value
  goes to `filp_close`; the size of the card is used unchecked (line 80).
- `CD_ShockProcess` is never called, so `CD_SHOCK` is never set; its branches
  are dead and left out.

## 7. Not modelled

- *Sample buffer*: `SingleBufferInit`, `SingleBufferIsEmpty` and
  `SingleBufferUpdateWritePointer` are never called; the last grants up to three
  samples more than `SpaceAvailable` (`SingleBuffer.c:188`).  The interrupt
  moves the write pointer by itself, which is in `CdifRing`.
- *Samples* and their alignment: a cell of `SectorRead` is a frame, the read
  pointer moves by frames there, by any step in `CdifRing`, by bytes in
  `HeaderSearch`.  What an earlier lap left in the ring is taken for successive
  frames of one quality.  A damaged header says an address of the disc; one that
  says an address behind its end is compared like the last.
- *Table of contents*: `toc_buffer` is copied in and out field by field without
  a lock; what a torn entry leads to is decided outside of the repository.
- *Lifecycle*: allocation failures before a minor is taken, the queue, and the
  ioctl, event and suspend handlers, which change none of the state modelled.
  The window before `nl_init` is modelled for `cdrom_dev`, not for the socket.
- `CD_SetDevForceStop` is atomic (two stores in one context that no property
  separates).  Values of an eject message other than 0 and 1.
- The polling variant of `CD_Send_msf` (`SEEK_COMPLETION` 0) is not compiled.
- Register writes, `/proc` and the dispatch of ioctls have no control of their
  own.  The acknowledge in `tcc_adma_handler` writes back the whole interrupt
  status (`cdif_drv.c:265`); what that does is in the chip's manual only.
- `libc3decoder` is a binary; its result is a choice.

## 8. Plan

Done: every part of section 1 with control of its own is modelled, the three
interfaces that carry a promise (sample queue, seek service, block device) are
refined, and every safety property of a passing run is proved.  What is left:

1. A composition of `BlockThread` with `CdifRing`'s force stop, where now each
   sees the other through an operation; `EjectEndsRequests` and
   `ForceStopEndsRead` are the two halves of what it would show.
2. A property of damaged headers that read as the wanted address, once it is
   said what they should lead to.
