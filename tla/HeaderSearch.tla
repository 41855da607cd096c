---------------------------- MODULE HeaderSearch ----------------------------
(***************************************************************************)
(* The header search of CD_DescrambleSector (SEARCH_LBN): looking for the  *)
(* sync pattern 00 FF .. FF 00 of a frame in the chunk buffer, byte by     *)
(* byte, with CD_KmpPatternSearch.                                         *)
(*                                                                         *)
(* One call of CD_KmpPatternSearch builds its table and looks through      *)
(* SRC_LEN bytes.  After a miss the search moves on by MOVE bytes, less    *)
(* than it has looked at; after a header it goes on behind it.  The read   *)
(* pointer of the ring, which counts samples, follows every move.          *)
(* SectorRead takes from here that the first header is found.              *)
(***************************************************************************)
EXTENDS Integers, Sequences

CONSTANTS
    Buffers,    \* what the chunk buffer may hold
    Patterns,   \* pPattern: in the driver the 12 sync bytes
    SRC_LEN,    \* CDDA_SECTOR_SIZE, the bytes one call looks at
    MOVE,       \* SECTOR_SIZE, the bytes the search moves after a miss
    MOVE_SIZE,  \* CD_MOVE_SIZE, how far before the sector a jump ends
    SEEK_POSITION, \* CD_SEEK_POSITION: frames a jump goes at most
    KMP_RETRY,  \* CD_KMP_RETRY_CNT
    TABLE       \* entries of kmpNext: kmalloc(1024)

\* Bytes of a sample: the shifts by 2.
SAMPLE == 4

ASSUME BufferAssumption ==
    \A b \in Buffers : b \in Seq(Nat) /\ KMP_RETRY * MOVE + SRC_LEN <= Len(b)
ASSUME PatternAssumption == \A p \in Patterns : p \in Seq(Nat) /\ Len(p) \in 1 .. TABLE
ASSUME SizeAssumption ==
    /\ {KMP_RETRY, TABLE, SEEK_POSITION, SRC_LEN, MOVE} \subseteq Nat
    /\ MOVE_SIZE \in 0 .. SRC_LEN
    /\ \A n \in {SRC_LEN, MOVE, MOVE_SIZE} : n % SAMPLE = 0
\* What is looked at twice, 2352 - 2048 bytes, has room for all but one byte of
\* the pattern.
ASSUME OverlapAssumption == \A p \in Patterns : MOVE + Len(p) <= SRC_LEN + 1

VARIABLES
    buf,       \* the chunk buffer
    pattern,   \* pPattern
    psCDBuff,  \* where the search is: bytes from the start of the chunk buffer
    passed,    \* samples the read pointer of the ring has moved
    kmpcnt,    \* misses still allowed
    pc,        \* where the search is in the code
    i, matches, kmpNext, lRet,  \* CD_KmpPatternSearch
    from,      \* history: where the search for this header began
    finds,     \* history: headers found
    failed     \* history: kmalloc failed in the search for this header

search == <<psCDBuff, passed, kmpcnt, from, finds>>
kmp    == <<i, matches, kmpNext>>
vars   == <<buf, pattern, search, pc, kmp, lRet, failed>>

Byte(k) == buf[psCDBuff + k + 1]

\* Every byte the search may still look at, n further on, is in the buffer.
\* (Bound: the code does not ask, see SectorRead.)
InBuffer(n) == psCDBuff + n + kmpcnt * MOVE + SRC_LEN <= Len(buf)

Init ==
    /\ buf \in Buffers /\ pattern \in Patterns
    /\ psCDBuff = 0 /\ passed = 0 /\ kmpcnt = KMP_RETRY
    /\ pc = "call" /\ i = 0 /\ matches = 0 /\ kmpNext = <<>> /\ lRet = -1
    /\ from = 0 /\ finds = 0 /\ failed = FALSE
-----------------------------------------------------------------------------
(* CD_KmpPatternSearch.                                                    *)

Alloc ==
    /\ pc = "call" /\ pc' = "build"
    /\ i' = 1 /\ matches' = 0 /\ kmpNext' = <<0>>
    /\ lRet' = -1
    /\ UNCHANGED <<buf, pattern, search, failed>>

\* Without memory for the table the call returns what it returns for no match.
AllocFails ==
    /\ pc = "call" /\ pc' = "return"
    /\ lRet' = -1
    /\ failed' = TRUE
    /\ UNCHANGED <<buf, pattern, search, kmp>>

Building == pc = "build" /\ i < Len(pattern)
Fits     == pattern[i + 1] = pattern[matches + 1]

\* Mutation: the match just made is not counted.
BuildMatchLate ==
    /\ Building /\ Fits
    /\ matches' = matches + 1
    /\ kmpNext' = Append(kmpNext, matches)
    /\ i' = i + 1
    /\ UNCHANGED <<buf, pattern, search, pc, lRet, failed>>

BuildMatch ==
    /\ Building /\ Fits
    /\ matches' = matches + 1
    /\ kmpNext' = Append(kmpNext, matches')
    /\ i' = i + 1
    /\ UNCHANGED <<buf, pattern, search, pc, lRet, failed>>

\* Mutation: the table is read one entry too far.
BuildFallFar ==
    /\ Building /\ ~Fits /\ matches > 0
    /\ matches' = kmpNext[matches + 1]
    /\ UNCHANGED <<buf, pattern, search, pc, i, kmpNext, lRet, failed>>

BuildFall ==
    /\ Building /\ ~Fits /\ matches > 0
    /\ matches' = kmpNext[matches]
    /\ UNCHANGED <<buf, pattern, search, pc, i, kmpNext, lRet, failed>>

BuildZero ==
    /\ Building /\ ~Fits /\ matches = 0
    /\ kmpNext' = Append(kmpNext, 0)
    /\ i' = i + 1
    /\ UNCHANGED <<buf, pattern, search, pc, matches, lRet, failed>>

BuildEnd ==
    /\ pc = "build" /\ i >= Len(pattern)
    /\ pc' = "scan" /\ i' = 0 /\ matches' = 0
    /\ UNCHANGED <<buf, pattern, search, kmpNext, lRet, failed>>

Scanning == pc = "scan" /\ i < SRC_LEN
Hit      == Byte(i) = pattern[matches + 1]

ScanMatch ==
    /\ Scanning /\ Hit /\ matches + 1 < Len(pattern)
    /\ matches' = matches + 1
    /\ i' = i + 1
    /\ UNCHANGED <<buf, pattern, search, pc, kmpNext, lRet, failed>>

ScanFound ==
    /\ Scanning /\ Hit /\ matches + 1 = Len(pattern)
    /\ matches' = matches + 1
    /\ lRet' = i + 1 - Len(pattern)
    /\ pc' = "return"
    /\ UNCHANGED <<buf, pattern, search, i, kmpNext, failed>>

\* Mutation: after a mismatch the pattern is started anew.
ScanFallZero ==
    /\ Scanning /\ ~Hit /\ matches > 0
    /\ matches' = 0
    /\ UNCHANGED <<buf, pattern, search, pc, i, kmpNext, lRet, failed>>

ScanFall ==
    /\ Scanning /\ ~Hit /\ matches > 0
    /\ matches' = kmpNext[matches]
    /\ UNCHANGED <<buf, pattern, search, pc, i, kmpNext, lRet, failed>>

ScanSkip ==
    /\ Scanning /\ ~Hit /\ matches = 0
    /\ i' = i + 1
    /\ UNCHANGED <<buf, pattern, search, pc, matches, kmpNext, lRet, failed>>

ScanEnd ==
    /\ pc = "scan" /\ i >= SRC_LEN
    /\ pc' = "return"
    /\ UNCHANGED <<buf, pattern, search, kmp, lRet, failed>>
-----------------------------------------------------------------------------
(* Its caller.                                                             *)

\* psCDBuff goes on by n bytes and the read pointer by as many whole samples.
Go(n) ==
    /\ psCDBuff' = psCDBuff + n
    /\ passed' = passed + n \div SAMPLE

\* Mutation: a miss moves on behind everything that was looked at.
MissWhole ==
    /\ pc = "return" /\ lRet < 0 /\ kmpcnt > 0
    /\ InBuffer(SRC_LEN - MOVE) /\ Go(SRC_LEN)
    /\ kmpcnt' = kmpcnt - 1
    /\ pc' = "call"
    /\ UNCHANGED <<buf, pattern, from, finds, kmp, lRet, failed>>

\* Mutation: the misses are not limited.
MissUnlimited ==
    /\ pc = "return" /\ lRet < 0
    /\ Go(MOVE)
    /\ kmpcnt' = kmpcnt - 1
    /\ pc' = "call"
    /\ UNCHANGED <<buf, pattern, from, finds, kmp, lRet, failed>>

Miss ==
    /\ pc = "return" /\ lRet < 0 /\ kmpcnt > 0
    /\ Go(MOVE)
    /\ kmpcnt' = kmpcnt - 1
    /\ pc' = "call"
    /\ UNCHANGED <<buf, pattern, from, finds, kmp, lRet, failed>>

GiveUp ==
    /\ pc = "return" /\ lRet < 0 /\ kmpcnt = 0
    /\ pc' = "KMP_ERROR"
    /\ UNCHANGED <<buf, pattern, search, kmp, lRet, failed>>

\* Mutation: the read pointer is moved by a sample that is only begun.
FoundRoundedUp ==
    /\ pc = "return" /\ lRet >= 0
    /\ psCDBuff' = psCDBuff + lRet
    /\ passed' = passed + (lRet + SAMPLE - 1) \div SAMPLE
    /\ finds' = finds + 1
    /\ pc' = "found"
    /\ UNCHANGED <<buf, pattern, kmpcnt, from, kmp, lRet, failed>>

Found ==
    /\ pc = "return" /\ lRet >= 0
    /\ Go(lRet)
    /\ finds' = finds + 1
    /\ pc' = "found"
    /\ UNCHANGED <<buf, pattern, kmpcnt, from, kmp, lRet, failed>>

\* The search for the next header starts MOVE bytes on when the frame is not
\* used, one frame on when its sector was taken, or just before the frame d
\* further on when that is the one looked for.  kmpcnt keeps its value.
Distances == {MOVE, SRC_LEN} \cup {d * SRC_LEN - MOVE_SIZE : d \in 1 .. SEEK_POSITION}

GoOn ==
    /\ pc = "found" /\ pc' = "call"
    /\ \E n \in Distances : InBuffer(n) /\ Go(n)
    /\ from' = psCDBuff'
    /\ failed' = FALSE
    /\ UNCHANGED <<buf, pattern, kmpcnt, finds, kmp, lRet>>
-----------------------------------------------------------------------------
CD_KmpPatternSearch ==
    \/ Alloc \/ AllocFails
    \/ BuildMatch \/ BuildFall \/ BuildZero \/ BuildEnd
    \/ ScanMatch \/ ScanFound \/ ScanFall \/ ScanSkip \/ ScanEnd

Search == CD_KmpPatternSearch \/ Miss \/ GiveUp \/ Found

Next == Search \/ GoOn

Spec == Init /\ [][Next]_vars

\* The search is a loop of one thread: it goes on as long as it can.
FairSpec == Spec /\ WF_vars(Search)
-----------------------------------------------------------------------------
TypeOK ==
    /\ buf \in Buffers /\ pattern \in Patterns
    /\ psCDBuff \in Nat /\ passed \in Nat /\ kmpcnt \in 0 .. KMP_RETRY
    /\ pc \in {"call", "build", "scan", "return", "found", "KMP_ERROR"}
    /\ i \in Nat /\ matches \in 0 .. Len(pattern)
    /\ kmpNext \in Seq(Nat) /\ Len(kmpNext) <= TABLE
    /\ lRet \in -1 .. SRC_LEN - 1
    /\ from \in 0 .. psCDBuff /\ finds \in Nat /\ failed \in BOOLEAN

\* The pattern is in the chunk buffer at byte k.
Occurs(k) ==
    /\ k + Len(pattern) <= Len(buf)
    /\ \A j \in 1 .. Len(pattern) : buf[k + j] = pattern[j]

\* The first b elements of p are also the last b of its first n.
Border(p, n, b) == b < n /\ \A j \in 1 .. b : p[j] = p[n - b + j]
LongestBorder(p, n, b) == Border(p, n, b) /\ \A c \in b + 1 .. n - 1 : ~Border(p, n, c)

\* "find pattern(compare buffer) using kmp algorithm" (cdif_api.c:592): when
\* the scan starts, the table holds the longest border of every prefix of the
\* pattern, on which it relies for skipping nothing and finding the first.
TableRight == pc = "scan" => \A n \in 1 .. Len(pattern) : LongestBorder(pattern, n, kmpNext[n])

\* A header that is found is one, and it is the first since the search for it
\* began, over all the moves after misses -- unless a table could not be
\* allocated, which is taken for a miss.
FirstHeader ==
    pc = "found" => /\ Occurs(psCDBuff)
                    /\ ~failed => \A k \in from .. psCDBuff - 1 : ~Occurs(k)

\* KMP_ERROR means that there is no header in anything that was looked at, not
\* even across the end of one call's bytes.
NothingMissed ==
    pc = "KMP_ERROR" /\ ~failed =>
        \A k \in from .. psCDBuff + SRC_LEN - Len(pattern) : ~Occurs(k)

\* The read pointer of the ring is never ahead of the search, and falls behind
\* it by less than a sample for each header found (the bytes that
\* "res >> 2" drops): what it passes has been looked at, and the next read
\* finds the following header.
RingFollows == psCDBuff - passed * SAMPLE \in 0 .. (SAMPLE - 1) * finds

\* Every search for a header ends: neither the fall back in the table nor the
\* moves after a miss go on for ever.
SearchEnds == []<>(pc \in {"found", "KMP_ERROR"})
=============================================================================
