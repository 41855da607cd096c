------------------------- MODULE HeaderSearchProofs -------------------------
(***************************************************************************)
(* The header search is right for every pattern, every buffer and every    *)
(* window: CD_KmpPatternSearch finds the first occurrence, and the moves   *)
(* between its calls leave nothing out.                                    *)
(***************************************************************************)
EXTENDS HeaderSearch, TLAPS

-----------------------------------------------------------------------------
(* Borders.                                                                *)

\* A border grows by one when the elements behind the two copies agree.
LEMMA BorderExtends ==
    ASSUME NEW p, NEW n \in Nat, NEW b \in Nat, Border(p, n, b), p[n + 1] = p[b + 1]
    PROVE  Border(p, n + 1, b + 1)
<1>1. ASSUME NEW j \in 1 .. b + 1 PROVE p[j] = p[(n + 1) - (b + 1) + j]
  <2>1. CASE j = b + 1  BY <2>1
  <2>2. CASE j \in 1 .. b
    <3>1. p[j] = p[n - b + j]  BY <2>2 DEF Border
    <3>2. n - b + j = (n + 1) - (b + 1) + j  OBVIOUS
    <3>. QED  BY <3>1, <3>2
  <2>. QED  BY <2>1, <2>2
<1>. QED  BY <1>1 DEF Border

\* And shrinks by one.
LEMMA BorderShrinks ==
    ASSUME NEW p, NEW n \in Nat, NEW c \in Nat \ {0}, Border(p, n + 1, c)
    PROVE  Border(p, n, c - 1) /\ p[n + 1] = p[(c - 1) + 1]
<1>1. ASSUME NEW j \in 1 .. c - 1 PROVE p[j] = p[n - (c - 1) + j]
  <2>1. p[j] = p[(n + 1) - c + j]  BY DEF Border
  <2>2. (n + 1) - c + j = n - (c - 1) + j  OBVIOUS
  <2>. QED  BY <2>1, <2>2
<1>2. p[c] = p[(n + 1) - c + c]  BY DEF Border
<1>3. (n + 1) - c + c = n + 1 /\ (c - 1) + 1 = c  OBVIOUS
<1>4. c - 1 < n  BY DEF Border
<1>. QED  BY <1>1, <1>2, <1>3, <1>4 DEF Border

\* A border of a border is a border ...
LEMMA BorderOfBorder ==
    ASSUME NEW p, NEW n \in Nat, NEW b \in Nat, NEW c \in Nat, Border(p, n, b), Border(p, b, c)
    PROVE  Border(p, n, c)
<1>1. ASSUME NEW j \in 1 .. c PROVE p[j] = p[n - c + j]
  <2>1. p[j] = p[b - c + j]  BY DEF Border
  <2>2. b - c + j \in 1 .. b  BY DEF Border
  <2>3. p[b - c + j] = p[n - b + (b - c + j)]  BY <2>2 DEF Border
  <2>4. n - b + (b - c + j) = n - c + j  OBVIOUS
  <2>. QED  BY <2>1, <2>3, <2>4
<1>. QED  BY <1>1 DEF Border

\* ... and of two borders the shorter is a border of the longer.
LEMMA BorderNested ==
    ASSUME NEW p, NEW n \in Nat, NEW b \in Nat, NEW c \in Nat, c < b,
           Border(p, n, b), Border(p, n, c)
    PROVE  Border(p, b, c)
<1>1. ASSUME NEW j \in 1 .. c PROVE p[j] = p[b - c + j]
  <2>1. p[j] = p[n - c + j]  BY DEF Border
  <2>2. b - c + j \in 1 .. b  OBVIOUS
  <2>3. p[b - c + j] = p[n - b + (b - c + j)]  BY <2>2 DEF Border
  <2>4. n - b + (b - c + j) = n - c + j  OBVIOUS
  <2>. QED  BY <2>1, <2>3, <2>4
<1>. QED  BY <1>1 DEF Border

-----------------------------------------------------------------------------
(* One turn of the loop that builds the table.                             *)

\* No border of the next prefix is longer than m by more than one.
AtMost(p, n, m) == \A c \in 0 .. n : Border(p, n + 1, c) => c <= m + 1

LEMMA GrowStep ==
    ASSUME NEW p, NEW n \in Nat, NEW m \in Nat, Border(p, n, m), AtMost(p, n, m),
           p[n + 1] = p[m + 1]
    PROVE  LongestBorder(p, n + 1, m + 1) /\ AtMost(p, n + 1, m + 1)
<1>1. Border(p, n + 1, m + 1)  BY BorderExtends
<1>2. ASSUME NEW c \in 0 .. n, Border(p, n + 1, c) PROVE c <= m + 1  BY <1>2 DEF AtMost
<1>3. LongestBorder(p, n + 1, m + 1)
  <2>1. ASSUME NEW c \in m + 2 .. n PROVE ~Border(p, n + 1, c)  BY <1>2
  <2>. QED  BY <1>1, <2>1 DEF LongestBorder
<1>4. ASSUME NEW c \in 0 .. n + 1, Border(p, n + 1 + 1, c) PROVE c <= m + 2
  <2>1. CASE c = 0  BY <2>1
  <2>2. CASE c # 0
    <3>1. Border(p, n + 1, c - 1)  BY <1>4, <2>2, BorderShrinks
    <3>. QED  BY <1>2, <2>2, <3>1
  <2>. QED  BY <2>1, <2>2
<1>. QED  BY <1>3, <1>4 DEF AtMost

LEMMA FallStep ==
    ASSUME NEW p, NEW n \in Nat, NEW m \in Nat \ {0}, NEW f \in Nat, Border(p, n, m),
           AtMost(p, n, m), p[n + 1] # p[m + 1], LongestBorder(p, m, f)
    PROVE  Border(p, n, f) /\ AtMost(p, n, f)
<1>1. Border(p, n, f)  BY BorderOfBorder DEF LongestBorder
<1>2. ASSUME NEW c \in 0 .. n, Border(p, n + 1, c), c > f + 1 PROVE FALSE
  <2>1. c \in Nat \ {0} /\ c <= m + 1  BY <1>2 DEF AtMost
  <2>2. Border(p, n, c - 1) /\ p[n + 1] = p[(c - 1) + 1]  BY <1>2, <2>1, BorderShrinks
  <2>3. c - 1 # m  BY <2>2
  <2>4. c - 1 \in f + 1 .. m - 1  BY <1>2, <2>1, <2>3
  <2>5. Border(p, m, c - 1)  BY <2>1, <2>2, <2>4, BorderNested
  <2>. QED  BY <2>4, <2>5 DEF LongestBorder
<1>. QED  BY <1>1, <1>2 DEF AtMost

LEMMA ZeroStep ==
    ASSUME NEW p, NEW n \in Nat \ {0}, AtMost(p, n, 0), p[n + 1] # p[0 + 1]
    PROVE  LongestBorder(p, n + 1, 0) /\ AtMost(p, n + 1, 0)
<1>1. ASSUME NEW c \in 1 .. n, Border(p, n + 1, c) PROVE FALSE
  <2>1. c = 1  BY <1>1 DEF AtMost
  <2>. QED  BY <1>1, <2>1, BorderShrinks
<1>2. LongestBorder(p, n + 1, 0)  BY <1>1 DEF LongestBorder, Border
<1>3. ASSUME NEW c \in 0 .. n + 1, Border(p, n + 1 + 1, c), c > 1 PROVE FALSE
  <2>1. Border(p, n + 1, c - 1)  BY <1>3, BorderShrinks
  <2>. QED  BY <1>1, <1>3, <2>1
<1>. QED  BY <1>2, <1>3 DEF AtMost
-----------------------------------------------------------------------------
(* One turn of the loop that scans.                                        *)

\* The first m elements of p are the last m of the first e of s.
Matched(s, e, p, m) == \A j \in 1 .. m : s[e - m + j] = p[j]

LEMMA MatchGrows ==
    ASSUME NEW s, NEW p, NEW e \in Nat, NEW m \in Nat, Matched(s, e, p, m), s[e + 1] = p[m + 1]
    PROVE  Matched(s, e + 1, p, m + 1)
<1>1. ASSUME NEW j \in 1 .. m + 1 PROVE s[(e + 1) - (m + 1) + j] = p[j]
  <2>1. (e + 1) - (m + 1) + j = e - m + j  OBVIOUS
  <2>2. CASE j = m + 1
    <3>1. e - m + j = e + 1  BY <2>2
    <3>. QED  BY <2>1, <2>2, <3>1
  <2>3. CASE j \in 1 .. m  BY <2>1, <2>3 DEF Matched
  <2>. QED  BY <2>2, <2>3
<1>. QED  BY <1>1 DEF Matched

\* After a mismatch the longest border of the match is a match ...
LEMMA MatchFalls ==
    ASSUME NEW s, NEW p, NEW e \in Nat, NEW m \in Nat, NEW f \in Nat,
           Matched(s, e, p, m), Border(p, m, f)
    PROVE  Matched(s, e, p, f)
<1>1. ASSUME NEW j \in 1 .. f PROVE s[e - f + j] = p[j]
  <2>1. p[j] = p[m - f + j]  BY DEF Border
  <2>2. m - f + j \in 1 .. m  BY DEF Border
  <2>3. s[e - m + (m - f + j)] = p[m - f + j]  BY <2>2 DEF Matched
  <2>4. e - m + (m - f + j) = e - f + j  OBVIOUS
  <2>. QED  BY <2>1, <2>3, <2>4
<1>. QED  BY <1>1 DEF Matched

\* ... and the pattern starts nowhere between the two.
StartsAt(s, k, p, l) == \A j \in 1 .. l : s[k + j] = p[j]

LEMMA FallSkipsNothing ==
    ASSUME NEW s, NEW p, NEW e \in Nat, NEW m \in Nat, NEW f \in Nat, NEW l \in Nat,
           Matched(s, e, p, m), m < l, s[e + 1] # p[m + 1], LongestBorder(p, m, f),
           NEW k \in e - m .. e - f - 1
    PROVE  ~StartsAt(s, k, p, l)
<1>. SUFFICES ASSUME \A j \in 1 .. l : s[k + j] = p[j] PROVE FALSE
  BY DEF StartsAt
<1>1. CASE k = e - m
  <2>1. m + 1 \in 1 .. l /\ k + (m + 1) = e + 1  BY <1>1
  <2>. QED  BY <2>1
<1>2. CASE k > e - m
  <2>1. PICK c \in f + 1 .. m - 1 : k = e - c
    <3>1. e - k \in f + 1 .. m - 1 /\ k = e - (e - k)  BY <1>2
    <3>. QED  BY <3>1
  <2>2. ASSUME NEW j \in 1 .. c PROVE p[j] = p[m - c + j]
    <3>1. s[k + j] = p[j]  OBVIOUS
    <3>2. m - c + j \in 1 .. m  OBVIOUS
    <3>3. s[e - m + (m - c + j)] = p[m - c + j]  BY <3>2 DEF Matched
    <3>4. e - m + (m - c + j) = k + j  BY <2>1
    <3>. QED  BY <3>1, <3>3, <3>4
  <2>3. Border(p, m, c)  BY <2>2 DEF Border
  <2>. QED  BY <2>3 DEF LongestBorder
<1>. QED  BY <1>1, <1>2

-----------------------------------------------------------------------------
(* The inductive invariant.                                                *)

Table(l) == Len(kmpNext) = l /\ \A n \in 1 .. l : LongestBorder(pattern, n, kmpNext[n])

BuildInv ==
    pc = "build" => /\ i \in 1 .. Len(pattern) /\ lRet = -1
                    /\ Table(i)
                    /\ Border(pattern, i, matches) /\ AtMost(pattern, i, matches)

\* What was scanned ends with a match, and the pattern starts nowhere before it.
ScanInv ==
    pc = "scan" => /\ i <= SRC_LEN /\ matches <= i /\ matches < Len(pattern) /\ lRet = -1
                   /\ Table(Len(pattern))
                   /\ Matched(buf, psCDBuff + i, pattern, matches)
                   /\ \A k \in psCDBuff .. psCDBuff + i - matches - 1 : ~Occurs(k)

ReturnInv ==
    pc = "return" =>
        /\ lRet < 0 /\ ~failed =>
              \A k \in psCDBuff .. psCDBuff + SRC_LEN - Len(pattern) : ~Occurs(k)
        /\ lRet >= 0 => /\ Occurs(psCDBuff + lRet)
                        /\ \A k \in psCDBuff .. psCDBuff + lRet - 1 : ~Occurs(k)

\* What the search for this header has left behind holds none.
Behind == ~failed => \A k \in from .. psCDBuff - 1 : ~Occurs(k)

Room == pc \notin {"found", "KMP_ERROR"} => InBuffer(0)

FoundInv == pc = "found" => Occurs(psCDBuff)

HeaderInv ==
    /\ TypeOK /\ BuildInv /\ ScanInv /\ ReturnInv
    /\ Behind /\ Room /\ FoundInv /\ NothingMissed /\ RingFollows

USE DEF SAMPLE

LEMMA SizeFacts ==
    /\ KMP_RETRY \in Nat /\ TABLE \in Nat /\ SEEK_POSITION \in Nat
    /\ SRC_LEN \in Nat /\ MOVE \in Nat /\ MOVE_SIZE \in 0 .. SRC_LEN
    /\ SRC_LEN % 4 = 0 /\ MOVE % 4 = 0 /\ MOVE_SIZE % 4 = 0
BY SizeAssumption DEF SizeAssumption

LEMMA PatternFacts ==
    ASSUME TypeOK
    PROVE  /\ pattern \in Seq(Nat) /\ Len(pattern) \in Nat \ {0} /\ Len(pattern) <= TABLE
           /\ MOVE + Len(pattern) <= SRC_LEN + 1
           /\ Len(buf) \in Nat
BY PatternAssumption, OverlapAssumption, BufferAssumption
   DEF TypeOK, PatternAssumption, OverlapAssumption, BufferAssumption

\* A miss leaves room for one miss less.
LEMMA OneMissLess ==
    ASSUME NEW n \in Nat, n > 0 PROVE (n - 1) * MOVE + MOVE = n * MOVE /\ n * MOVE \in Nat
BY SizeFacts

LEMMA TableGrows ==
    ASSUME NEW p, NEW t \in Seq(Nat), NEW e \in Nat,
           \A n \in 1 .. Len(t) : LongestBorder(p, n, t[n]),
           LongestBorder(p, Len(t) + 1, e)
    PROVE  /\ Append(t, e) \in Seq(Nat) /\ Len(Append(t, e)) = Len(t) + 1
           /\ \A n \in 1 .. Len(t) + 1 : LongestBorder(p, n, Append(t, e)[n])
<1>1. Append(t, e)[Len(t) + 1] = e  OBVIOUS
<1>2. ASSUME NEW n \in 1 .. Len(t) PROVE LongestBorder(p, n, Append(t, e)[n])
  <2>1. Append(t, e)[n] = t[n]  OBVIOUS
  <2>. QED  BY <2>1
<1>. QED  BY <1>1, <1>2

LEMMA InitInv == Init => HeaderInv
<1>. SUFFICES ASSUME Init PROVE HeaderInv
  OBVIOUS
<1>1. TypeOK
  <2>1. pattern \in Seq(Nat) /\ Len(pattern) \in Nat
    BY PatternAssumption DEF Init, PatternAssumption
  <2>2. failed \in BOOLEAN  BY DEF Init
  <2>3. kmpNext \in Seq(Nat) /\ Len(kmpNext) = 0  BY DEF Init
  <2>. QED  BY <2>1, <2>2, <2>3, SizeFacts DEF Init, TypeOK
<1>2. Room  BY SizeFacts, BufferAssumption, PatternFacts, <1>1 DEF Init, Room, InBuffer, BufferAssumption
<1>3. Behind  BY DEF Init, Behind
<1>. QED  BY <1>1, <1>2, <1>3
         DEF Init, HeaderInv, BuildInv, ScanInv, ReturnInv, FoundInv, NothingMissed, RingFollows
-----------------------------------------------------------------------------
(* The steps of CD_KmpPatternSearch.                                       *)

\* The table: the actions of the building loop.
LEMMA BuildSteps ==
    ASSUME HeaderInv, BuildMatch \/ BuildFall \/ BuildZero
    PROVE  HeaderInv'
<1>. USE DEF HeaderInv
<1>0. /\ UNCHANGED <<buf, pattern, search, pc, lRet, failed>>
      /\ pc = "build" /\ i < Len(pattern)
  BY DEF BuildMatch, BuildFall, BuildZero, Building
<1>1. /\ pattern \in Seq(Nat) /\ Len(pattern) \in Nat \ {0} /\ Len(pattern) <= TABLE
      /\ i \in Nat \ {0} /\ matches \in Nat /\ matches < i /\ kmpNext \in Seq(Nat)
      /\ Len(kmpNext) = i /\ \A n \in 1 .. i : LongestBorder(pattern, n, kmpNext[n])
      /\ Border(pattern, i, matches) /\ AtMost(pattern, i, matches)
  BY <1>0, PatternFacts DEF TypeOK, BuildInv, Table, Border
<1>n. /\ i \in Nat \ {0} /\ matches \in Nat /\ matches < i
      /\ i < Len(pattern) /\ Len(pattern) \in Nat /\ pattern' = pattern
  BY <1>0, <1>1
<1>2. /\ i' \in 1 .. Len(pattern) /\ matches' \in 0 .. Len(pattern)
      /\ kmpNext' \in Seq(Nat) /\ Table(i)'
      /\ Border(pattern, i', matches') /\ AtMost(pattern, i', matches')
  <2>1. CASE BuildMatch
    <3>1. /\ pattern[i + 1] = pattern[matches + 1]
          /\ matches' = matches + 1 /\ i' = i + 1 /\ kmpNext' = Append(kmpNext, matches + 1)
      BY <2>1 DEF BuildMatch, Fits
    <3>2. LongestBorder(pattern, i + 1, matches + 1) /\ AtMost(pattern, i + 1, matches + 1)
      BY <1>1, <3>1, GrowStep
    <3>3. Table(i)' /\ kmpNext' \in Seq(Nat)
      <4>1. LongestBorder(pattern, Len(kmpNext) + 1, matches + 1) /\ matches + 1 \in Nat
        BY <1>1, <3>2
      <4>2. \A n \in 1 .. Len(kmpNext) : LongestBorder(pattern, n, kmpNext[n])  BY <1>1
      <4>3. /\ kmpNext' \in Seq(Nat) /\ Len(kmpNext') = i'
            /\ \A n \in 1 .. i' : LongestBorder(pattern, n, kmpNext'[n])
        BY <1>1, <3>1, <4>1, <4>2, TableGrows
      <4>. QED  BY <1>0, <4>3 DEF Table
    <3>4. i' \in 1 .. Len(pattern) /\ matches' \in 0 .. Len(pattern)  BY <1>n, <3>1
    <3>. QED  BY <3>1, <3>2, <3>3, <3>4 DEF LongestBorder
  <2>2. CASE BuildFall
    <3>1. /\ pattern[i + 1] # pattern[matches + 1] /\ matches > 0
          /\ matches' = kmpNext[matches] /\ i' = i /\ kmpNext' = kmpNext
      BY <2>2 DEF BuildFall, Fits
    <3>2. LongestBorder(pattern, matches, kmpNext[matches]) /\ kmpNext[matches] \in Nat
      <4>1. matches \in 1 .. i  BY <1>1, <3>1
      <4>2. kmpNext[matches] \in Nat  BY <1>1, <4>1
      <4>. QED  BY <1>1, <4>1, <4>2
    <3>3. Border(pattern, i, matches') /\ AtMost(pattern, i, matches')
      BY <1>1, <3>1, <3>2, FallStep
    <3>4. matches' < matches  BY <3>1, <3>2 DEF LongestBorder, Border
    <3>5. Table(i)'  BY <1>0, <1>1, <3>1 DEF Table
    <3>6. i' \in 1 .. Len(pattern) /\ matches' \in 0 .. Len(pattern)
      BY <1>n, <3>1, <3>2, <3>4
    <3>. QED  BY <1>1, <3>1, <3>3, <3>5, <3>6
  <2>3. CASE BuildZero
    <3>1. /\ pattern[i + 1] # pattern[0 + 1] /\ matches = 0
          /\ matches' = 0 /\ i' = i + 1 /\ kmpNext' = Append(kmpNext, 0)
      BY <2>3 DEF BuildZero, Fits
    <3>2. LongestBorder(pattern, i + 1, 0) /\ AtMost(pattern, i + 1, 0)
      BY <1>1, <3>1, ZeroStep
    <3>3. Table(i)' /\ kmpNext' \in Seq(Nat)
      <4>1. LongestBorder(pattern, Len(kmpNext) + 1, 0) /\ 0 \in Nat
        BY <1>1, <3>2
      <4>2. \A n \in 1 .. Len(kmpNext) : LongestBorder(pattern, n, kmpNext[n])  BY <1>1
      <4>3. /\ kmpNext' \in Seq(Nat) /\ Len(kmpNext') = i'
            /\ \A n \in 1 .. i' : LongestBorder(pattern, n, kmpNext'[n])
        BY <1>1, <3>1, <4>1, <4>2, TableGrows
      <4>. QED  BY <1>0, <4>3 DEF Table
    <3>4. i' \in 1 .. Len(pattern) /\ matches' \in 0 .. Len(pattern)  BY <1>n, <3>1
    <3>. QED  BY <3>1, <3>2, <3>3, <3>4 DEF LongestBorder
  <2>. QED  BY <2>1, <2>2, <2>3
<1>3. TypeOK'
  <2>1. failed' \in BOOLEAN  BY <1>0 DEF TypeOK
  <2>2. /\ buf' = buf /\ pattern' = pattern /\ psCDBuff' = psCDBuff /\ passed' = passed
        /\ kmpcnt' = kmpcnt /\ pc' = pc /\ lRet' = lRet /\ from' = from /\ finds' = finds
    BY <1>0 DEF search
  <2>3. Len(kmpNext') <= TABLE  BY <1>1, <1>2, <2>2, SizeFacts DEF Table
  <2>. QED  BY <1>1, <1>2, <2>1, <2>2, <2>3 DEF TypeOK
<1>4. BuildInv'  BY <1>0, <1>2 DEF BuildInv
<1>. QED  BY <1>0, <1>3, <1>4
         DEF search, ScanInv, ReturnInv, Behind, Room, InBuffer, Occurs, FoundInv, NothingMissed, RingFollows

\* What every step of CD_KmpPatternSearch leaves alone.
Quiet == UNCHANGED <<buf, pattern, psCDBuff, passed, kmpcnt, from, finds>>

LEMMA QuietSteps == CD_KmpPatternSearch => Quiet
BY DEF CD_KmpPatternSearch, Quiet, search, Alloc, AllocFails, BuildMatch, BuildFall, BuildZero,
       BuildEnd, ScanMatch, ScanFound, ScanFall, ScanSkip, ScanEnd

\* The pattern starts where it did.
LEMMA SamePlaces == Quiet => \A k : Occurs(k)' <=> Occurs(k)
BY DEF Quiet, Occurs

\* The places before a match are those before a longer one and some more.
LEMMA RangeSplit ==
    ASSUME NEW a \in Nat, NEW e \in Nat, NEW m \in Nat, NEW f \in Nat, f < m,
           NEW k \in a .. a + e - f - 1
    PROVE  k \in a .. a + e - m - 1 \/ k \in (a + e) - m .. (a + e) - f - 1
OBVIOUS

\* The scan: the actions of its loop that go on.
LEMMA ScanSteps ==
    ASSUME HeaderInv, ScanMatch \/ ScanFall \/ ScanSkip
    PROVE  HeaderInv'
<1>. USE DEF HeaderInv
<1>0. /\ Quiet /\ UNCHANGED <<kmpNext, pc, lRet, failed>>
      /\ pc = "scan" /\ i < SRC_LEN
  BY DEF ScanMatch, ScanFall, ScanSkip, Scanning, Quiet, search
<1>1. /\ pattern \in Seq(Nat) /\ Len(pattern) \in Nat \ {0} /\ SRC_LEN \in Nat
      /\ i \in Nat /\ matches \in Nat /\ matches < Len(pattern) /\ matches <= i
      /\ psCDBuff \in Nat /\ kmpNext \in Seq(Nat) /\ Table(Len(pattern))
      /\ Matched(buf, psCDBuff + i, pattern, matches)
      /\ \A k \in psCDBuff .. psCDBuff + i - matches - 1 : ~Occurs(k)
  BY <1>0, PatternFacts, SizeFacts DEF TypeOK, ScanInv
<1>n. /\ i \in Nat /\ matches \in Nat /\ matches <= i /\ matches < Len(pattern)
      /\ i < SRC_LEN /\ SRC_LEN \in Nat /\ Len(pattern) \in Nat /\ psCDBuff \in Nat
  BY <1>0, <1>1
<1>2. Byte(i) = buf[(psCDBuff + i) + 1]
  BY DEF Byte
<1>3. /\ i' \in Nat /\ matches' \in Nat
      /\ i' <= SRC_LEN /\ matches' <= i' /\ matches' < Len(pattern)
      /\ Matched(buf, psCDBuff + i', pattern, matches')
      /\ \A k \in psCDBuff .. psCDBuff + i' - matches' - 1 : ~Occurs(k)
  <2>1. CASE ScanMatch
    <3>1. /\ buf[(psCDBuff + i) + 1] = pattern[matches + 1] /\ matches + 1 < Len(pattern)
          /\ matches' = matches + 1 /\ i' = i + 1
      BY <1>2, <2>1 DEF ScanMatch, Hit
    <3>2. Matched(buf, (psCDBuff + i) + 1, pattern, matches + 1)
      BY <1>1, <3>1, MatchGrows
    <3>3. psCDBuff + i' = (psCDBuff + i) + 1
          /\ psCDBuff + i' - matches' - 1 = psCDBuff + i - matches - 1
      BY <1>n, <3>1
    <3>4. Matched(buf, psCDBuff + i', pattern, matches')  BY <3>1, <3>2, <3>3
    <3>5. \A k \in psCDBuff .. psCDBuff + i' - matches' - 1 : ~Occurs(k)  BY <1>1, <3>3
    <3>6. i' \in Nat /\ matches' \in Nat /\ i' <= SRC_LEN /\ matches' <= i' /\ matches' < Len(pattern)
      BY <1>n, <3>1
    <3>. QED  BY <3>4, <3>5, <3>6
  <2>2. CASE ScanFall
    <3>1. /\ buf[(psCDBuff + i) + 1] # pattern[matches + 1] /\ matches > 0
          /\ matches' = kmpNext[matches] /\ i' = i
      BY <1>2, <2>2 DEF ScanFall, Hit
    <3>2. matches \in 1 .. Len(pattern)  BY <1>n, <3>1
    <3>3. LongestBorder(pattern, matches, matches') /\ matches' \in Nat /\ matches' < matches
      <4>1. LongestBorder(pattern, matches, matches')  BY <1>1, <3>1, <3>2 DEF Table
      <4>2. kmpNext[matches] \in Nat  BY <1>1, <3>2 DEF Table
      <4>. QED  BY <3>1, <4>1, <4>2 DEF LongestBorder, Border
    <3>4. Matched(buf, psCDBuff + i, pattern, matches')
      BY <1>1, <3>3, MatchFalls DEF LongestBorder
    <3>5. ASSUME NEW k \in psCDBuff .. psCDBuff + i' - matches' - 1 PROVE ~Occurs(k)
      <4>1. CASE k \in psCDBuff .. psCDBuff + i - matches - 1  BY <1>1, <4>1
      <4>2. CASE k \in (psCDBuff + i) - matches .. (psCDBuff + i) - matches' - 1
        <5>1. Occurs(k) => StartsAt(buf, k, pattern, Len(pattern))  BY DEF Occurs, StartsAt
        <5>2. psCDBuff + i \in Nat /\ Len(pattern) \in Nat  BY <1>1
        <5>3. PICK e \in Nat : e = psCDBuff + i  BY <5>2
        <5>4. /\ Matched(buf, e, pattern, matches) /\ buf[e + 1] # pattern[matches + 1]
              /\ k \in e - matches .. e - matches' - 1
          BY <1>1, <3>1, <4>2, <5>3
        <5>5. matches \in Nat /\ matches < Len(pattern)  BY <1>1
        <5>. QED  BY <3>3, <5>1, <5>2, <5>4, <5>5, FallSkipsNothing
      <4>3. /\ psCDBuff \in Nat /\ i \in Nat /\ matches \in Nat /\ matches' \in Nat
            /\ matches' < matches /\ i' = i
        BY <1>n, <3>1, <3>3
      <4>4. \/ k \in psCDBuff .. psCDBuff + i - matches - 1
            \/ k \in (psCDBuff + i) - matches .. (psCDBuff + i) - matches' - 1
        <5>1. k \in psCDBuff .. psCDBuff + i - matches' - 1  BY <4>3
        <5>. QED  BY <4>3, <5>1, RangeSplit
      <4>. QED  BY <4>1, <4>2, <4>4
    <3>6. i' \in Nat /\ i' <= SRC_LEN /\ matches' <= i' /\ matches' < Len(pattern)
      BY <1>n, <3>1, <3>3
    <3>7. Matched(buf, psCDBuff + i', pattern, matches')  BY <3>1, <3>4
    <3>. QED  BY <3>3, <3>5, <3>6, <3>7
  <2>3. CASE ScanSkip
    <3>1. /\ buf[(psCDBuff + i) + 1] # pattern[0 + 1] /\ matches = 0
          /\ matches' = 0 /\ i' = i + 1
      BY <1>2, <2>3 DEF ScanSkip, Hit
    <3>2. ~Occurs(psCDBuff + i)
      <4>1. 1 \in 1 .. Len(pattern)  BY <1>n
      <4>. QED  BY <3>1, <4>1 DEF Occurs
    <3>3. ASSUME NEW k \in psCDBuff .. psCDBuff + i' - matches' - 1 PROVE ~Occurs(k)
      <4>1. CASE k = psCDBuff + i  BY <3>2, <4>1
      <4>2. CASE k # psCDBuff + i
        <5>1. psCDBuff \in Nat /\ i \in Nat /\ matches = 0 /\ matches' = 0 /\ i' = i + 1
          BY <1>n, <3>1
        <5>2. k \in psCDBuff .. psCDBuff + i - matches - 1  BY <4>2, <5>1
        <5>. QED  BY <1>1, <5>2
      <4>. QED  BY <4>1, <4>2
    <3>4. Matched(buf, psCDBuff + i', pattern, 0)  BY DEF Matched
    <3>5. /\ i' \in Nat /\ i' <= SRC_LEN /\ matches' <= i' /\ matches' < Len(pattern)
          /\ matches' \in Nat
      BY <1>n, <3>1
    <3>6. Matched(buf, psCDBuff + i', pattern, matches')  BY <3>1, <3>4
    <3>. QED  BY <3>3, <3>5, <3>6
  <2>. QED  BY <2>1, <2>2, <2>3
<1>4. TypeOK'
  <2>1. failed' \in BOOLEAN  BY <1>0 DEF TypeOK
  <2>. QED  BY <1>0, <1>1, <1>3, <2>1 DEF TypeOK, Quiet
<1>5. ScanInv'
  <2>1. \A k : Occurs(k)' <=> Occurs(k)  BY <1>0, SamePlaces
  <2>2. Table(Len(pattern))'  BY <1>0, <1>1 DEF Quiet, Table
  <2>3. lRet' = -1  BY <1>0 DEF ScanInv
  <2>. QED  BY <1>0, <1>3, <2>1, <2>2, <2>3 DEF ScanInv, Quiet
<1>. QED  BY <1>0, <1>4, <1>5
         DEF Quiet, BuildInv, ReturnInv, Behind, Room, InBuffer, Occurs, FoundInv, NothingMissed, RingFollows

\* The steps between the loops and those that end the call.
LEMMA CallSteps ==
    ASSUME HeaderInv, Alloc \/ AllocFails \/ BuildEnd \/ ScanFound \/ ScanEnd
    PROVE  HeaderInv'
<1>. USE DEF HeaderInv
<1>0. /\ Quiet /\ pc \in {"call", "build", "scan"} /\ (failed' = failed \/ failed' = TRUE)
      /\ pc' \in {"build", "scan", "return"}
  BY DEF Alloc, AllocFails, BuildEnd, ScanFound, ScanEnd, Scanning, Quiet, search
<1>1. /\ pattern \in Seq(Nat) /\ Len(pattern) \in Nat \ {0} /\ SRC_LEN \in Nat
      /\ TABLE \in Nat \ {0} /\ psCDBuff \in Nat /\ Len(pattern) <= TABLE
      /\ i \in Nat /\ matches \in Nat /\ kmpNext \in Seq(Nat)
  BY PatternFacts, SizeFacts DEF TypeOK
<1>2. \A k : Occurs(k)' <=> Occurs(k)  BY <1>0, SamePlaces
<1>3. psCDBuff' = psCDBuff /\ pattern' = pattern /\ buf' = buf  BY <1>0 DEF Quiet
<1>4. failed' \in BOOLEAN  BY <1>0 DEF TypeOK
<1>5. Behind' /\ Room' /\ RingFollows' /\ FoundInv' /\ NothingMissed'
  <2>1. Behind'  BY <1>0, <1>2 DEF Behind, Quiet
  <2>2. Room' /\ RingFollows'  BY <1>0 DEF Room, InBuffer, RingFollows, Quiet
  <2>. QED  BY <1>0, <2>1, <2>2 DEF FoundInv, NothingMissed
<1>6. CASE Alloc
  <2>1. pc' = "build" /\ i' = 1 /\ matches' = 0 /\ kmpNext' = <<0>> /\ lRet' = -1
    BY <1>6 DEF Alloc
  <2>2. Border(pattern, 1, 0)  BY DEF Border
  <2>3. LongestBorder(pattern, 1, 0)  BY <2>2 DEF LongestBorder
  <2>4. ASSUME NEW c \in 0 .. 1, Border(pattern, 1 + 1, c) PROVE c <= 0 + 1  OBVIOUS
  <2>5. AtMost(pattern, 1, 0)  BY <2>4 DEF AtMost
  <2>6. Table(i)'  BY <1>3, <2>1, <2>3 DEF Table
  <2>7. TypeOK'  BY <1>0, <1>1, <1>4, <2>1 DEF TypeOK, Quiet
  <2>8. BuildInv'  BY <1>1, <1>3, <2>1, <2>2, <2>5, <2>6 DEF BuildInv
  <2>. QED  BY <1>5, <2>1, <2>7, <2>8 DEF ScanInv, ReturnInv
<1>7. CASE AllocFails
  <2>1. pc' = "return" /\ lRet' = -1 /\ failed' = TRUE /\ UNCHANGED kmp
    BY <1>7 DEF AllocFails
  <2>2. TypeOK'  BY <1>0, <1>1, <1>4, <2>1 DEF TypeOK, Quiet, kmp
  <2>3. ReturnInv'  BY <2>1 DEF ReturnInv
  <2>. QED  BY <1>5, <2>1, <2>2, <2>3 DEF BuildInv, ScanInv
<1>8. CASE BuildEnd
  <2>1. /\ pc' = "scan" /\ i' = 0 /\ matches' = 0 /\ kmpNext' = kmpNext /\ lRet' = lRet
        /\ pc = "build" /\ i >= Len(pattern)
    BY <1>8 DEF BuildEnd
  <2>2. TypeOK'  BY <1>0, <1>1, <1>4, <2>1 DEF TypeOK, Quiet
  <2>3. i = Len(pattern) /\ Table(i) /\ lRet = -1  BY <1>1, <2>1 DEF BuildInv
  <2>4. Table(Len(pattern))'  BY <1>3, <2>1, <2>3 DEF Table
  <2>5. Matched(buf, psCDBuff + 0, pattern, 0)  BY DEF Matched
  <2>6. ScanInv'
    <3>1. psCDBuff .. psCDBuff + 0 - 0 - 1 = {}  BY <1>1
    <3>. QED  BY <1>1, <1>3, <2>1, <2>3, <2>4, <2>5, <3>1 DEF ScanInv
  <2>. QED  BY <1>5, <2>1, <2>2, <2>6 DEF BuildInv, ReturnInv
<1>9. CASE ScanFound
  <2>1. /\ pc' = "return" /\ lRet' = i + 1 - Len(pattern) /\ matches' = matches + 1
        /\ matches + 1 = Len(pattern) /\ i < SRC_LEN /\ pc = "scan"
        /\ i' = i /\ kmpNext' = kmpNext /\ buf[(psCDBuff + i) + 1] = pattern[matches + 1]
    BY <1>9 DEF ScanFound, Scanning, Hit, Byte
  <2>2. /\ matches <= i /\ Matched(buf, psCDBuff + i, pattern, matches)
        /\ \A k \in psCDBuff .. psCDBuff + i - matches - 1 : ~Occurs(k)
    BY <2>1 DEF ScanInv
  <2>3. lRet' \in 0 .. SRC_LEN - 1 /\ lRet' = i - matches
    <3>1. lRet' = i - matches
      <4>1. i \in Nat /\ matches \in Nat  BY <1>1
      <4>2. lRet' = i + 1 - (matches + 1)  BY <2>1
      <4>. QED  BY <4>1, <4>2
    <3>2. i \in Nat /\ matches \in Nat /\ SRC_LEN \in Nat /\ i < SRC_LEN /\ matches <= i
      BY <1>1, <2>1, <2>2
    <3>. QED  BY <3>1, <3>2
  <2>4. TypeOK'
    <3>1. /\ buf' = buf /\ pattern' = pattern /\ psCDBuff' = psCDBuff /\ passed' = passed
          /\ kmpcnt' = kmpcnt /\ from' = from /\ finds' = finds
      BY <1>0 DEF Quiet
    <3>2. matches' \in 0 .. Len(pattern) /\ lRet' \in -1 .. SRC_LEN - 1  BY <1>1, <2>1, <2>3
    <3>. QED  BY <1>1, <1>4, <2>1, <3>1, <3>2 DEF TypeOK
  <2>5. Occurs(psCDBuff + lRet')
    <3>1. Matched(buf, (psCDBuff + i) + 1, pattern, matches + 1)
      <4>1. psCDBuff + i \in Nat /\ matches \in Nat  BY <1>1
      <4>2. Matched(buf, psCDBuff + i, pattern, matches)  BY <2>2
      <4>3. buf[(psCDBuff + i) + 1] = pattern[matches + 1]  BY <2>1
      <4>. QED  BY <4>1, <4>2, <4>3, MatchGrows
    <3>2. (psCDBuff + i) + 1 - (matches + 1) = psCDBuff + lRet'
      <4>1. psCDBuff \in Nat /\ i \in Nat /\ matches \in Nat  BY <1>1
      <4>. QED  BY <2>3, <4>1
    <3>3. ASSUME NEW j \in 1 .. Len(pattern) PROVE buf[(psCDBuff + lRet') + j] = pattern[j]
      <4>1. j \in 1 .. matches + 1  BY <2>1
      <4>2. PICK e : e = (psCDBuff + i) + 1  OBVIOUS
      <4>3. PICK m : m = matches + 1  OBVIOUS
      <4>4. Matched(buf, e, pattern, m) /\ j \in 1 .. m  BY <3>1, <4>1, <4>2, <4>3
      <4>5. buf[e - m + j] = pattern[j]  BY <4>4 DEF Matched
      <4>6. e - m = psCDBuff + lRet'  BY <1>1, <2>3, <4>2, <4>3
      <4>. QED  BY <4>5, <4>6
    <3>4. psCDBuff + SRC_LEN <= Len(buf)
      <4>1. psCDBuff + 0 + kmpcnt * MOVE + SRC_LEN <= Len(buf)  BY <2>1 DEF Room, InBuffer
      <4>2. kmpcnt \in Nat /\ MOVE \in Nat  BY SizeFacts DEF TypeOK
      <4>3. kmpcnt * MOVE \in Nat  BY <4>2
      <4>4. Len(buf) \in Nat  BY PatternFacts
      <4>. QED  BY <1>1, <4>1, <4>3, <4>4
    <3>5. psCDBuff + lRet' + Len(pattern) <= Len(buf)  BY <1>1, <2>1, <3>4, PatternFacts
    <3>. QED  BY <3>3, <3>5 DEF Occurs
  <2>6. \A k \in psCDBuff .. psCDBuff + lRet' - 1 : ~Occurs(k)  BY <1>1, <2>2, <2>3
  <2>7. ReturnInv'  BY <1>2, <1>3, <2>1, <2>3, <2>5, <2>6 DEF ReturnInv
  <2>. QED  BY <1>5, <2>1, <2>4, <2>7 DEF BuildInv, ScanInv
<1>10. CASE ScanEnd
  <2>1. /\ pc' = "return" /\ lRet' = lRet /\ pc = "scan" /\ i >= SRC_LEN /\ UNCHANGED kmp
        /\ failed' = failed
    BY <1>10 DEF ScanEnd
  <2>2. TypeOK'  BY <1>0, <1>1, <1>4, <2>1 DEF TypeOK, Quiet, kmp
  <2>3. ASSUME NEW k \in psCDBuff .. psCDBuff + SRC_LEN - Len(pattern) PROVE ~Occurs(k)
    <3>1. k \in psCDBuff .. psCDBuff + i - matches - 1  BY <1>1, <2>1 DEF ScanInv
    <3>. QED  BY <2>1, <3>1 DEF ScanInv
  <2>4. lRet' = -1  BY <2>1 DEF ScanInv
  <2>5. ReturnInv'  BY <1>2, <1>3, <2>1, <2>3, <2>4 DEF ReturnInv
  <2>. QED  BY <1>5, <2>1, <2>2, <2>5 DEF BuildInv, ScanInv
<1>. QED  BY <1>6, <1>7, <1>8, <1>9, <1>10
-----------------------------------------------------------------------------
(* The steps of the caller, and the theorems.                              *)

\* KMP_RETRY * MOVE and the products like it are numbers.
LEMMA RoomFacts ==
    ASSUME HeaderInv
    PROVE  /\ psCDBuff \in Nat /\ passed \in Nat /\ kmpcnt \in Nat /\ finds \in Nat
           /\ from \in Nat /\ from <= psCDBuff
           /\ kmpcnt * MOVE \in Nat
<1>1. kmpcnt \in Nat /\ MOVE \in Nat  BY SizeFacts DEF HeaderInv, TypeOK
<1>2. kmpcnt * MOVE \in Nat  BY <1>1
<1>. QED  BY <1>1, <1>2 DEF HeaderInv, TypeOK

\* Whole samples keep the distance between the search and the read pointer.
LEMMA WholeSamples ==
    ASSUME NEW n \in Nat, n % 4 = 0 PROVE (n \div 4) * 4 = n /\ n \div 4 \in Nat
OBVIOUS

LEMMA MissStep == HeaderInv /\ Miss => HeaderInv'
<1>. SUFFICES ASSUME HeaderInv, Miss PROVE HeaderInv'
  OBVIOUS
<1>1. /\ pc = "return" /\ lRet < 0 /\ kmpcnt > 0 /\ kmpcnt' = kmpcnt - 1 /\ pc' = "call"
      /\ psCDBuff' = psCDBuff + MOVE /\ passed' = passed + MOVE \div 4
      /\ UNCHANGED <<buf, pattern, from, finds, i, matches, kmpNext, lRet, failed>>
  BY DEF Miss, Go, kmp
<1>2. MOVE \in Nat /\ MOVE \div 4 \in Nat /\ (MOVE \div 4) * 4 = MOVE /\ SRC_LEN \in Nat
  BY SizeFacts, WholeSamples
<1>3. failed' \in BOOLEAN  BY <1>1 DEF HeaderInv, TypeOK
<1>4. TypeOK'
  <2>1. kmpcnt' \in 0 .. KMP_RETRY /\ psCDBuff' \in Nat /\ passed' \in Nat /\ from' \in 0 .. psCDBuff'
    BY <1>1, <1>2, RoomFacts, SizeFacts DEF HeaderInv, TypeOK
  <2>2. pc' \in {"call", "build", "scan", "return", "found", "KMP_ERROR"}  BY <1>1
  <2>3. /\ UNCHANGED <<buf, pattern, finds, i, matches, kmpNext, lRet>>
        /\ TypeOK
    BY <1>1 DEF HeaderInv
  <2>. QED  BY <1>3, <2>1, <2>2, <2>3 DEF TypeOK
<1>5. Behind'
  <2>1. \A k : Occurs(k)' <=> Occurs(k)  BY <1>1 DEF Occurs
  <2>2. ASSUME ~failed, NEW k \in from .. psCDBuff + MOVE - 1 PROVE ~Occurs(k)
    <3>1. CASE k <= psCDBuff - 1
      <4>1. k \in from .. psCDBuff - 1  BY <3>1, RoomFacts
      <4>. QED  BY <2>2, <4>1 DEF HeaderInv, Behind
    <3>2. CASE k >= psCDBuff
      <4>1. MOVE + Len(pattern) <= SRC_LEN + 1 /\ Len(pattern) \in Nat
        BY PatternFacts DEF HeaderInv
      <4>2. k \in psCDBuff .. psCDBuff + SRC_LEN - Len(pattern)
        BY <1>2, <3>2, <4>1, RoomFacts
      <4>. QED  BY <1>1, <2>2, <4>2 DEF HeaderInv, ReturnInv
    <3>. QED  BY <3>1, <3>2, RoomFacts
  <2>3. from' = from /\ psCDBuff' = psCDBuff + MOVE  BY <1>1
  <2>4. ~failed' => ~failed  BY <1>1
  <2>5. ASSUME ~failed', NEW k \in from' .. psCDBuff' - 1 PROVE ~Occurs(k)'
    <3>1. k \in from .. psCDBuff + MOVE - 1  BY <1>2, <2>3, RoomFacts
    <3>2. ~Occurs(k)  BY <2>2, <2>4, <2>5, <3>1
    <3>. QED  BY <2>1, <3>2
  <2>. QED  BY <2>5 DEF Behind
<1>6. Room'
  <2>1. psCDBuff + 0 + kmpcnt * MOVE + SRC_LEN <= Len(buf)
    BY <1>1 DEF HeaderInv, Room, InBuffer
  <2>2. kmpcnt' * MOVE + MOVE = kmpcnt * MOVE /\ kmpcnt' * MOVE \in Nat
    <3>1. kmpcnt - 1 \in Nat  BY <1>1, RoomFacts
    <3>2. (kmpcnt - 1) * MOVE + MOVE = kmpcnt * MOVE  BY <1>1, RoomFacts, OneMissLess
    <3>3. (kmpcnt - 1) * MOVE \in Nat  BY <1>2, <3>1
    <3>. QED  BY <1>1, <3>2, <3>3
  <2>3. kmpcnt * MOVE \in Nat /\ psCDBuff \in Nat /\ Len(buf) \in Nat
    BY RoomFacts, PatternFacts DEF HeaderInv
  <2>4. PICK a \in Nat, b \in Nat : a = kmpcnt * MOVE /\ b = kmpcnt' * MOVE  BY <2>2, <2>3
  <2>5. b + MOVE = a /\ psCDBuff + 0 + a + SRC_LEN <= Len(buf)  BY <2>1, <2>2, <2>4
  <2>6. psCDBuff + MOVE + 0 + b + SRC_LEN <= Len(buf)  BY <1>2, <2>3, <2>5
  <2>. QED  BY <1>1, <2>4, <2>6 DEF Room, InBuffer
<1>7. RingFollows'
  <2>1. psCDBuff' - passed' * 4 = psCDBuff - passed * 4  BY <1>1, <1>2, RoomFacts
  <2>. QED  BY <1>1, <2>1 DEF HeaderInv, RingFollows
<1>. QED  BY <1>1, <1>4, <1>5, <1>6, <1>7
         DEF HeaderInv, BuildInv, ScanInv, ReturnInv, FoundInv, NothingMissed

LEMMA GiveUpStep == HeaderInv /\ GiveUp => HeaderInv'
<1>. SUFFICES ASSUME HeaderInv, GiveUp PROVE HeaderInv'
  OBVIOUS
<1>1. /\ pc = "return" /\ lRet < 0 /\ pc' = "KMP_ERROR"
      /\ UNCHANGED <<buf, pattern, psCDBuff, passed, kmpcnt, from, finds>>
      /\ UNCHANGED <<i, matches, kmpNext, lRet, failed>>
  BY DEF GiveUp, kmp, search
<1>2. failed' \in BOOLEAN  BY <1>1 DEF HeaderInv, TypeOK
<1>3. TypeOK'  BY <1>1, <1>2 DEF HeaderInv, TypeOK
<1>4. \A k : Occurs(k)' <=> Occurs(k)  BY <1>1 DEF Occurs
<1>5. NothingMissed'
  <2>1. ASSUME ~failed, NEW k \in from .. psCDBuff + SRC_LEN - Len(pattern) PROVE ~Occurs(k)
    <3>0. SRC_LEN \in Nat /\ Len(pattern) \in Nat
      BY SizeFacts, PatternFacts DEF HeaderInv
    <3>1. CASE k <= psCDBuff - 1
      <4>1. k \in from .. psCDBuff - 1  BY <3>0, <3>1, RoomFacts
      <4>. QED  BY <2>1, <4>1 DEF HeaderInv, Behind
    <3>2. CASE k >= psCDBuff
      <4>1. k \in psCDBuff .. psCDBuff + SRC_LEN - Len(pattern)  BY <3>0, <3>2, RoomFacts
      <4>. QED  BY <1>1, <2>1, <4>1 DEF HeaderInv, ReturnInv
    <3>. QED  BY <3>0, <3>1, <3>2, RoomFacts
  <2>. QED  BY <1>1, <1>4, <2>1 DEF NothingMissed
<1>6. Behind'  BY <1>1, <1>4 DEF HeaderInv, Behind
<1>. QED  BY <1>1, <1>3, <1>5, <1>6
         DEF HeaderInv, BuildInv, ScanInv, ReturnInv, Room, FoundInv, RingFollows

LEMMA FoundStep == HeaderInv /\ Found => HeaderInv'
<1>. SUFFICES ASSUME HeaderInv, Found PROVE HeaderInv'
  OBVIOUS
<1>1. /\ pc = "return" /\ lRet >= 0 /\ pc' = "found" /\ finds' = finds + 1
      /\ psCDBuff' = psCDBuff + lRet /\ passed' = passed + lRet \div 4
      /\ UNCHANGED <<buf, pattern, kmpcnt, from, i, matches, kmpNext, lRet, failed>>
  BY DEF Found, Go, kmp
<1>2. failed' \in BOOLEAN  BY <1>1 DEF HeaderInv, TypeOK
<1>3. lRet \in Nat /\ lRet \div 4 \in Nat /\ lRet - (lRet \div 4) * 4 \in 0 .. 3
  <2>1. lRet \in Nat  BY <1>1, SizeFacts DEF HeaderInv, TypeOK
  <2>. QED  BY <2>1
<1>4. TypeOK'  BY <1>1, <1>2, <1>3, RoomFacts DEF HeaderInv, TypeOK
<1>5. \A k : Occurs(k)' <=> Occurs(k)  BY <1>1 DEF Occurs
<1>6. Behind'
  <2>1. ASSUME ~failed, NEW k \in from .. psCDBuff + lRet - 1 PROVE ~Occurs(k)
    <3>1. CASE k <= psCDBuff - 1
      <4>1. k \in from .. psCDBuff - 1  BY <3>1, RoomFacts
      <4>. QED  BY <2>1, <4>1 DEF HeaderInv, Behind
    <3>2. CASE k >= psCDBuff
      <4>1. k \in psCDBuff .. psCDBuff + lRet - 1  BY <1>3, <3>2, RoomFacts
      <4>. QED  BY <1>1, <4>1 DEF HeaderInv, ReturnInv
    <3>. QED  BY <1>3, <3>1, <3>2, RoomFacts
  <2>2. from' = from /\ psCDBuff' = psCDBuff + lRet  BY <1>1
  <2>4. ~failed' => ~failed  BY <1>1
  <2>5. ASSUME ~failed', NEW k \in from' .. psCDBuff' - 1 PROVE ~Occurs(k)'
    <3>1. k \in from .. psCDBuff + lRet - 1  BY <1>3, <2>2, RoomFacts
    <3>2. ~Occurs(k)  BY <2>1, <2>4, <2>5, <3>1
    <3>. QED  BY <1>5, <3>2
  <2>. QED  BY <2>5 DEF Behind
<1>7. FoundInv'
  <2>1. Occurs(psCDBuff + lRet)  BY <1>1 DEF HeaderInv, ReturnInv
  <2>. QED  BY <1>1, <2>1 DEF FoundInv, Occurs
<1>8. RingFollows'
  <2>1. psCDBuff - passed * 4 \in 0 .. 3 * finds  BY DEF HeaderInv, RingFollows
  <2>2. psCDBuff' - passed' * 4 = (psCDBuff - passed * 4) + (lRet - (lRet \div 4) * 4)
    BY <1>1, <1>3, RoomFacts
  <2>. QED  BY <1>1, <1>3, <2>1, <2>2, RoomFacts DEF RingFollows
<1>. QED  BY <1>1, <1>4, <1>6, <1>7, <1>8
         DEF HeaderInv, BuildInv, ScanInv, ReturnInv, Room, NothingMissed

LEMMA DistanceFacts == \A n \in Distances : n \in Nat /\ n % 4 = 0
<1>. SUFFICES ASSUME NEW n \in Distances PROVE n \in Nat /\ n % 4 = 0
  OBVIOUS
<1>1. CASE n \in {MOVE, SRC_LEN}  BY <1>1, SizeFacts
<1>2. CASE \E d \in 1 .. SEEK_POSITION : n = d * SRC_LEN - MOVE_SIZE
  <2>1. PICK d \in 1 .. SEEK_POSITION : n = d * SRC_LEN - MOVE_SIZE  BY <1>2
  <2>2. d \in Nat \ {0}  BY SizeFacts
  <2>3. PICK s \in Nat : SRC_LEN = s * 4
    <3>1. SRC_LEN = (SRC_LEN \div 4) * 4 /\ SRC_LEN \div 4 \in Nat  BY SizeFacts, WholeSamples
    <3>. QED  BY <3>1
  <2>4. PICK m \in Nat : MOVE_SIZE = m * 4
    <3>1. MOVE_SIZE \in Nat  BY SizeFacts
    <3>2. MOVE_SIZE = (MOVE_SIZE \div 4) * 4 /\ MOVE_SIZE \div 4 \in Nat
      BY <3>1, SizeFacts, WholeSamples
    <3>. QED  BY <3>2
  <2>5. PICK t \in Nat : t = d * s  BY <2>2, <2>3
  <2>6. d * SRC_LEN = t * 4  BY <2>2, <2>3, <2>5
  <2>7. t >= s
    <3>1. d - 1 \in Nat  BY <2>2
    <3>2. PICK u \in Nat : u = (d - 1) * s  BY <2>3, <3>1
    <3>3. t = u + s  BY <2>2, <2>3, <2>5, <3>2
    <3>. QED  BY <2>3, <3>2, <3>3
  <2>8. m <= s  BY <2>3, <2>4, SizeFacts
  <2>. QED  BY <2>1, <2>3, <2>4, <2>5, <2>6, <2>7, <2>8
<1>. QED  BY <1>1, <1>2 DEF Distances

LEMMA GoOnStep == HeaderInv /\ GoOn => HeaderInv'
<1>. SUFFICES ASSUME HeaderInv, GoOn PROVE HeaderInv'
  OBVIOUS
<1>1. PICK n \in Distances : InBuffer(n) /\ Go(n)  BY DEF GoOn
<1>2. /\ pc = "found" /\ pc' = "call" /\ from' = psCDBuff' /\ failed' = FALSE
      /\ psCDBuff' = psCDBuff + n /\ passed' = passed + n \div 4
      /\ UNCHANGED <<buf, pattern, kmpcnt, finds, i, matches, kmpNext, lRet>>
  BY <1>1 DEF GoOn, Go, kmp
<1>3. n \in Nat /\ n \div 4 \in Nat /\ (n \div 4) * 4 = n  BY DistanceFacts, WholeSamples
<1>4. TypeOK'
  <2>1. failed' \in BOOLEAN  BY <1>2
  <2>. QED  BY <1>2, <1>3, <2>1, RoomFacts DEF HeaderInv, TypeOK
<1>5. Behind'
  <2>1. psCDBuff' .. psCDBuff' - 1 = {}  BY <1>2, <1>3, RoomFacts
  <2>. QED  BY <1>2, <2>1 DEF Behind
<1>6. Room'
  <2>1. psCDBuff + n + kmpcnt * MOVE + SRC_LEN <= Len(buf)  BY <1>1 DEF InBuffer
  <2>2. psCDBuff' + 0 = psCDBuff + n  BY <1>2, <1>3, RoomFacts
  <2>. QED  BY <1>2, <2>1, <2>2 DEF Room, InBuffer
<1>7. RingFollows'
  <2>1. psCDBuff' - passed' * 4 = psCDBuff - passed * 4  BY <1>2, <1>3, RoomFacts
  <2>. QED  BY <1>2, <2>1 DEF HeaderInv, RingFollows
<1>. QED  BY <1>2, <1>4, <1>5, <1>6, <1>7
         DEF HeaderInv, BuildInv, ScanInv, ReturnInv, FoundInv, NothingMissed

LEMMA NextInv == HeaderInv /\ [Next]_vars => HeaderInv'
<1>. SUFFICES ASSUME HeaderInv, [Next]_vars PROVE HeaderInv'
  OBVIOUS
<1>1. CASE CD_KmpPatternSearch
  <2>1. \/ BuildMatch \/ BuildFall \/ BuildZero
        \/ ScanMatch \/ ScanFall \/ ScanSkip
        \/ Alloc \/ AllocFails \/ BuildEnd \/ ScanFound \/ ScanEnd
    BY <1>1 DEF CD_KmpPatternSearch
  <2>. QED  BY <2>1, BuildSteps, ScanSteps, CallSteps
<1>2. CASE Miss \/ GiveUp \/ Found \/ GoOn
  BY <1>2, MissStep, GiveUpStep, FoundStep, GoOnStep
<1>3. CASE UNCHANGED vars
  <2>1. failed' \in BOOLEAN  BY <1>3 DEF HeaderInv, TypeOK, vars
  <2>2. /\ UNCHANGED <<buf, pattern, psCDBuff, passed, kmpcnt, from, finds, failed>>
        /\ UNCHANGED <<pc, i, matches, kmpNext, lRet>>
    BY <1>3 DEF vars, search, kmp
  <2>3. TypeOK'  BY <2>1, <2>2 DEF HeaderInv, TypeOK
  <2>4. \A k : Occurs(k)' <=> Occurs(k)  BY <2>2 DEF Occurs
  <2>5. (ReturnInv /\ Behind /\ FoundInv /\ NothingMissed)'
    BY <2>2, <2>4 DEF HeaderInv, ReturnInv, Behind, FoundInv, NothingMissed
  <2>6. (BuildInv /\ Room /\ RingFollows)'
    BY <2>2 DEF HeaderInv, BuildInv, Table, Room, InBuffer, RingFollows
  <2>7. ScanInv'  BY <2>2, <2>4 DEF HeaderInv, ScanInv, Table
  <2>. QED  BY <2>3, <2>5, <2>6, <2>7 DEF HeaderInv
<1>. QED  BY <1>1, <1>2, <1>3 DEF Next, Search

THEOREM SearchInvariant == Spec => []HeaderInv
BY InitInv, NextInv, PTL DEF Spec

\* Type correctness; with it, that no more misses are allowed than
\* CD_KMP_RETRY_CNT and that the table stays within what was allocated.
THEOREM TypeCorrect == Spec => []TypeOK
<1>1. HeaderInv => TypeOK  BY DEF HeaderInv
<1>. QED  BY <1>1, SearchInvariant, PTL

\* The table built for the pattern is the one the scan needs, whatever the
\* pattern is.
THEOREM TableIsRight == Spec => []TableRight
<1>1. HeaderInv => TableRight  BY DEF HeaderInv, ScanInv, Table, TableRight
<1>. QED  BY <1>1, SearchInvariant, PTL

\* What is found is a header and the first one: of every buffer, pattern and
\* window whose overlap holds all but one byte of the pattern.
THEOREM FirstHeaderFound == Spec => []FirstHeader
<1>1. HeaderInv => FirstHeader  BY DEF HeaderInv, FoundInv, Behind, FirstHeader
<1>. QED  BY <1>1, SearchInvariant, PTL

\* A search that gives up has looked at everything up to the end of its last
\* window.
THEOREM NothingIsMissed == Spec => []NothingMissed
<1>1. HeaderInv => NothingMissed  BY DEF HeaderInv
<1>. QED  BY <1>1, SearchInvariant, PTL

\* The read pointer of the ring stays at most three bytes for each header
\* behind the search.
THEOREM RingFollowsSearch == Spec => []RingFollows
<1>1. HeaderInv => RingFollows  BY DEF HeaderInv
<1>. QED  BY <1>1, SearchInvariant, PTL
=============================================================================
