-------------------------- MODULE HiddenMmcProofs --------------------------
(***************************************************************************)
(* Which transfers of hidden_mmc.c start in the area they were asked for,  *)
(* for cards and areas of any size: every write, and the reads whose       *)
(* offset, in bytes, is below the size of the area in sectors.             *)
(***************************************************************************)
EXTENDS HiddenMmc, TLAPS

\* Sizes, starts and offsets are numbers, and a sector is not empty.  That the
\* starts are follows from the sizes by induction over the areas.
Numbers ==
    /\ SectorSize \in [Areas -> Nat]
    /\ \A size \in get_size : HiddenStart(size) \in [Areas -> Int]
    /\ UNIT \in Nat \ {0} /\ Offsets \subseteq Nat

\* From the check of the offset to the transfer, the position is what the call
\* computed from it.
Positioned ==
    pc \in {"open", "transfer"} =>
        /\ hidden_idx \in Areas /\ offset \in Nat /\ start \in Int
        /\ offset < limitedSize(hidden_idx)
        /\ op \in {"MMC_ReadHidden", "MMC_WriteHidden"}
        /\ hiddenStart = IF op = "MMC_ReadHidden"
                         THEN (start + offset) * UNIT
                         ELSE start * UNIT + offset

\* What the check of the offset lets through.
InSectors == op = "MMC_WriteHidden" \/ offset < SectorSize[hidden_idx]

LEMMA PositionedNext == ASSUME Numbers, Positioned, [Next]_vars PROVE Positioned'
<1>1. CASE UNCHANGED vars
    BY <1>1 DEF Positioned, vars, call, limitedSize
<1>2. ASSUME NEW o \in {"MMC_ReadHidden", "MMC_WriteHidden"}, NEW i \in Areas,
             NEW b \in Offsets, Enter(o, i, b)
      PROVE  Positioned'
    <2>1. op' = o /\ hidden_idx' = i /\ offset' = b /\ start' \in Int /\ b \in Nat
        BY <1>2 DEF Enter, Numbers
    <2>2. CASE b < limitedSize(i)
        BY <1>2, <2>1, <2>2 DEF Enter, Positioned, limitedSize
    <2>3. CASE ~(b < limitedSize(i))
        <3>1. pc' = "idle"  BY <1>2, <2>3 DEF Enter, Return
        <3> QED BY <3>1 DEF Positioned
    <2> QED BY <2>2, <2>3
<1>3. CASE Open \/ Failed
    BY <1>3 DEF Open, Failed, Positioned, call, limitedSize
<1>4. CASE OpenFails \/ Transferred \/ ReadFails \/ WriteFails
    <2>1. pc' \in {"idle", "oops"}
        BY <1>4 DEF OpenFails, Transferred, ReadFails, WriteFails, Return
    <2> QED BY <2>1 DEF Positioned
<1>5. CASE NothingMoved
    BY <1>5 DEF NothingMoved, Return, Positioned, call, limitedSize
<1> QED BY <1>1, <1>2, <1>3, <1>4, <1>5 DEF Next

\* Whole sectors compare like the bytes they begin at.
LEMMA SectorsAndBytes ==
    ASSUME NEW u \in Nat \ {0}, NEW b \in Nat, NEW s \in Nat, NEW a \in Int
    PROVE  /\ b * u < s * u <=> b < s
           /\ (a + b) * u - a * u = b * u
           /\ b * u \in Nat /\ s * u \in Nat /\ a * u \in Int
<1>1. CASE b < s
    <2>1. s = b + (s - b) /\ s - b >= 1  BY <1>1
    <2>2. (s - b) * u >= 1  BY <2>1
    <2>3. s * u = b * u + (s - b) * u  BY <2>1
    <2> QED BY <1>1, <2>2, <2>3
<1>2. CASE ~(b < s)
    <2>1. b = s + (b - s) /\ b - s >= 0  BY <1>2
    <2>2. (b - s) * u >= 0  BY <2>1
    <2>3. b * u = s * u + (b - s) * u  BY <2>1
    <2> QED BY <1>2, <2>2, <2>3
<1> QED BY <1>1, <1>2

\* A transfer starts in its area exactly if it writes, or reads at an offset
\* that is valid in sectors, too: what run hidden shows is the only way out of
\* an area (MMC_ReadHidden, MMC_WriteHidden).
THEOREM AccessIsInArea ==
    Numbers /\ Spec => [](pc = "transfer" => (AccessInArea <=> InSectors))
<1>1. Init => Positioned
    BY DEF Init, Positioned
<1>2. Numbers /\ Positioned /\ [Next]_vars => Positioned'
    BY PositionedNext
<1>3. Numbers /\ Positioned => (pc = "transfer" => (AccessInArea <=> InSectors))
    <2> SUFFICES ASSUME Numbers, Positioned, pc = "transfer" PROVE AccessInArea <=> InSectors
        OBVIOUS
    <2> DEFINE s == SectorSize[hidden_idx]
    <2>1. /\ UNIT \in Nat \ {0} /\ offset \in Nat /\ s \in Nat /\ start \in Int
          /\ offset < s * UNIT
        BY DEF Numbers, Positioned, limitedSize
    <2>2. /\ offset * UNIT < s * UNIT <=> offset < s
          /\ (start + offset) * UNIT - start * UNIT = offset * UNIT
          /\ offset * UNIT \in Nat /\ s * UNIT \in Nat /\ start * UNIT \in Int
        BY <2>1, SectorsAndBytes
    <2>3. CASE op = "MMC_WriteHidden"
        <3>1. hiddenStart = start * UNIT + offset  BY <2>3 DEF Positioned
        <3>2. hiddenStart - start * UNIT = offset  BY <2>1, <2>2, <3>1
        <3> QED BY <2>1, <2>2, <2>3, <3>2 DEF AccessInArea, InSectors, limitedSize
    <2>4. CASE op # "MMC_WriteHidden"
        <3>1. hiddenStart = (start + offset) * UNIT  BY <2>4 DEF Positioned
        <3>2. hiddenStart - start * UNIT = offset * UNIT  BY <2>2, <3>1
        <3> QED BY <2>1, <2>2, <2>4, <3>2 DEF AccessInArea, InSectors, limitedSize
    <2> QED BY <2>3, <2>4
<1>4. CASE Numbers
    <2>1. Positioned /\ [Next]_vars => Positioned'
        BY <1>2, <1>4
    <2>2. Positioned => (pc = "transfer" => (AccessInArea <=> InSectors))
        BY <1>3, <1>4
    <2> QED BY <1>1, <2>1, <2>2, PTL DEF Spec
<1>5. CASE ~Numbers
    BY <1>5
<1> QED BY <1>4, <1>5
=============================================================================
