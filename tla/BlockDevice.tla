---------------------------- MODULE BlockDevice ----------------------------
(***************************************************************************)
(* What the drive promises the block layer and whoever ejects: requests    *)
(* are worked on one at a time, each until its end, and a request succeeds *)
(* only when all its segments were read, every one of them begun while the *)
(* disc was not ejected.                                                   *)
(*                                                                         *)
(* There is no thread here, no task state, no force stop: a request may be *)
(* refused whenever it is in hand.                                         *)
(***************************************************************************)
EXTENDS Integers

CONSTANTS Reads, Others, NONE, MAXSEGMENTS

Requests == Reads \cup Others

VARIABLES
    outcome,   \* "new", "queued", "ok" or "error"
    left,      \* segments of each request still to be read
    current,   \* the request in hand, or NONE
    reading,   \* a segment of it is being read
    ejected

vars == <<outcome, left, current, reading, ejected>>

Init ==
    /\ outcome = [r \in Requests |-> "new"] /\ left = [r \in Requests |-> 0]
    /\ current = NONE /\ reading = FALSE /\ ejected = FALSE

Submit(r) ==
    /\ outcome[r] = "new" /\ outcome' = [outcome EXCEPT ![r] = "queued"]
    /\ \E n \in 1 .. MAXSEGMENTS : left' = [left EXCEPT ![r] = n]
    /\ UNCHANGED <<current, reading, ejected>>

Take(r) ==
    /\ current = NONE /\ outcome[r] = "queued"
    /\ current' = r
    /\ UNCHANGED <<outcome, left, reading, ejected>>

Admit ==
    /\ current \in Reads /\ ~reading /\ ~ejected
    /\ reading' = TRUE
    /\ UNCHANGED <<outcome, left, current, ejected>>

\* One segment of several; the request stays in hand.
ReadPart ==
    /\ reading /\ left[current] > 1
    /\ reading' = FALSE
    /\ left' = [left EXCEPT ![current] = @ - 1]
    /\ UNCHANGED <<outcome, current, ejected>>

End(how) ==
    /\ outcome' = [outcome EXCEPT ![current] = how]
    /\ current' = NONE /\ reading' = FALSE
    /\ UNCHANGED ejected

ReadLast ==
    /\ reading /\ left[current] = 1
    /\ left' = [left EXCEPT ![current] = 0]
    /\ End("ok")

Refuse == current # NONE /\ End("error") /\ UNCHANGED left

\* The disc leaves or comes back.
Eject ==
    /\ ejected' \in BOOLEAN
    /\ UNCHANGED <<outcome, left, current, reading>>

Next ==
    \/ \E r \in Requests : Submit(r) \/ Take(r)
    \/ Admit \/ ReadPart \/ ReadLast \/ Refuse \/ Eject

Spec == Init /\ [][Next]_vars
=============================================================================
