---------------------------- MODULE SeekService ----------------------------
(***************************************************************************)
(* What CD_Send_msf promises the reading thread: it asks for one seek at a *)
(* time, the pick-up only moves while a seek is asked for, and the answer  *)
(* is about that seek -- success means that the pick-up is where it was    *)
(* asked to go, DECK_ERROR that it is not.                                 *)
(*                                                                         *)
(* Seeks are numbered; `at` is the seek whose target the pick-up is on,    *)
(* NOWHERE when it is on none.                                             *)
(***************************************************************************)
EXTENDS Naturals

CONSTANT NOWHERE    \* no seek's target; 0, since seeks are numbered from 1

VARIABLES
    seekNo,    \* seeks asked for so far
    state,     \* "idle", "pending" or "answered"
    answer,    \* the answer, once there is one
    at

vars == <<seekNo, state, answer, at>>

Answers == {"SEEK_OK", "DECK_ERROR", "SEEK_TIME_OUT"}

Init == seekNo = 0 /\ state = "idle" /\ answer = "none" /\ at = NOWHERE

Ask ==
    /\ state = "idle" /\ state' = "pending"
    /\ seekNo' = seekNo + 1
    /\ answer' = "none"
    /\ UNCHANGED at

Move ==
    /\ state = "pending"
    /\ at' \in {seekNo, NOWHERE}
    /\ UNCHANGED <<seekNo, state, answer>>

Answer ==
    /\ state = "pending" /\ state' = "answered"
    /\ answer' \in Answers
    /\ answer' = "SEEK_OK" => at = seekNo
    /\ answer' = "DECK_ERROR" => at # seekNo
    /\ UNCHANGED <<seekNo, at>>

Resume ==
    /\ state = "answered" /\ state' = "idle"
    /\ answer' = "none"
    /\ UNCHANGED <<seekNo, at>>

Next == Ask \/ Move \/ Answer \/ Resume

Spec == Init /\ [][Next]_vars
=============================================================================
