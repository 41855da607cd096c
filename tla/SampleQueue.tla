---------------------------- MODULE SampleQueue ----------------------------
(***************************************************************************)
(* What the sample ring promises to the interrupt and to the reader: a     *)
(* bounded count of samples.  Half buffers are added to it as long as the  *)
(* next one fits, what was added is passed once, and a reset empties it at *)
(* once -- whatever pointers it is made of, and however many stores a move *)
(* or a reset of them takes.                                               *)
(*                                                                         *)
(* The promise ends when a half buffer comes without the full check, or    *)
(* when the reader passes what it did not wait for (Astray), and begins    *)
(* again with the next reset.                                              *)
(***************************************************************************)
EXTENDS Integers

CONSTANTS
    LENGTH,  \* samples the ring holds
    HALF,    \* samples of a half buffer
    KEPT     \* samples kept back

VARIABLES
    level,   \* samples captured and not passed
    flowing, \* a half buffer may still come
    known    \* the promise holds

vars == <<level, flowing, known>>

\* There is room for one half buffer more.
Room == level + HALF + KEPT < LENGTH

Init == level = 0 /\ flowing = FALSE /\ known = TRUE

Capture ==
    /\ known /\ flowing /\ Room
    /\ level' = level + HALF
    /\ flowing' \in BOOLEAN /\ (flowing' => Room')
    /\ UNCHANGED known

Pass ==
    /\ known
    /\ \E n \in 0 .. level : level' = level - n
    /\ UNCHANGED <<flowing, known>>

Clear == level' = 0 /\ known' = TRUE /\ UNCHANGED flowing

Start == known /\ Room /\ flowing' = TRUE /\ UNCHANGED <<level, known>>

Stop == flowing' = FALSE /\ UNCHANGED <<level, known>>

Astray == known' = FALSE /\ level' \in Int /\ flowing' \in BOOLEAN

Next == Capture \/ Pass \/ Clear \/ Start \/ Stop \/ Astray

Spec == Init /\ [][Next]_vars
=============================================================================
