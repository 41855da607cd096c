-------------------------- MODULE BlockThreadProofs --------------------------
(***************************************************************************)
(* The safety of the request thread, for any requests, any number of       *)
(* segments and any number of ejects.                                      *)
(*                                                                         *)
(* EndedOnce needs to know when the thread has a request in its hands      *)
(* (Held) and that a queued request still has a segment to read            *)
(* (ToBeRead), which TypeOK needs, too.                                    *)
(***************************************************************************)
EXTENDS BlockThread, TLAPS

\* The thread works on a request exactly from the fetch to the end of it.
Held ==
    /\ pc \in {"dispatch", "gate", "enter", "read"} => req # NONE
    /\ pc \in {"fetch", "test", "sleep", "gone"} => req = NONE
    /\ pc \in {"gate", "enter", "read"} => req \in Reads

\* A request that was not ended has a segment left.
ToBeRead == \A r \in Requests : outcome[r] = "queued" => left[r] > 0

ThreadInv == TypeOK /\ EndedOnce /\ Held /\ ToBeRead /\ NoLostWakeup

LEMMA InitInv == Init => ThreadInv
<1> SUFFICES ASSUME Init PROVE ThreadInv
  OBVIOUS
<1> USE DEF Init, RequestAssumption, BoundAssumption
<1>1. TypeOK
  <2>1. /\ left \in [Requests -> 0 .. MAXSEGMENTS]
        /\ outcome \in [Requests -> {"new", "queued", "ok", "error"}]
        /\ ends \in [Requests -> Nat]
    BY BoundAssumption
  <2>2. half \in [Callers -> {"idle", "eject", "mount"}]
    OBVIOUS
  <2>3. /\ pc = "loop" /\ task = "TASK_RUNNING" /\ req = NONE /\ queue = {}
        /\ commands \in 0 .. COMMANDS
    BY BoundAssumption
  <2>4. stop \in BOOLEAN /\ state_eject \in BOOLEAN /\ force \in BOOLEAN
    BY Zenon
  <2> HIDE DEF Init
  <2> QED BY <2>1, <2>2, <2>3, <2>4 DEF TypeOK
<1>2. EndedOnce
  <2>1. ASSUME NEW r \in Requests
        PROVE  outcome[r] = "new" /\ ends[r] = 0 /\ r \notin queue /\ r # req
    BY RequestAssumption
  <2> QED BY <2>1 DEF EndedOnce, Ended
<1>3. Held /\ ToBeRead /\ NoLostWakeup
  BY DEF Held, ToBeRead, NoLostWakeup
<1> QED BY <1>1, <1>2, <1>3 DEF ThreadInv

\* Ending the request in hand, on whichever path.
LEMMA EndAllInv ==
    ASSUME ThreadInv, EndAll, req # NONE, UNCHANGED <<stop, eject>>,
           task' \in {"TASK_RUNNING", "TASK_INTERRUPTIBLE"}
    PROVE  ThreadInv'
<1> USE DEF ThreadInv, EndAll
<1>0. req \in Requests /\ outcome[req] = "queued" /\ ends[req] = 0 /\ req \notin queue
  BY DEF TypeOK, EndedOnce, Ended
<1>1. TypeOK'
  BY <1>0, RequestAssumption DEF TypeOK, eject
<1>2. EndedOnce'
  BY <1>0, RequestAssumption DEF TypeOK, EndedOnce, Ended
<1>3. Held'
  BY DEF Held
<1>4. ToBeRead'
  BY <1>0 DEF ToBeRead, TypeOK
<1>5. NoLostWakeup'
  BY DEF NoLostWakeup
<1> QED BY <1>1, <1>2, <1>3, <1>4, <1>5

LEMMA NextInv == ThreadInv /\ [Next]_vars => ThreadInv'
<1> SUFFICES ASSUME ThreadInv, [Next]_vars PROVE ThreadInv'
  OBVIOUS
<1> USE RequestAssumption, BoundAssumption DEF ThreadInv, RequestAssumption, BoundAssumption
<1>1. CASE Prepare
  BY <1>1 DEF Prepare, TypeOK, EndedOnce, Ended, Held, ToBeRead, NoLostWakeup, requests, eject
<1>2. CASE Again
  BY <1>2 DEF Again, TypeOK, EndedOnce, Ended, Held, ToBeRead, NoLostWakeup, requests, eject
<1>3. CASE Fetch
  <2>1. CASE queue = {} /\ pc' = "test" /\ UNCHANGED <<queue, req>>
    BY <1>3, <2>1 DEF Fetch, TypeOK, EndedOnce, Ended, Held, ToBeRead, NoLostWakeup, eject
  <2>2. ASSUME NEW r \in queue, queue' = queue \ {r}, req' = r, pc' = "dispatch"
        PROVE  ThreadInv'
    <3>1. r \in Requests /\ req = NONE /\ r # NONE
      BY <1>3 DEF TypeOK, Held, Fetch, Requests
    <3>2. TypeOK' /\ Held' /\ ToBeRead' /\ NoLostWakeup'
      BY <1>3, <2>2, <3>1 DEF Fetch, TypeOK, Held, ToBeRead, NoLostWakeup, eject
    <3>3. EndedOnce'
      BY <1>3, <2>2, <3>1 DEF Fetch, EndedOnce, Ended
    <3> QED BY <3>2, <3>3
  <2> QED BY <1>3, <2>1, <2>2 DEF Fetch
<1>4. CASE TestStop
  BY <1>4 DEF TestStop, TypeOK, EndedOnce, Ended, Held, ToBeRead, NoLostWakeup, requests, eject
<1>5. CASE Scheduled
  BY <1>5 DEF Scheduled, TypeOK, EndedOnce, Ended, Held, ToBeRead, NoLostWakeup, requests, eject
<1>6. CASE Dispatch
  <2>1. CASE req \in Reads
    BY <1>6, <2>1 DEF Dispatch, TypeOK, EndedOnce, Ended, Held, ToBeRead, NoLostWakeup, requests, eject
  <2>2. CASE req \notin Reads
    BY <1>6, <2>2, EndAllInv DEF Dispatch, Held
  <2> QED BY <2>1, <2>2
<1>7. CASE Gate
  <2>1. CASE ~state_eject
    BY <1>7, <2>1 DEF Gate, TypeOK, EndedOnce, Ended, Held, ToBeRead, NoLostWakeup, requests, eject
  <2>2. CASE state_eject
    BY <1>7, <2>2, EndAllInv DEF Gate, Held, TypeOK
  <2> QED BY <2>1, <2>2
<1>8. CASE Enter
  <2>1. CASE ~force
    BY <1>8, <2>1 DEF Enter, TypeOK, EndedOnce, Ended, Held, ToBeRead, NoLostWakeup, requests, eject
  <2>2. CASE force
    BY <1>8, <2>2, EndAllInv DEF Enter, Held, TypeOK
  <2> QED BY <2>1, <2>2
<1>9. CASE ReadStopped
  BY <1>9, EndAllInv DEF ReadStopped, Held, TypeOK
<1>10. CASE ReadSucceeds
  <2>1. req \in Requests /\ outcome[req] = "queued" /\ left[req] \in 1 .. MAXSEGMENTS
        /\ ends[req] = 0 /\ req \notin queue
    BY <1>10 DEF ReadSucceeds, Held, TypeOK, EndedOnce, Ended, ToBeRead
  <2>2. CASE left[req] = 1
    <3>1. TypeOK' /\ Held' /\ ToBeRead' /\ NoLostWakeup'
      BY <1>10, <2>1, <2>2 DEF ReadSucceeds, TypeOK, Held, ToBeRead, NoLostWakeup, eject
    <3>2. EndedOnce'
      BY <1>10, <2>1, <2>2 DEF ReadSucceeds, TypeOK, EndedOnce, Ended
    <3> QED BY <3>1, <3>2
  <2>3. CASE left[req] # 1
    BY <1>10, <2>1, <2>3
       DEF ReadSucceeds, TypeOK, EndedOnce, Ended, Held, ToBeRead, NoLostWakeup, eject
  <2> QED BY <2>2, <2>3
<1>11. CASE ReadFails
  BY <1>11, EndAllInv DEF ReadFails, Held, TypeOK
<1>12. ASSUME NEW r \in Requests, Submit(r) PROVE ThreadInv'
  <2>1. outcome[r] = "new" /\ ends[r] = 0 /\ r # req /\ r \notin queue
    BY <1>12 DEF Submit, EndedOnce, Ended
  <2>2. PICK n \in 1 .. MAXSEGMENTS : left' = [left EXCEPT ![r] = n]
    BY <1>12 DEF Submit
  <2>3. TypeOK' /\ Held' /\ ToBeRead' /\ NoLostWakeup'
    BY <1>12, <2>2 DEF Submit, TypeOK, Held, ToBeRead, NoLostWakeup, eject
  <2>4. EndedOnce'
    BY <1>12, <2>1 DEF Submit, TypeOK, EndedOnce, Ended
  <2> QED BY <2>3, <2>4
<1>13. CASE KthreadStop
  BY <1>13 DEF KthreadStop, TypeOK, EndedOnce, Ended, Held, ToBeRead, NoLostWakeup, requests, eject
<1>14. ASSUME NEW c \in Callers, SetStateEject(c) PROVE ThreadInv'
  <2>1. PICK command \in Says(c) :
           /\ state_eject' = (command = "eject")
           /\ half' = [half EXCEPT ![c] = command]
    BY <1>14 DEF SetStateEject
  <2>2. command \in {"eject", "mount"}
    BY DEF Says
  <2>3. TypeOK'
    BY <1>14, <2>1, <2>2 DEF SetStateEject, TypeOK, thread, requests
  <2>4. EndedOnce' /\ Held' /\ ToBeRead' /\ NoLostWakeup'
    BY <1>14 DEF SetStateEject, EndedOnce, Ended, Held, ToBeRead, NoLostWakeup, thread, requests
  <2> QED BY <2>3, <2>4
<1>15. ASSUME NEW c \in Callers, SetForceStop(c) PROVE ThreadInv'
  BY <1>15
     DEF SetForceStop, TypeOK, EndedOnce, Ended, Held, ToBeRead, NoLostWakeup, thread, requests
<1>16. CASE UNCHANGED vars
  BY <1>16
     DEF vars, TypeOK, EndedOnce, Ended, Held, ToBeRead, NoLostWakeup, thread, requests, eject
<1> QED
  BY <1>1, <1>2, <1>3, <1>4, <1>5, <1>6, <1>7, <1>8, <1>9, <1>10, <1>11, <1>12, <1>13, <1>14,
     <1>15, <1>16
     DEF Next, Thread, Deck

LEMMA ThreadInvariant == Spec => []ThreadInv
BY InitInv, NextInv, PTL DEF Spec

\* The variables keep their types, for any requests and bounds.
THEOREM TypeCorrect == Spec => []TypeOK
BY ThreadInvariant, PTL DEF ThreadInv

\* The thread never falls asleep over a queued request or over kthread_stop
\* (set_current_state before blk_fetch_request, cdrom.c:248).
THEOREM WakeupsAreKept == Spec => []NoLostWakeup
BY ThreadInvariant, PTL DEF ThreadInv

\* Every request that was queued is in one place until it is ended, once, on
\* every path of tcr_issue_rq.
THEOREM RequestsEndOnce == Spec => []EndedOnce
BY ThreadInvariant, PTL DEF ThreadInv

-----------------------------------------------------------------------------
(* The abstract drive.                                                     *)

\* Ending the request in hand with an error is a refusal of the drive.
LEMMA EndAllRefuses ==
    ASSUME ThreadInv, EndAll, req # NONE, UNCHANGED eject
    PROVE  Device!Refuse
BY DEF EndAll, eject, Device!Refuse, Device!End

LEMMA InitDevice == Init => Device!Init
BY DEF Init, Device!Init, Requests, Device!Requests

LEMMA NextDevice == ThreadInv /\ [Next]_vars => [Device!Next]_(Device!vars)
<1> SUFFICES ASSUME ThreadInv, [Next]_vars PROVE Device!Next \/ UNCHANGED Device!vars
  OBVIOUS
<1> USE DEF ThreadInv
<1>0. Requests = Device!Requests
  BY DEF Requests, Device!Requests
<1>1. CASE Prepare
  BY <1>1 DEF Prepare, Device!vars, requests, eject
<1>2. CASE Again
  BY <1>2 DEF Again, Device!vars, requests, eject
<1>3. CASE Fetch
  <2>1. CASE queue = {} /\ pc' = "test" /\ UNCHANGED <<queue, req>>
    BY <1>3, <2>1 DEF Fetch, Device!vars, eject
  <2>2. ASSUME NEW r \in queue, queue' = queue \ {r}, req' = r, pc' = "dispatch"
        PROVE  Device!Next
    <3>1. r \in Requests /\ outcome[r] = "queued" /\ req = NONE
      BY <1>3 DEF TypeOK, EndedOnce, Held, Fetch
    <3>2. Device!Take(r)
      BY <1>3, <2>2, <3>1 DEF Fetch, Device!Take, eject
    <3> QED BY <1>0, <3>1, <3>2 DEF Device!Next
  <2> QED BY <1>3, <2>1, <2>2 DEF Fetch
<1>4. CASE TestStop
  BY <1>4 DEF TestStop, Device!vars, requests, eject
<1>5. CASE Scheduled
  BY <1>5 DEF Scheduled, Device!vars, requests, eject
<1>6. CASE Dispatch
  <2>1. CASE req \in Reads
    BY <1>6, <2>1 DEF Dispatch, Device!vars, requests, eject
  <2>2. CASE req \notin Reads
    BY <1>6, <2>2, EndAllRefuses DEF Dispatch, Held, Device!Next
  <2> QED BY <2>1, <2>2
<1>7. CASE Gate
  <2>1. CASE ~state_eject
    <3>1. Device!Admit
      BY <1>7, <2>1 DEF Gate, Held, Device!Admit, requests, eject
    <3> QED BY <3>1 DEF Device!Next
  <2>2. CASE state_eject
    BY <1>7, <2>2, EndAllRefuses DEF Gate, Held, Device!Next
  <2> QED BY <2>1, <2>2
<1>8. CASE Enter
  <2>1. CASE ~force
    BY <1>8, <2>1 DEF Enter, Device!vars, requests, eject
  <2>2. CASE force
    BY <1>8, <2>2, EndAllRefuses DEF Enter, Held, Device!Next
  <2> QED BY <2>1, <2>2
<1>9. CASE ReadStopped
  BY <1>9, EndAllRefuses DEF ReadStopped, Held, Device!Next
<1>10. CASE ReadSucceeds
  <2>1. req \in Requests /\ left[req] \in 1 .. MAXSEGMENTS
    <3>1. req \in Requests /\ outcome[req] = "queued"
      BY <1>10 DEF ReadSucceeds, Held, TypeOK, EndedOnce
    <3> QED BY <3>1 DEF TypeOK, ToBeRead
  <2>2. CASE left[req] = 1
    <3>1. Device!ReadLast
      BY <1>10, <2>1, <2>2
         DEF ReadSucceeds, Device!ReadLast, Device!End, eject
    <3> QED BY <3>1 DEF Device!Next
  <2>3. CASE left[req] # 1
    <3>1. Device!ReadPart
      BY <1>10, <2>1, <2>3, BoundAssumption
         DEF ReadSucceeds, Device!ReadPart, eject, BoundAssumption
    <3> QED BY <3>1 DEF Device!Next
  <2> QED BY <2>2, <2>3
<1>11. CASE ReadFails
  BY <1>11, EndAllRefuses DEF ReadFails, Held, Device!Next
<1>12. ASSUME NEW r \in Requests, Submit(r) PROVE Device!Next
  <2>1. Device!Submit(r)
    BY <1>12 DEF Submit, Device!Submit, eject
  <2> QED BY <1>0, <2>1 DEF Device!Next
<1>13. CASE KthreadStop
  BY <1>13 DEF KthreadStop, Device!vars, requests, eject
<1>14. ASSUME NEW c \in Callers, SetStateEject(c) PROVE Device!Next
  <2>1. PICK command \in Says(c) : state_eject' = (command = "eject")
    BY <1>14 DEF SetStateEject
  <2>2. state_eject' \in BOOLEAN
    BY <2>1, Zenon
  <2>3. Device!Eject
    BY <1>14, <2>2 DEF SetStateEject, Device!Eject, thread, requests
  <2> QED BY <2>3 DEF Device!Next
<1>15. ASSUME NEW c \in Callers, SetForceStop(c) PROVE UNCHANGED Device!vars
  BY <1>15 DEF SetForceStop, Device!vars, thread, requests
<1>16. CASE UNCHANGED vars
  BY <1>16 DEF vars, thread, requests, eject, Device!vars
<1> QED
  BY <1>1, <1>2, <1>3, <1>4, <1>5, <1>6, <1>7, <1>8, <1>9, <1>10, <1>11, <1>12, <1>13, <1>14,
     <1>15, <1>16
     DEF Next, Thread, Deck

\* The request thread with all who disturb it implements the abstract drive:
\* no segment is begun while the disc is ejected, and a request that succeeds
\* was read whole.
THEOREM ImplementsDevice == Spec => DeviceImplemented
<1>1. Init => Device!Init
  BY InitDevice
<1>2. ThreadInv /\ [Next]_vars => [Device!Next]_(Device!vars)
  BY NextDevice
<1> QED
  BY <1>1, <1>2, ThreadInvariant, PTL DEF Spec, DeviceImplemented, Device!Spec
-----------------------------------------------------------------------------
(* The two flags of an eject.                                              *)

\* No caller of set_State_eject comes between the two stores of another.
OneCaller == \A c, d \in Callers : half[c] # "idle" /\ half[d] # "idle" => c = d

\* A caller between its stores has said what state_eject says.
Said == \A c \in Callers : half[c] # "idle" => (state_eject <=> half[c] = "eject")

LEMMA NextSaid ==
    ASSUME ThreadInv, Said, FlagsAgree, OneCaller, OneCaller', [Next]_vars
    PROVE  Said' /\ FlagsAgree'
<1>a. half \in [Callers -> {"idle", "eject", "mount"}]  BY DEF ThreadInv, TypeOK
<1>1. CASE UNCHANGED eject
  BY <1>1 DEF eject, Said, FlagsAgree
<1>2. ASSUME NEW c \in Callers, SetStateEject(c) PROVE Said' /\ FlagsAgree'
  <2>1. PICK command \in Says(c) :
           /\ state_eject' = (command = "eject")
           /\ half' = [half EXCEPT ![c] = command]
    BY <1>2 DEF SetStateEject
  <2>2. half'[c] = command /\ half'[c] # "idle"  BY <1>a, <2>1 DEF Says
  <2>3. \A d \in Callers : half'[d] # "idle" => d = c  BY <2>2 DEF OneCaller
  <2>4. state_eject' <=> half'[c] = "eject"  BY <2>1, <2>2, Zenon
  <2>. QED  BY <2>2, <2>3, <2>4, Zenon DEF Said, FlagsAgree
<1>3. ASSUME NEW c \in Callers, SetForceStop(c) PROVE Said' /\ FlagsAgree'
  <2>1. /\ half[c] # "idle" /\ half' = [half EXCEPT ![c] = "idle"]
        /\ force' = (half[c] = "eject") /\ state_eject' = state_eject
    BY <1>3 DEF SetForceStop
  <2>2. state_eject <=> half[c] = "eject"  BY <2>1 DEF Said
  <2>3. state_eject' <=> force'  BY <2>1, <2>2, Zenon
  <2>4. \A d \in Callers : half'[d] = "idle"  BY <1>a, <2>1 DEF OneCaller
  <2>. QED  BY <2>3, <2>4, Zenon DEF Said, FlagsAgree
<1>4. CASE Thread \/ Deck \/ KthreadStop \/ UNCHANGED vars \/ \E r \in Requests : Submit(r)
  <2>1. UNCHANGED eject
    BY <1>4 DEF Thread, Deck, Prepare, Again, Fetch, TestStop, Scheduled, Dispatch, Gate, Enter,
       ReadStopped, ReadSucceeds, ReadFails, KthreadStop, Submit, vars
  <2>. QED  BY <1>1, <2>1
<1>. QED  BY <1>2, <1>3, <1>4 DEF Next

\* When nobody comes between the two stores of set_State_eject, the flags agree
\* after each: what FlagsAgree is violated by is the missing lock around the
\* second store (cdrom.c:386), not the order of the commands.
THEOREM FlagsAgreeOneByOne == Spec /\ []OneCaller => []FlagsAgree
<1>1. Init => Said /\ FlagsAgree
  BY Zenon DEF Init, Said, FlagsAgree
<1>2. ThreadInv /\ Said /\ FlagsAgree /\ OneCaller /\ OneCaller' /\ [Next]_vars
         => Said' /\ FlagsAgree'
  BY NextSaid
<1>. QED  BY <1>1, <1>2, ThreadInvariant, PTL DEF Spec
=============================================================================
