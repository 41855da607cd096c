------------------------- MODULE SeekChannelProofs -------------------------
(***************************************************************************)
(* If no answer comes later than ten seconds after its request (PROMPT),   *)
(* CD_Send_msf implements SeekService, however often the daemon dies,      *)
(* whatever it loses, and for every number of seeks.                       *)
(***************************************************************************)
EXTENDS SeekChannel, TLAPS

\* A request or an answer is under way only while the thread waits for it,
\* and there is only one.
OneAtATime ==
    /\ InFlight => pc = "wait" /\ done = 0
    /\ sent # {} => sent = {seekNo} /\ daemon = "idle"
    /\ daemon # "idle" => current = seekNo

\* A completion is there for the current seek only, and only once.
OneCompletion ==
    /\ done \in {0, 1}
    /\ done = 1 => pc = "wait" /\ ~InFlight

\* What the daemon found is where the pick-up is.
DaemonKnows ==
    /\ daemon \in {"answering", "completing"} => (reached <=> at = seekNo)
    /\ daemon = "completing" => response.ok = reached

\* What the thread reads, or has read, is where the pick-up is.
ThreadKnows ==
    /\ done = 1 \/ pc = "read" => (response.ok <=> at = seekNo)
    /\ Answered /\ result = "SEEK_OK" => at = seekNo
    /\ Answered /\ result = "DECK_ERROR" => at # seekNo

Begun == pc # "idle" => seekNo # 0
Ended == Answered => result # "none"

ChannelInv ==
    /\ TypeOK
    /\ OneAtATime
    /\ OneCompletion
    /\ DaemonKnows
    /\ ThreadKnows
    /\ Begun
    /\ Ended
-----------------------------------------------------------------------------
LEMMA ChannelInvInit == Init => ChannelInv
  <1> SUFFICES ASSUME Init PROVE ChannelInv
    OBVIOUS
  <1> USE BoundsAssumption DEF Init
  <1>1. TypeOK
    <2>1. /\ sent \subseteq 1 .. MAXSEEKS
          /\ response \in [for : 0 .. MAXSEEKS, ok : BOOLEAN]
      BY DEF Cleared
    <2>2. cdif \in BOOLEAN /\ reached \in BOOLEAN
      BY Zenon
    <2> QED
      BY <2>1, <2>2 DEF TypeOK
  <1>2. OneAtATime /\ OneCompletion /\ DaemonKnows /\ ThreadKnows /\ Begun /\ Ended
    BY DEF OneAtATime, OneCompletion, DaemonKnows, ThreadKnows, Begun, Ended, InFlight, Answered
  <1> QED
    BY <1>1, <1>2 DEF ChannelInv

LEMMA TypeOKNext == TypeOK /\ [Next]_vars => TypeOK'
  <1> SUFFICES ASSUME TypeOK, [Next]_vars PROVE TypeOK'
    OBVIOUS
  <1> USE BoundsAssumption DEF TypeOK, thread, kernel, deck
  <1>1. CASE SendMsf
    <2> USE <1>1 DEF SendMsf
    <2>1. seekNo' \in 1 .. MAXSEEKS
      OBVIOUS
    <2>2. sent' \subseteq 1 .. MAXSEEKS
      BY <2>1
    <2>3. cdif' \in BOOLEAN /\ reached' \in BOOLEAN
      BY Zenon
    <2>4. /\ pc' \in {"idle", "wait", "read", "clear", "decide"}
          /\ seekNo' \in 0 .. MAXSEEKS
          /\ result' \in {"none", "SEEK_OK", "DECK_ERROR", "SEEK_TIME_OUT"}
          /\ UNCHANGED <<kernel, pid, daemon, current, reached, at>>
      OBVIOUS
    <2> QED
      BY <2>2, <2>3, <2>4
  <1>2. CASE WakeUp
    BY <1>2 DEF WakeUp
  <1>3. CASE TimeOut
    BY <1>3 DEF TimeOut
  <1>4. CASE ReadResponse
    BY <1>4 DEF ReadResponse
  <1>5. CASE ClearResponse
    BY <1>5 DEF ClearResponse, Cleared
  <1>6. CASE Decide
    BY <1>6 DEF Decide
  <1>7. CASE Announce
    BY <1>7 DEF Announce
  <1>8. CASE Restart
    BY <1>8 DEF Restart
  <1>9. CASE BeginSeek
    BY <1>9 DEF BeginSeek
  <1>10. CASE FinishSeek
    BY <1>10 DEF FinishSeek
  <1>11. CASE StoreResponse
    BY <1>11 DEF StoreResponse
  <1>12. CASE Complete
    BY <1>12 DEF Complete
  <1>13. CASE UNCHANGED vars
    BY <1>13 DEF vars
  <1> QED
    BY <1>1, <1>2, <1>3, <1>4, <1>5, <1>6, <1>7, <1>8, <1>9, <1>10, <1>11, <1>12, <1>13
       DEF Next, Thread, Daemon

LEMMA ChannelInvNext ==
  ASSUME PROMPT, ChannelInv, [Next]_vars
  PROVE  ChannelInv'
  <1> TypeOK /\ TypeOK'
    BY TypeOKNext DEF ChannelInv
  <1> SUFFICES /\ OneAtATime' /\ OneCompletion' /\ DaemonKnows'
               /\ ThreadKnows' /\ Begun' /\ Ended'
    BY DEF ChannelInv
  <1> USE DEF ChannelInv, TypeOK, OneAtATime, OneCompletion, DaemonKnows, ThreadKnows,
              Begun, Ended, InFlight, Answered, thread, kernel, deck
  <1>1. CASE SendMsf
    BY <1>1 DEF SendMsf
  <1>2. CASE WakeUp
    BY <1>2 DEF WakeUp
  <1>3. CASE TimeOut
    BY <1>3 DEF TimeOut
  <1>4. CASE ReadResponse
    BY <1>4 DEF ReadResponse
  <1>5. CASE ClearResponse
    BY <1>5 DEF ClearResponse
  <1>6. CASE Decide
    BY <1>6 DEF Decide
  <1>7. CASE Announce
    BY <1>7 DEF Announce
  <1>8. CASE Restart
    BY <1>8 DEF Restart
  <1>9. CASE BeginSeek
    BY <1>9 DEF BeginSeek
  <1>10. CASE FinishSeek
    BY <1>10 DEF FinishSeek
  <1>11. CASE StoreResponse
    BY <1>11 DEF StoreResponse
  <1>12. CASE Complete
    BY <1>12 DEF Complete
  <1>13. CASE UNCHANGED vars
    BY <1>13 DEF vars
  <1> QED
    BY <1>1, <1>2, <1>3, <1>4, <1>5, <1>6, <1>7, <1>8, <1>9, <1>10, <1>11, <1>12, <1>13
       DEF Next, Thread, Daemon

LEMMA ChannelInvariant == PROMPT /\ Spec => []ChannelInv
  <1>1. Init => ChannelInv
    BY ChannelInvInit
  <1>2. PROMPT /\ ChannelInv /\ [Next]_vars => ChannelInv'
    BY ChannelInvNext
  <1>3. CASE PROMPT
    <2>1. ChannelInv /\ [Next]_vars => ChannelInv'
      BY <1>2, <1>3
    <2> QED
      BY <1>1, <2>1, PTL DEF Spec
  <1> QED
    BY <1>3
-----------------------------------------------------------------------------
\* The variables of the seek channel keep their types, late answers or not.
THEOREM TypeCorrect == Spec => []TypeOK
  <1>1. Init => TypeOK
    BY ChannelInvInit DEF ChannelInv
  <1> QED
    BY <1>1, TypeOKNext, PTL DEF Spec

\* When no answer is late, CD_Send_msf reports a success only if the pick-up
\* is where the current seek asked for.
THEOREM SuccessIsAboutTheCurrentSeek == PROMPT /\ Spec => []SuccessIsCurrent
  <1>1. ChannelInv => SuccessIsCurrent
    BY DEF ChannelInv, ThreadKnows, SuccessIsCurrent
  <1> QED
    BY <1>1, ChannelInvariant, PTL
-----------------------------------------------------------------------------
LEMMA ServiceInit == Init => Service!Init
  BY DEF Init, Service!Init

LEMMA ServiceNext ==
  ASSUME PROMPT, ChannelInv, [Next]_vars
  PROVE  [Service!Next]_(Service!vars)
  <1> USE DEF Service!Next, Service!vars, Service!Ask, Service!Move, Service!Answer,
              Service!Resume, Service!Answers, Answered, thread, kernel, deck
  <1> USE DEF ChannelInv, TypeOK
  <1>1. CASE SendMsf
    <2>1. Service!Ask
      BY <1>1 DEF SendMsf
    <2> QED
      BY <2>1
  <1>2. CASE WakeUp
    BY <1>2 DEF WakeUp
  <1>3. CASE TimeOut
    <2>1. Service!Answer
      BY <1>3 DEF TimeOut
    <2> QED
      BY <2>1
  <1>4. CASE ReadResponse
    <2>1. Service!Answer
      BY <1>4 DEF ReadResponse, ThreadKnows
    <2> QED
      BY <2>1
  <1>5. CASE ClearResponse
    BY <1>5 DEF ClearResponse
  <1>6. CASE Decide
    <2>1. Service!Resume
      BY <1>6 DEF Decide
    <2> QED
      BY <2>1
  <1>7. CASE Announce
    BY <1>7 DEF Announce
  <1>8. CASE Restart
    BY <1>8 DEF Restart
  <1>9. CASE BeginSeek
    <2>1. Service!Move
      BY <1>9 DEF BeginSeek, OneAtATime, InFlight
    <2> QED
      BY <2>1
  <1>10. CASE FinishSeek
    <2>1. Service!Move
      BY <1>10 DEF FinishSeek, OneAtATime, InFlight
    <2> QED
      BY <2>1
  <1>11. CASE StoreResponse
    BY <1>11 DEF StoreResponse
  <1>12. CASE Complete
    BY <1>12 DEF Complete
  <1>13. CASE UNCHANGED vars
    BY <1>13 DEF vars
  <1> QED
    BY <1>1, <1>2, <1>3, <1>4, <1>5, <1>6, <1>7, <1>8, <1>9, <1>10, <1>11, <1>12, <1>13
       DEF Next, Thread, Daemon

\* When no answer is late, CD_Send_msf, netlink and the completion together
\* are the seek service: every step is one of its steps or changes nothing
\* that it shows.
THEOREM ImplementsService == PROMPT /\ Spec => ServiceImplemented
  <1>1. Init => Service!Init
    BY ServiceInit
  <1>2. PROMPT /\ ChannelInv /\ [Next]_vars => [Service!Next]_(Service!vars)
    BY ServiceNext
  <1>3. CASE PROMPT
    <2>1. ChannelInv /\ [Next]_vars => [Service!Next]_(Service!vars)
      BY <1>2, <1>3
    <2>2. Spec => []ChannelInv
      BY <1>3, ChannelInvariant
    <2> QED
      BY <1>1, <2>1, <2>2, PTL DEF ServiceImplemented, Service!Spec, Spec
  <1> QED
    BY <1>3
=============================================================================
