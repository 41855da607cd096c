---------------------------- MODULE SeekChannel ----------------------------
(***************************************************************************)
(* CD_Send_msf and its answer.  The reading thread sends the address over  *)
(* netlink and sleeps on tcc_completion for at most ten seconds.  The deck *)
(* daemon, a user process, moves the pick-up and answers with an 'S'       *)
(* message, which nl_recv_msg hands to CD_SeekResultMonitor: it stores     *)
(* seek_response and completes tcc_completion.                             *)
(*                                                                         *)
(* The completion is a counter that nobody resets, seek_response is one    *)
(* cell, and neither says which seek it is about.  The model numbers the   *)
(* seeks; the driver does not.                                             *)
(*                                                                         *)
(* The daemon is not part of the repository: it is modelled by what        *)
(* nl_send_msf sends it and nl_recv_msg takes from it.                     *)
(***************************************************************************)
EXTENDS Naturals

CONSTANTS
    PROMPT,      \* TRUE: an answer that comes, comes within ten seconds
    MAXSEEKS,    \* bound: seeks of the reading thread
    MAXPID       \* bound: incarnations of the daemon

ASSUME PromptAssumption == PROMPT \in BOOLEAN
ASSUME BoundsAssumption == MAXSEEKS \in Nat /\ MAXPID \in Nat \ {0}

VARIABLES
    pc,          \* the reading thread
    seekNo,      \* seeks sent so far; the last is the current one
    result,      \* what CD_Send_msf returns
    cdif,        \* the CDIF was started after the last seek
    done,        \* tcc_completion.done
    response,    \* seek_response: [for |-> seek, ok |-> seek_response[1] = 1]
    recvPid,     \* recv_pid; 0 before the first message
    pid,         \* the daemon's process
    sent,        \* seeks in the daemon's socket
    daemon,      \* what the daemon does
    current,     \* the seek it works on
    reached,     \* whether that seek succeeded
    at           \* the seek whose target the pick-up is on, 0 for none

thread  == <<pc, seekNo, result, cdif>>
kernel  == <<done, response, recvPid>>
deck    == <<pid, sent, daemon, current, reached, at>>
vars    == <<thread, kernel, deck>>

Cleared == [for |-> 0, ok |-> FALSE]

\* The current seek's answer is still to come.
InFlight == sent # {} \/ daemon # "idle"
-----------------------------------------------------------------------------
Init ==
    /\ pc = "idle" /\ seekNo = 0 /\ result = "none" /\ cdif = FALSE
    /\ done = 0 /\ response = Cleared /\ recvPid = 0
    /\ pid = 1 /\ sent = {} /\ daemon = "idle" /\ current = 0 /\ reached = FALSE
    /\ at = 0
-----------------------------------------------------------------------------
(* The reading thread: CD_Do_StopBuffering and CD_Send_msf.                *)

\* nl_send_msf.  Nothing is sent before the daemon has spoken; unicast fails
\* when the daemon that spoke is gone or its socket is full.  The caller is
\* not told.
SendMsf ==
    /\ pc = "idle" /\ seekNo < MAXSEEKS
    /\ pc' = "wait"
    /\ seekNo' = seekNo + 1
    /\ \/ recvPid = pid /\ sent' = sent \cup {seekNo + 1}
       \/ sent' = sent
    /\ result' = "none"
    /\ cdif' = FALSE
    /\ UNCHANGED <<kernel, pid, daemon, current, reached, at>>

\* Mutation: the wait is left without a completion.
WakeUpUnchecked ==
    /\ pc = "wait"
    /\ pc' = "read"
    /\ done' = done - 1
    /\ UNCHANGED <<seekNo, result, cdif, response, recvPid, deck>>

\* wait_for_completion_interruptible_timeout returns a completion (a kernel
\* thread gets no signal) ...
WakeUp ==
    /\ pc = "wait" /\ done > 0
    /\ pc' = "read"
    /\ done' = done - 1
    /\ UNCHANGED <<seekNo, result, cdif, response, recvPid, deck>>

\* ... or the ten seconds pass.  The request is not taken back.
TimeOut ==
    /\ pc = "wait" /\ done = 0
    /\ PROMPT => ~InFlight
    /\ pc' = "decide"
    /\ result' = "SEEK_TIME_OUT"
    /\ UNCHANGED <<seekNo, cdif, kernel, deck>>

\* Mutation: any answer counts as success.
ReadResponseUntested ==
    /\ pc = "read"
    /\ pc' = "clear"
    /\ result' = IF response.for # 0 THEN "SEEK_OK" ELSE "DECK_ERROR"
    /\ UNCHANGED <<seekNo, cdif, kernel, deck>>

ReadResponse ==
    /\ pc = "read"
    /\ pc' = "clear"
    /\ result' = IF response.ok THEN "SEEK_OK" ELSE "DECK_ERROR"
    /\ UNCHANGED <<seekNo, cdif, kernel, deck>>

ClearResponse ==
    /\ pc = "clear"
    /\ pc' = "decide"
    /\ response' = Cleared
    /\ UNCHANGED <<seekNo, result, cdif, done, recvPid, deck>>

\* CD_Do_StopBuffering goes on unless the answer is DECK_ERROR.
Decide ==
    /\ pc = "decide"
    /\ pc' = "idle"
    /\ cdif' = (result # "DECK_ERROR")
    /\ result' = "none"
    /\ UNCHANGED <<seekNo, kernel, deck>>
-----------------------------------------------------------------------------
(* The deck daemon and nl_recv_msg.                                        *)

\* Any message (a table of contents, an eject) makes the daemon known.
Announce ==
    /\ recvPid' = pid
    /\ UNCHANGED <<thread, done, response, deck>>

\* The daemon is restarted; what its socket held is lost.
Restart ==
    /\ pid < MAXPID /\ daemon # "completing"
    /\ pid' = pid + 1
    /\ sent' = {} /\ daemon' = "idle"
    /\ UNCHANGED <<thread, kernel, current, reached, at>>

\* The requests are served in the order they were sent.
BeginSeek ==
    /\ daemon = "idle" /\ daemon' = "moving"
    /\ \E n \in sent :
          /\ \A m \in sent : n <= m
          /\ current' = n
          /\ sent' = sent \ {n}
    /\ at' = 0
    /\ UNCHANGED <<thread, kernel, pid, reached>>

FinishSeek ==
    /\ daemon = "moving" /\ daemon' = "answering"
    /\ reached' \in BOOLEAN
    /\ at' = IF reached' THEN current ELSE 0
    /\ UNCHANGED <<thread, kernel, pid, sent, current>>

\* nl_recv_msg and CD_SeekResultMonitor: first the response ...
StoreResponse ==
    /\ daemon = "answering" /\ daemon' = "completing"
    /\ recvPid' = pid
    /\ response' = [for |-> current, ok |-> reached]
    /\ UNCHANGED <<thread, done, pid, sent, current, reached, at>>

\* Mutation: one answer is completed twice.
CompleteTwice ==
    /\ daemon = "completing" /\ daemon' = "idle"
    /\ done' = done + 2
    /\ UNCHANGED <<thread, response, recvPid, pid, sent, current, reached, at>>

\* ... then complete().
Complete ==
    /\ daemon = "completing" /\ daemon' = "idle"
    /\ done' = done + 1
    /\ UNCHANGED <<thread, response, recvPid, pid, sent, current, reached, at>>
-----------------------------------------------------------------------------
Thread == SendMsf \/ WakeUp \/ TimeOut \/ ReadResponse \/ ClearResponse \/ Decide
Daemon == Announce \/ Restart \/ BeginSeek \/ FinishSeek \/ StoreResponse \/ Complete

Next == Thread \/ Daemon

Spec == Init /\ [][Next]_vars
-----------------------------------------------------------------------------
TypeOK ==
    /\ pc \in {"idle", "wait", "read", "clear", "decide"}
    /\ seekNo \in 0 .. MAXSEEKS
    /\ result \in {"none", "SEEK_OK", "DECK_ERROR", "SEEK_TIME_OUT"}
    /\ cdif \in BOOLEAN
    /\ done \in Nat
    /\ response \in [for : 0 .. MAXSEEKS, ok : BOOLEAN]
    /\ recvPid \in 0 .. MAXPID /\ pid \in 1 .. MAXPID
    /\ sent \subseteq 1 .. MAXSEEKS
    /\ daemon \in {"idle", "moving", "answering", "completing"}
    /\ current \in 0 .. MAXSEEKS
    /\ reached \in BOOLEAN
    /\ at \in 0 .. MAXSEEKS

Answered == pc \in {"clear", "decide"}

\* "seek success" (cdif_drv.c:363): when CD_Send_msf takes the answer for a
\* success, the pick-up is where this seek, and no earlier one, asked for.
SuccessIsCurrent == Answered /\ result = "SEEK_OK" => at = seekNo

\* The seek as the reading thread may see it.
Service == INSTANCE SeekService
    WITH NOWHERE <- 0,
         state   <- IF pc = "idle" THEN "idle"
                    ELSE IF Answered THEN "answered" ELSE "pending",
         answer  <- IF Answered THEN result ELSE "none"

\* CD_Send_msf implements the seek service.
ServiceImplemented == Service!Spec
=============================================================================
