----------------------------- MODULE BlockThread -----------------------------
(***************************************************************************)
(* The request thread of the block device, tcr_issue_rq, with everybody    *)
(* who disturbs it: the block layer submits requests and wakes it, the     *)
(* netlink callback and the mount of a disc call set_State_eject, and the  *)
(* removal of the driver calls kthread_stop.                               *)
(*                                                                         *)
(* The thread takes a request, refuses it or reads it segment by segment   *)
(* with CD_ReadSector, and sleeps when there is none.  Of CD_ReadSector    *)
(* only what CdifRing and SectorRead say about it is kept: it succeeds, it *)
(* fails, or it ends because CD_DevForceStop is set.                       *)
(***************************************************************************)
EXTENDS Integers

CONSTANTS
    Reads,        \* REQ_TYPE_FS requests that read
    Others,       \* writes and requests of other types
    NONE,         \* no request (req == NULL)
    MAXSEGMENTS,  \* bound: segments of a request
    COMMANDS      \* bound: calls of set_State_eject

Requests == Reads \cup Others

ASSUME RequestAssumption == Reads \cap Others = {} /\ NONE \notin Requests
ASSUME BoundAssumption == MAXSEGMENTS \in Nat \ {0} /\ COMMANDS \in Nat

\* The callers of set_State_eject: the netlink callback passes on what the
\* daemon says, tcr_read_tochdr always 0 (a disc is mounted).
Callers == {"daemon", "opener"}
Says(c) == IF c = "daemon" THEN {"eject", "mount"} ELSE {"mount"}

VARIABLES
    pc,           \* where tcr_issue_rq is
    task,         \* the state of its task
    req,          \* the request it works on
    queue,        \* the request queue; the elevator chooses the order
    left,         \* segments of each request still to be read
    outcome,      \* how each request ended
    ends,         \* history: how often each request was ended
    stop,         \* kthread_stop was called
    state_eject,  \* state_eject == 1
    force,        \* CD_DevForceStop # 0
    half,         \* set_State_eject: the caller has set state_eject only
    commands      \* calls of set_State_eject so far

thread   == <<pc, task, req>>
requests == <<queue, left, outcome, ends>>
eject    == <<state_eject, force, half, commands>>
vars     == <<thread, requests, stop, eject>>

Init ==
    /\ pc = "loop" /\ task = "TASK_RUNNING" /\ req = NONE
    /\ queue = {} /\ left = [r \in Requests |-> 0]
    /\ outcome = [r \in Requests |-> "new"] /\ ends = [r \in Requests |-> 0]
    /\ stop = FALSE
    /\ state_eject = FALSE /\ force = FALSE
    /\ half = [c \in Callers |-> "idle"] /\ commands = 0
-----------------------------------------------------------------------------
(* The thread.                                                             *)

\* Mutation: the thread looks for kthread_stop before it looks for requests.
StopFirst ==
    /\ pc = "loop" /\ req = NONE
    /\ IF stop THEN pc' = "gone" /\ UNCHANGED task
       ELSE pc' = "fetch" /\ task' = "TASK_INTERRUPTIBLE"
    /\ UNCHANGED <<req, requests, stop, eject>>

\* The task state is set before the queue is looked at ...
Prepare ==
    /\ pc = "loop" /\ req = NONE
    /\ pc' = "fetch" /\ task' = "TASK_INTERRUPTIBLE"
    /\ UNCHANGED <<req, requests, stop, eject>>

\* ... which is left out while segments of a request are still to be read.
Again ==
    /\ pc = "loop" /\ req # NONE
    /\ pc' = "dispatch"
    /\ UNCHANGED <<task, req, requests, stop, eject>>

Fetch ==
    /\ pc = "fetch"
    /\ \/ \E r \in queue :
             /\ queue' = queue \ {r} /\ req' = r
             /\ pc' = "dispatch"
       \/ queue = {} /\ pc' = "test" /\ UNCHANGED <<queue, req>>
    /\ UNCHANGED <<task, left, outcome, ends, stop, eject>>

\* Mutation: the task state is set only now, just before schedule().
TestStopSleepy ==
    /\ pc = "test"
    /\ IF stop THEN pc' = "gone" /\ task' = "TASK_RUNNING"
       ELSE pc' = "sleep" /\ task' = "TASK_INTERRUPTIBLE"
    /\ UNCHANGED <<req, requests, stop, eject>>

\* Mutation: kthread_should_stop is not asked.
TestStopNever ==
    /\ pc = "test" /\ pc' = "sleep"
    /\ UNCHANGED <<task, req, requests, stop, eject>>

\* No request: end, or call schedule().
TestStop ==
    /\ pc = "test"
    /\ IF stop THEN pc' = "gone" /\ task' = "TASK_RUNNING"
       ELSE pc' = "sleep" /\ UNCHANGED task
    /\ UNCHANGED <<req, requests, stop, eject>>

\* schedule() returns only to a task that is running.
Scheduled ==
    /\ pc = "sleep" /\ task = "TASK_RUNNING"
    /\ pc' = "loop"
    /\ UNCHANGED <<task, req, requests, stop, eject>>

\* __blk_end_request_all(req, -EIO); req = NULL.
EndAll ==
    /\ outcome' = [outcome EXCEPT ![req] = "error"]
    /\ ends' = [ends EXCEPT ![req] = @ + 1]
    /\ req' = NONE
    /\ pc' = "loop"
    /\ UNCHANGED <<queue, left>>

Dispatch ==
    /\ pc = "dispatch" /\ task' = "TASK_RUNNING"
    /\ IF req \in Reads THEN pc' = "gate" /\ UNCHANGED <<req, requests>> ELSE EndAll
    /\ UNCHANGED <<stop, eject>>

\* Mutation: the refused request is not forgotten.
GateKept ==
    /\ pc = "gate"
    /\ IF state_eject
       THEN /\ outcome' = [outcome EXCEPT ![req] = "error"]
            /\ ends' = [ends EXCEPT ![req] = @ + 1]
            /\ pc' = "loop" /\ UNCHANGED <<req, queue, left>>
       ELSE pc' = "enter" /\ UNCHANGED <<req, requests>>
    /\ UNCHANGED <<task, stop, eject>>

\* Mutation: only the first segment of a long request is refused.
GateOpen ==
    /\ pc = "gate"
    /\ IF state_eject /\ left[req] = MAXSEGMENTS THEN EndAll
       ELSE pc' = "enter" /\ UNCHANGED <<req, requests>>
    /\ UNCHANGED <<task, stop, eject>>

\* Under tcr_umount: a request is refused while the deck is ejected.
Gate ==
    /\ pc = "gate"
    /\ IF state_eject THEN EndAll ELSE pc' = "enter" /\ UNCHANGED <<req, requests>>
    /\ UNCHANGED <<task, stop, eject>>

\* CD_ReadSector returns at once when force stop is set.
Enter ==
    /\ pc = "enter"
    /\ IF force THEN EndAll ELSE pc' = "read" /\ UNCHANGED <<req, requests>>
    /\ UNCHANGED <<task, stop, eject>>

\* Mutation: force stop is not looked at while the read waits.
ReadStoppedNever == pc = "read" /\ force /\ UNCHANGED vars

\* ... and where its loops see it.
ReadStopped ==
    /\ pc = "read" /\ force
    /\ EndAll
    /\ UNCHANGED <<task, stop, eject>>

\* Mutation: the last segment is not recognised.
ReadSucceedsLate ==
    /\ pc = "read" /\ pc' = "loop"
    /\ left' = [left EXCEPT ![req] = @ - 1]
    /\ IF left[req] = 0
       THEN /\ outcome' = [outcome EXCEPT ![req] = "ok"]
            /\ ends' = [ends EXCEPT ![req] = @ + 1]
            /\ req' = NONE
       ELSE UNCHANGED <<outcome, ends, req>>
    /\ UNCHANGED <<task, queue, stop, eject>>

\* A segment is read: __blk_end_request says whether it was the last one.
ReadSucceeds ==
    /\ pc = "read" /\ pc' = "loop"
    /\ left' = [left EXCEPT ![req] = @ - 1]
    /\ IF left[req] = 1
       THEN /\ outcome' = [outcome EXCEPT ![req] = "ok"]
            /\ ends' = [ends EXCEPT ![req] = @ + 1]
            /\ req' = NONE
       ELSE UNCHANGED <<outcome, ends, req>>
    /\ UNCHANGED <<task, queue, stop, eject>>

ReadFails ==
    /\ pc = "read" /\ EndAll
    /\ UNCHANGED <<task, stop, eject>>
-----------------------------------------------------------------------------
(* The others.                                                             *)

\* The block layer queues a request and calls tcr_request under the queue
\* lock: wake_up_process.
Submit(r) ==
    /\ outcome[r] = "new"
    /\ \E n \in 1 .. MAXSEGMENTS : left' = [left EXCEPT ![r] = n]
    /\ outcome' = [outcome EXCEPT ![r] = "queued"]
    /\ queue' = queue \cup {r}
    /\ task' = "TASK_RUNNING"
    /\ UNCHANGED <<pc, req, ends, stop, eject>>

\* kthread_stop, in tcc_cdrom_remove.
KthreadStop ==
    /\ ~stop /\ stop' = TRUE
    /\ task' = "TASK_RUNNING"
    /\ UNCHANGED <<pc, req, requests, eject>>

\* set_State_eject: state_eject under tcr_umount ...
SetStateEject(c) ==
    /\ half[c] = "idle" /\ commands < COMMANDS
    /\ \E command \in Says(c) :
          /\ state_eject' = (command = "eject")
          /\ half' = [half EXCEPT ![c] = command]
    /\ commands' = commands + 1
    /\ UNCHANGED <<thread, requests, stop, force>>

\* ... and then, outside of it, CD_SetDevForceStop.
SetForceStop(c) ==
    /\ half[c] # "idle"
    /\ force' = (half[c] = "eject")
    /\ half' = [half EXCEPT ![c] = "idle"]
    /\ UNCHANGED <<thread, requests, stop, state_eject, commands>>
-----------------------------------------------------------------------------
Thread ==
    \/ Prepare \/ Again \/ Fetch \/ TestStop \/ Scheduled
    \/ Dispatch \/ Gate \/ Enter \/ ReadStopped
Deck == ReadSucceeds \/ ReadFails

Next ==
    \/ Thread \/ Deck
    \/ \E r \in Requests : Submit(r)
    \/ KthreadStop
    \/ \E c \in Callers : SetStateEject(c) \/ SetForceStop(c)

Spec == Init /\ [][Next]_vars

\* The thread is scheduled; the deck may stay silent for ever.
FairSpec == Spec /\ WF_vars(Thread)
-----------------------------------------------------------------------------
TypeOK ==
    /\ pc \in {"loop", "fetch", "test", "sleep", "dispatch", "gate", "enter", "read", "gone"}
    /\ task \in {"TASK_RUNNING", "TASK_INTERRUPTIBLE"}
    /\ req \in Requests \cup {NONE}
    /\ queue \subseteq Requests
    /\ left \in [Requests -> 0 .. MAXSEGMENTS]
    /\ outcome \in [Requests -> {"new", "queued", "ok", "error"}]
    /\ ends \in [Requests -> Nat]
    /\ stop \in BOOLEAN /\ state_eject \in BOOLEAN /\ force \in BOOLEAN
    /\ half \in [Callers -> {"idle", "eject", "mount"}]
    /\ commands \in 0 .. COMMANDS

\* A thread that is about to sleep for good leaves no request in the queue and
\* has not been told to stop: no wake-up is lost between the fetch and
\* schedule(), whatever the order of submissions and of kthread_stop.
NoLostWakeup ==
    task = "TASK_INTERRUPTIBLE" /\ pc \in {"test", "sleep"} =>
        queue = {} /\ (stop => pc = "test")

Ended(r) == outcome[r] \in {"ok", "error"}

\* A request is ended once at most, and until then it is in the queue or in the
\* thread's hands, not in both: none is forgotten and none is used after its
\* end, on any of the paths that end a request.
EndedOnce ==
    /\ \A r \in Requests :
          /\ ends[r] = IF Ended(r) THEN 1 ELSE 0
          /\ outcome[r] = "queued" <=> r \in queue \/ r = req
    /\ req \notin queue

\* A request in the queue that the thread has still to look at, before
\* kthread_stop.  One that comes between the thread's look at the queue and its
\* question kthread_should_stop is not: if the driver is removed in that moment
\* the thread ends and the request stays in the queue for ever.
Accepted(r) == r \in queue /\ ~stop /\ pc # "test"

\* Every CD_ReadSector returns (with a steady deck it does, see CdifRing).
ReadsReturn == WF_vars(Deck)

\* Every accepted request is ended, also when the thread is stopped before it
\* gets to it, provided that every CD_ReadSector returns.
EveryRequestEnds == ReadsReturn => \A r \in Requests : Accepted(r) ~> Ended(r)

\* On the same condition kthread_stop returns: the thread ends once it has
\* worked off the queue.
RemoveReturns == ReadsReturn => (stop ~> pc = "gone")

\* After an eject that lasts every queued request is ended, also when the deck
\* never delivers another sample.
EjectEndsRequests ==
    <>[](state_eject /\ force) => \A r \in Requests : Accepted(r) ~> Ended(r)

\* state_eject and CD_DevForceStop say the same when no set_State_eject is
\* under way: after "unmount state initialize" (cdrom_drv.c:60) neither is set,
\* unless an eject came later and set both.
FlagsAgree == (\A c \in Callers : half[c] = "idle") => (state_eject <=> force)

\* The drive as the block layer and the one who ejects may see it.
Device == INSTANCE BlockDevice
    WITH current <- req,
         reading <- pc \in {"enter", "read"},
         ejected <- state_eject

\* The thread implements the abstract drive: one request at a time, successful
\* only when all its segments were read, and no segment is begun while the disc
\* is ejected -- also not the second segment of a request that was admitted
\* before the eject (the gate of tcr_issue_rq is passed again for each).
DeviceImplemented == Device!Spec
=============================================================================
