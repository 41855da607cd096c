------------------------------ MODULE Lifecycle ------------------------------
(***************************************************************************)
(* Who may still use the drive: probe and remove of the driver against the *)
(* processes that open and close it.                                       *)
(*                                                                         *)
(* Every successful probe makes a disk and a tcc_cd with one reference.    *)
(* An opener first finds the disk, then takes a reference (tcr_cd_get) and *)
(* lets the CD-ROM layer open it; remove may delete the disk and drop its  *)
(* own reference at any point of that.  Whoever drops the last reference   *)
(* frees the tcc_cd and gives its minor back; disk->private_data tells     *)
(* late openers that it is gone.  The driver may be bound again while a    *)
(* removed disk is still open: disks are numbered by their probes.         *)
(*                                                                         *)
(* An open that comes before probe has set cdrom_dev takes the reference   *)
(* of a NULL device: the process ends in the kernel with tcr_mutex and     *)
(* tcr_ref_mutex locked ("oops").                                          *)
(***************************************************************************)
EXTENDS Integers, FiniteSets

CONSTANTS
    Openers,     \* processes that open the drive
    TCR_DISKS,   \* minors
    PROBES       \* bound: probes

Disks  == 1 .. PROBES
Minors == 0 .. TCR_DISKS - 1

ASSUME OpenerAssumption == IsFiniteSet(Openers)
ASSUME CountAssumption == TCR_DISKS \in Nat /\ PROBES \in Nat

VARIABLES
    bound,      \* how far probe or remove of the platform device is
    latest,     \* the disk of the last probe, 0 before the first
    cd,         \* each disk's tcc_cd
    kref,       \* its reference count
    private,    \* disk->private_data # NULL
    listed,     \* the disks that can be looked up
    minor,      \* each disk's minor
    bits,       \* tcr_index_bits
    lost,       \* history: minors of probes that failed after taking them
    cdrom_dev,  \* cdrom_dev # NULL
    devrefs,    \* get_device(&cdrom_dev->dev) without put_device
    state, on   \* each opener: what it does, with which disk

drive  == <<cd, kref, private, bits>>
names  == <<minor, lost>>
opener == <<state, on>>
vars   == <<bound, latest, drive, listed, names, cdrom_dev, devrefs, opener>>

Init ==
    /\ bound = "unbound" /\ latest = 0
    /\ cd = [d \in Disks |-> "none"] /\ kref = [d \in Disks |-> 0]
    /\ private = [d \in Disks |-> FALSE]
    /\ listed = {} /\ minor = [d \in Disks |-> 0] /\ bits = {} /\ lost = {}
    /\ cdrom_dev = FALSE /\ devrefs = 0
    /\ state = [o \in Openers |-> "out"] /\ on = [o \in Openers |-> 0]
-----------------------------------------------------------------------------
(* References.                                                             *)

\* Mutation: late openers still find the freed tcc_cd.
ReleaseVisible(d) ==
    /\ cd' = [cd EXCEPT ![d] = "freed"]
    /\ bits' = bits \ {minor[d]}
    /\ UNCHANGED private

\* Mutation: the minor is not given back.
ReleaseBitKept(d) ==
    /\ cd' = [cd EXCEPT ![d] = "freed"]
    /\ private' = [private EXCEPT ![d] = FALSE]
    /\ UNCHANGED bits

\* tcr_kref_release.
Release(d) ==
    /\ cd' = [cd EXCEPT ![d] = "freed"]
    /\ private' = [private EXCEPT ![d] = FALSE]
    /\ bits' = bits \ {minor[d]}

\* kref_put(&cd->kref, tcr_kref_release).
KrefPut(d) ==
    /\ kref' = [kref EXCEPT ![d] = @ - 1]
    /\ IF kref[d] = 1 THEN Release(d) ELSE UNCHANGED <<cd, private, bits>>

\* Nobody holds tcr_mutex, tcr_ref_mutex.  tcr_ref_mutex is held inside an
\* action only, unless its holder died.
TcrMutexFree == \A o \in Openers : state[o] \notin {"opening", "oops"}
RefMutexFree == \A o \in Openers : state[o] # "oops"
-----------------------------------------------------------------------------
(* Probe and remove: tcc_cdrom_probe, tcc_cdrom_remove.                    *)

FirstZeroBit(m) == m \in Minors \ bits /\ \A k \in Minors \ bits : m <= k

\* tcr_initial makes the disk and adds it: from here on it can be opened.
Initial ==
    /\ bound = "unbound" /\ latest < PROBES
    /\ \E m \in Minors :
          /\ FirstZeroBit(m)
          /\ minor' = [minor EXCEPT ![latest + 1] = m]
          /\ bits' = bits \cup {m}
    /\ bound' = "added" /\ latest' = latest + 1
    /\ cd' = [cd EXCEPT ![latest + 1] = "live"]
    /\ kref' = [kref EXCEPT ![latest + 1] = 1]
    /\ private' = [private EXCEPT ![latest + 1] = TRUE]
    /\ listed' = listed \cup {latest + 1}
    /\ UNCHANGED <<lost, cdrom_dev, devrefs, opener>>

\* register_cdrom fails: fail_put does not give the minor back.
InitialFails ==
    /\ bound = "unbound" /\ latest < PROBES
    /\ \E m \in Minors :
          FirstZeroBit(m) /\ bits' = bits \cup {m} /\ lost' = lost \cup {m}
    /\ latest' = latest + 1
    /\ UNCHANGED <<bound, cd, kref, private, listed, minor, cdrom_dev, devrefs, opener>>

\* The rest of probe: the CDIF and the netlink socket, then cdrom_dev.
ProbeDone ==
    /\ bound = "added" /\ bound' = "bound"
    /\ cdrom_dev' = TRUE
    /\ UNCHANGED <<latest, drive, listed, names, devrefs, opener>>

\* kthread_stop and blk_cleanup_queue, while the disk can still be opened.
KthreadStop ==
    /\ bound = "bound" /\ bound' = "stopped"
    /\ UNCHANGED <<latest, drive, listed, names, cdrom_dev, devrefs, opener>>

\* tcr_remove: del_gendisk ...
DelGendisk ==
    /\ bound = "stopped" /\ bound' = "deleted"
    /\ listed' = listed \ {latest}
    /\ UNCHANGED <<latest, drive, names, cdrom_dev, devrefs, opener>>

\* ... and the reference of probe.
RemovePut ==
    /\ bound = "deleted" /\ bound' = "put"
    /\ RefMutexFree
    /\ KrefPut(latest)
    /\ UNCHANGED <<latest, listed, names, cdrom_dev, devrefs, opener>>

\* The CDIF, the netlink socket and tdev go.  cdrom_dev stays.
RemoveDone ==
    /\ bound = "put" /\ bound' = "unbound"
    /\ UNCHANGED <<latest, drive, listed, names, cdrom_dev, devrefs, opener>>
-----------------------------------------------------------------------------
(* Openers: tcr_block_open, tcr_block_release.                             *)

\* The block layer finds the disk and calls tcr_block_open.
Lookup(o) ==
    /\ state[o] = "out"
    /\ \E d \in listed : on' = [on EXCEPT ![o] = d]
    /\ state' = [state EXCEPT ![o] = "found"]
    /\ UNCHANGED <<bound, latest, drive, listed, names, cdrom_dev, devrefs>>

\* tcr_cd_put.
CdPut(o) ==
    /\ KrefPut(on[o])
    /\ devrefs' = devrefs - 1
    /\ state' = [state EXCEPT ![o] = "out"]
    /\ UNCHANGED <<bound, latest, listed, names, cdrom_dev, on>>

\* Mutation: a reference is dropped that was not taken.
GetNonePuts(o) ==
    /\ state[o] = "found" /\ TcrMutexFree /\ RefMutexFree
    /\ ~private[on[o]]
    /\ CdPut(o)

\* tcr_cd_get: the tcc_cd is gone, -ENXIO.
GetNone(o) ==
    /\ state[o] = "found" /\ TcrMutexFree /\ RefMutexFree
    /\ ~private[on[o]]
    /\ state' = [state EXCEPT ![o] = "out"]
    /\ UNCHANGED <<bound, latest, drive, listed, names, cdrom_dev, devrefs, on>>

\* tcr_cd_get.  (cd->device is set by probe and never reset.)
Get(o) ==
    /\ state[o] = "found" /\ TcrMutexFree /\ RefMutexFree
    /\ private[on[o]]
    /\ kref' = [kref EXCEPT ![on[o]] = @ + 1]
    /\ IF cdrom_dev
       THEN devrefs' = devrefs + 1 /\ state' = [state EXCEPT ![o] = "opening"]
       ELSE UNCHANGED devrefs /\ state' = [state EXCEPT ![o] = "oops"]
    /\ UNCHANGED <<bound, latest, cd, private, bits, listed, names, cdrom_dev, on>>

OpenSucceeds(o) ==
    /\ state[o] = "opening"
    /\ state' = [state EXCEPT ![o] = "open"]
    /\ UNCHANGED <<bound, latest, drive, listed, names, cdrom_dev, devrefs, on>>

\* Mutation: the reference is kept when cdrom_open fails.
OpenFailsKept(o) ==
    /\ state[o] = "opening"
    /\ state' = [state EXCEPT ![o] = "out"]
    /\ UNCHANGED <<bound, latest, drive, listed, names, cdrom_dev, devrefs, on>>

OpenFails(o) == state[o] = "opening" /\ CdPut(o)

Close(o) == state[o] = "open" /\ TcrMutexFree /\ RefMutexFree /\ CdPut(o)
-----------------------------------------------------------------------------
Driver ==
    \/ Initial \/ InitialFails \/ ProbeDone
    \/ KthreadStop \/ DelGendisk \/ RemovePut \/ RemoveDone

Opener(o) ==
    \/ Lookup(o) \/ GetNone(o) \/ Get(o)
    \/ OpenSucceeds(o) \/ OpenFails(o) \/ Close(o)

Next == Driver \/ \E o \in Openers : Opener(o)

Spec == Init /\ [][Next]_vars
-----------------------------------------------------------------------------
TypeOK ==
    /\ bound \in {"unbound", "added", "bound", "stopped", "deleted", "put"}
    /\ latest \in 0 .. PROBES
    /\ cd \in [Disks -> {"none", "live", "freed"}]
    /\ kref \in [Disks -> Nat]
    /\ private \in [Disks -> BOOLEAN]
    /\ listed \subseteq Disks
    /\ minor \in [Disks -> Int]
    /\ bits \subseteq Minors /\ lost \subseteq Minors
    /\ cdrom_dev \in BOOLEAN
    /\ devrefs \in Int
    /\ state \in [Openers -> {"out", "found", "opening", "open", "oops"}]
    /\ on \in [Openers -> 0 .. PROBES]

Holding == {"opening", "open", "oops"}

\* The openers that count on disk d's tcc_cd.
Holders(d) == {o \in Openers : state[o] \in Holding /\ on[o] = d}

\* Probe's own reference, from tcr_initial to tcr_remove.
Owned(d) == d = latest /\ bound \in {"added", "bound", "stopped", "deleted"}

Owner(d) == IF Owned(d) THEN 1 ELSE 0

\* The openers that hold the platform device.
DeviceHolders == {o \in Openers : state[o] \in {"opening", "open"}}

\* "use the refs on this kref to decide when to release them" (cdrom.h:59-60): the
\* count is that of probe and the openers, and a tcc_cd is there exactly as long
\* as one of them is -- through failing opens, removals in the middle of an
\* open, and binding again with a disk open.  So it is for the device, except
\* for an opener that died before it had taken it.
ReferencesExact ==
    /\ \A d \in Disks :
          /\ kref[d] = Owner(d) + Cardinality(Holders(d))
          /\ cd[d] = "live" <=> kref[d] > 0
    /\ devrefs = Cardinality(DeviceHolders)

\* A tcc_cd that was freed is never taken again, not by an opener that had found
\* its disk before either (disk->private_data, cdrom.c:98).
FreedForGood == [][\A d \in Disks : cd[d] = "freed" => cd'[d] = "freed" /\ kref'[d] = 0]_vars

\* Two drives never share a minor, and a minor is taken as long as its drive is
\* there -- and, when a probe fails in register_cdrom, for ever.
MinorsAccounted ==
    /\ bits = lost \cup {minor[d] : d \in {e \in Disks : cd[e] = "live"}}
    /\ \A d, e \in Disks : cd[d] = "live" /\ cd[e] = "live" /\ d # e => minor[d] # minor[e]
    /\ \A d \in Disks : cd[d] = "live" => minor[d] \notin lost
=============================================================================
