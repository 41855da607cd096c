-------------------------- MODULE LifecycleProofs --------------------------
(***************************************************************************)
(* The reference counts of the driver, for any finite set of openers, any  *)
(* number of minors and any number of probes.                              *)
(*                                                                         *)
(* ReferencesExact needs to know that what openers and probe hold refers   *)
(* to a disk (Placed), that the next disk is not in use yet (Fresh), and   *)
(* that private_data is there exactly as long as the tcc_cd (Visible).     *)
(***************************************************************************)
EXTENDS Lifecycle, FiniteSetTheorems, TLAPS

\* Who holds something holds a disk, and probe's disk is one.
Placed ==
    /\ \A o \in Openers : state[o] # "out" => on[o] \in Disks
    /\ bound # "unbound" => latest \in Disks

Fresh == \A d \in Disks : d > latest => cd[d] = "none"

Visible == \A d \in Disks : private[d] <=> cd[d] = "live"

LifeInv == TypeOK /\ Placed /\ Fresh /\ Visible /\ ReferencesExact

\* The counts, when the opener o starts to hold disk d ...
LEMMA HoldersGain ==
    ASSUME NEW o \in Openers, NEW d \in Disks, TypeOK,
           state[o] \notin Holding, state'[o] \in Holding, on[o] = d, on' = on,
           \A p \in Openers : p # o => state'[p] = state[p]
    PROVE  /\ Cardinality(Holders(d)') = Cardinality(Holders(d)) + 1
           /\ \A e \in Disks \ {d} : Holders(e)' = Holders(e)
<1>1. Holders(d)' = Holders(d) \cup {o} /\ o \notin Holders(d)
  BY DEF Holders
<1>2. IsFiniteSet(Holders(d))
  BY OpenerAssumption, FS_Subset DEF Holders, OpenerAssumption
<1>3. \A e \in Disks \ {d} : Holders(e)' = Holders(e)
  BY DEF Holders
<1> QED BY <1>1, <1>2, <1>3, FS_AddElement

\* ... and when it stops to.
LEMMA HoldersLose ==
    ASSUME NEW o \in Openers, NEW d \in Disks, TypeOK,
           state[o] \in Holding, state'[o] \notin Holding, on[o] = d, on' = on,
           \A p \in Openers : p # o => state'[p] = state[p]
    PROVE  /\ Cardinality(Holders(d)') = Cardinality(Holders(d)) - 1
           /\ \A e \in Disks \ {d} : Holders(e)' = Holders(e)
<1>1. Holders(d)' = Holders(d) \ {o} /\ o \in Holders(d)
  BY DEF Holders
<1>2. IsFiniteSet(Holders(d))
  BY OpenerAssumption, FS_Subset DEF Holders, OpenerAssumption
<1>3. \A e \in Disks \ {d} : Holders(e)' = Holders(e)
  BY DEF Holders
<1> QED BY <1>1, <1>2, <1>3, FS_RemoveElement

LEMMA HoldersCount ==
    /\ \A d \in Disks : Cardinality(Holders(d)) \in Nat
    /\ Cardinality(DeviceHolders) \in Nat
<1>1. \A d \in Disks : IsFiniteSet(Holders(d))
  BY OpenerAssumption, FS_Subset DEF Holders, OpenerAssumption
<1>2. IsFiniteSet(DeviceHolders)
  BY OpenerAssumption, FS_Subset DEF DeviceHolders, OpenerAssumption
<1> QED BY <1>1, <1>2, FS_CardinalityType

\* The same for the platform device.
LEMMA DeviceGain ==
    ASSUME NEW o \in Openers, TypeOK,
           state[o] \notin {"opening", "open"}, state'[o] \in {"opening", "open"},
           \A p \in Openers : p # o => state'[p] = state[p]
    PROVE  Cardinality(DeviceHolders') = Cardinality(DeviceHolders) + 1
<1>1. DeviceHolders' = DeviceHolders \cup {o} /\ o \notin DeviceHolders
  BY DEF DeviceHolders
<1>2. IsFiniteSet(DeviceHolders)
  BY OpenerAssumption, FS_Subset DEF DeviceHolders, OpenerAssumption
<1> QED BY <1>1, <1>2, FS_AddElement

LEMMA DeviceLose ==
    ASSUME NEW o \in Openers, TypeOK,
           state[o] \in {"opening", "open"}, state'[o] \notin {"opening", "open"},
           \A p \in Openers : p # o => state'[p] = state[p]
    PROVE  Cardinality(DeviceHolders') = Cardinality(DeviceHolders) - 1
<1>1. DeviceHolders' = DeviceHolders \ {o} /\ o \in DeviceHolders
  BY DEF DeviceHolders
<1>2. IsFiniteSet(DeviceHolders)
  BY OpenerAssumption, FS_Subset DEF DeviceHolders, OpenerAssumption
<1> QED BY <1>1, <1>2, FS_RemoveElement

LEMMA LifeInit == Init => LifeInv
<1> SUFFICES ASSUME Init PROVE LifeInv
  OBVIOUS
<1>1. TypeOK
  <2>1. /\ cd \in [Disks -> {"none", "live", "freed"}] /\ kref \in [Disks -> Nat]
        /\ minor \in [Disks -> Int]
    BY DEF Init
  <2>2. private \in [Disks -> BOOLEAN]
    BY DEF Init
  <2>3. /\ state \in [Openers -> {"out", "found", "opening", "open", "oops"}]
        /\ on \in [Openers -> 0 .. PROBES]
    BY CountAssumption DEF Init, CountAssumption
  <2>4. /\ bound = "unbound" /\ latest \in 0 .. PROBES /\ listed = {} /\ bits = {} /\ lost = {}
        /\ devrefs = 0
    BY CountAssumption DEF Init, CountAssumption
  <2>5. cdrom_dev \in BOOLEAN
    BY Zenon DEF Init
  <2> QED BY <2>1, <2>2, <2>3, <2>4, <2>5 DEF TypeOK
<1>2. Placed /\ Fresh /\ Visible
  BY DEF Init, Placed, Fresh, Visible
<1>3. ReferencesExact
  <2>1. \A d \in Disks : Holders(d) = {} /\ Owner(d) = 0 /\ kref[d] = 0 /\ cd[d] = "none"
    BY DEF Init, Holders, Holding, Owner, Owned
  <2>2. DeviceHolders = {} /\ devrefs = 0
    BY DEF Init, DeviceHolders
  <2> QED BY <2>1, <2>2, FS_EmptySet DEF ReferencesExact
<1> QED BY <1>1, <1>2, <1>3 DEF LifeInv

\* What kref_put does to a tcc_cd with references.
LEMMA PutFacts ==
    ASSUME LifeInv, NEW d \in Disks, KrefPut(d), kref[d] > 0
    PROVE  /\ kref' = [kref EXCEPT ![d] = @ - 1] /\ kref' \in [Disks -> Nat]
           /\ cd' \in [Disks -> {"none", "live", "freed"}]
           /\ private' \in [Disks -> BOOLEAN]
           /\ bits' \subseteq Minors
           /\ \A e \in Disks : cd'[e] = "live" <=> kref'[e] > 0
           /\ \A e \in Disks : private'[e] <=> cd'[e] = "live"
           /\ \A e \in Disks : cd[e] # "live" => cd'[e] = cd[e]
<1>1. /\ kref' = [kref EXCEPT ![d] = @ - 1] /\ kref \in [Disks -> Nat]
      /\ cd \in [Disks -> {"none", "live", "freed"}] /\ private \in [Disks -> BOOLEAN]
      /\ bits \subseteq Minors /\ cd[d] = "live"
      /\ \A e \in Disks : cd[e] = "live" <=> kref[e] > 0
      /\ \A e \in Disks : private[e] <=> cd[e] = "live"
  BY DEF LifeInv, TypeOK, ReferencesExact, Visible, KrefPut
<1>2. CASE kref[d] = 1
  <2>1. /\ cd' = [cd EXCEPT ![d] = "freed"]
        /\ private' = [private EXCEPT ![d] = FALSE]
        /\ bits' = bits \ {minor[d]}
    BY <1>2 DEF KrefPut, Release
  <2> QED BY <1>1, <1>2, <2>1
<1>3. CASE kref[d] # 1
  <2>1. UNCHANGED <<cd, private, bits>>
    BY <1>3 DEF KrefPut
  <2> QED BY <1>1, <1>3, <2>1
<1> QED BY <1>2, <1>3

\* A step that takes and gives no reference.
LEMMA CountsKept ==
    ASSUME LifeInv,
           UNCHANGED <<kref, cd, devrefs, on>>,
           \A o \in Openers : state'[o] \in Holding <=> state[o] \in Holding,
           \A o \in Openers : state'[o] \in {"opening", "open"} <=> state[o] \in {"opening", "open"},
           \A d \in Disks : Owner(d)' = Owner(d)
    PROVE  ReferencesExact'
<1>1. \A d \in Disks : Holders(d)' = Holders(d)
  BY DEF Holders
<1>2. DeviceHolders' = DeviceHolders
  BY DEF DeviceHolders
<1> QED BY <1>1, <1>2 DEF LifeInv, ReferencesExact

\* Probe: a disk that nobody knew.
LEMMA InitialInv == ASSUME LifeInv, Initial PROVE LifeInv'
<1> DEFINE new == latest + 1
<1>1. /\ TypeOK /\ Placed /\ Fresh /\ Visible /\ ReferencesExact
      /\ new \in Disks /\ new \in 0 .. PROBES /\ bound = "unbound" /\ bound' = "added"
      /\ latest' = new /\ latest \in 0 .. PROBES
  BY CountAssumption DEF LifeInv, Initial, TypeOK, Disks, CountAssumption
<1>2. /\ cd' = [cd EXCEPT ![new] = "live"] /\ kref' = [kref EXCEPT ![new] = 1]
      /\ private' = [private EXCEPT ![new] = TRUE] /\ listed' = listed \cup {new}
      /\ UNCHANGED <<lost, cdrom_dev, devrefs, state, on>>
  BY DEF Initial, opener
<1>3. PICK m \in Minors : minor' = [minor EXCEPT ![new] = m] /\ bits' = bits \cup {m}
  BY DEF Initial
<1>4. TypeOK'
  <2>1. minor' \in [Disks -> Int] /\ bits' \subseteq Minors
    BY <1>1, <1>3 DEF TypeOK, Minors
  <2>2. private' \in [Disks -> BOOLEAN]
    BY <1>1, <1>2 DEF TypeOK
  <2> HIDE DEF new
  <2> QED BY <1>1, <1>2, <2>1, <2>2 DEF TypeOK
<1>5. Placed' /\ Fresh' /\ Visible'
  <2>1. Fresh'
    BY <1>1, <1>2 DEF Fresh, TypeOK, Disks
  <2>2. Visible'
    BY <1>1, <1>2 DEF Visible, TypeOK
  <2> QED BY <1>1, <1>2, <2>1, <2>2 DEF Placed
<1>6. \A d \in Disks : Holders(d)' = Holders(d) /\ Owner(d) = 0
  BY <1>1, <1>2 DEF Holders, Owner, Owned
<1>7. DeviceHolders' = DeviceHolders
  BY <1>2 DEF DeviceHolders
<1>8. Cardinality(Holders(new)) = 0
  <2>1. cd[new] = "none" /\ kref[new] \in Nat
    BY <1>1 DEF Fresh, TypeOK
  <2>2. kref[new] = 0
    BY <1>1, <2>1 DEF ReferencesExact
  <2> QED BY <1>1, <1>6, <2>2, HoldersCount DEF ReferencesExact
<1>9. \A d \in Disks : Owner(d)' = IF d = new THEN 1 ELSE 0
  BY <1>1 DEF Owner, Owned
<1>10. ReferencesExact'
  <2>1. ASSUME NEW d \in Disks
        PROVE  kref'[d] = Owner(d)' + Cardinality(Holders(d)') /\ (cd'[d] = "live" <=> kref'[d] > 0)
    <3>1. CASE d = new
      BY <1>1, <1>2, <1>6, <1>8, <1>9, <3>1 DEF TypeOK
    <3>2. CASE d # new
      <4>1. kref'[d] = kref[d] /\ cd'[d] = cd[d] /\ Owner(d)' = Owner(d)
        BY <1>1, <1>2, <1>6, <1>9, <3>2 DEF TypeOK
      <4> QED BY <1>1, <1>6, <4>1 DEF ReferencesExact
    <3> QED BY <3>1, <3>2
  <2> QED BY <1>1, <1>2, <1>7, <2>1 DEF ReferencesExact
<1> QED BY <1>4, <1>5, <1>10 DEF LifeInv

\* The other steps of probe and remove that touch no reference.
LEMMA DriverInv ==
    ASSUME LifeInv, InitialFails \/ ProbeDone \/ KthreadStop \/ DelGendisk \/ RemoveDone
    PROVE  LifeInv'
<1>1. TypeOK /\ Placed /\ Fresh /\ Visible /\ ReferencesExact
  BY DEF LifeInv
<1>2. /\ UNCHANGED <<cd, kref, private, devrefs, state, on, minor>>
      /\ latest' >= latest /\ latest' \in 0 .. PROBES
      /\ (bound' # "unbound" => bound # "unbound" /\ latest' = latest)
  <2>1. CASE InitialFails
    BY <1>1, <2>1, CountAssumption DEF InitialFails, opener, TypeOK, CountAssumption
  <2>2. CASE ProbeDone \/ KthreadStop \/ DelGendisk \/ RemoveDone
    BY <1>1, <2>2 DEF ProbeDone, KthreadStop, DelGendisk, RemoveDone, drive, names, opener, TypeOK
  <2> QED BY <2>1, <2>2
<1>3. /\ bits' \subseteq Minors /\ lost' \subseteq Minors /\ listed' \subseteq Disks
      /\ bound' \in {"unbound", "added", "bound", "stopped", "deleted", "put"}
  BY <1>1 DEF InitialFails, ProbeDone, KthreadStop, DelGendisk, RemoveDone, drive, names, TypeOK
<1>4. cdrom_dev' \in BOOLEAN
  <2>1. cdrom_dev' = TRUE \/ cdrom_dev' = cdrom_dev
    BY DEF InitialFails, ProbeDone, KthreadStop, DelGendisk, RemoveDone
  <2> QED BY <1>1, <2>1, Zenon DEF TypeOK
<1>5. TypeOK'
  BY <1>1, <1>2, <1>3, <1>4 DEF TypeOK
<1>6. Placed' /\ Fresh' /\ Visible'
  BY <1>1, <1>2 DEF Placed, Fresh, Visible, TypeOK, Disks
<1>7. \A d \in Disks : Owner(d)' = Owner(d)
  BY <1>1 DEF Owner, Owned, InitialFails, ProbeDone, KthreadStop, DelGendisk, RemoveDone, TypeOK
<1>8. ReferencesExact'
  BY <1>2, <1>7, CountsKept
<1> QED BY <1>5, <1>6, <1>8 DEF LifeInv

\* Remove drops the reference of probe.
LEMMA RemovePutInv == ASSUME LifeInv, RemovePut PROVE LifeInv'
<1>1. /\ TypeOK /\ Placed /\ Fresh /\ Visible /\ ReferencesExact
      /\ bound = "deleted" /\ bound' = "put" /\ latest \in Disks /\ KrefPut(latest)
      /\ UNCHANGED <<latest, listed, minor, lost, cdrom_dev, devrefs, state, on>>
  BY DEF LifeInv, RemovePut, Placed, names, opener
<1>2. \A d \in Disks : Holders(d)' = Holders(d) /\ Owner(d)' = 0
                       /\ Owner(d) = IF d = latest THEN 1 ELSE 0
  BY <1>1 DEF Holders, Owner, Owned
<1>3. DeviceHolders' = DeviceHolders
  BY <1>1 DEF DeviceHolders
<1>4. kref[latest] > 0
  BY <1>1, <1>2, HoldersCount DEF ReferencesExact
<1>5. TypeOK'
  BY <1>1, <1>4, PutFacts DEF TypeOK
<1>6. Placed' /\ Fresh' /\ Visible'
  BY <1>1, <1>4, PutFacts DEF Placed, Fresh, Visible
<1>7. ReferencesExact'
  <2>1. ASSUME NEW d \in Disks PROVE kref'[d] = Owner(d)' + Cardinality(Holders(d)')
    <3>1. kref[d] = Owner(d) + Cardinality(Holders(d)) /\ kref \in [Disks -> Nat]
      BY <1>1 DEF ReferencesExact, TypeOK
    <3>2. kref' = [kref EXCEPT ![latest] = @ - 1]
      BY <1>1 DEF KrefPut
    <3> QED BY <1>1, <1>2, <3>1, <3>2, HoldersCount
  <2>2. \A d \in Disks : cd'[d] = "live" <=> kref'[d] > 0
    BY <1>1, <1>4, PutFacts
  <2> QED BY <1>1, <1>3, <2>1, <2>2 DEF ReferencesExact
<1> QED BY <1>5, <1>6, <1>7 DEF LifeInv

\* An opener takes a reference.
LEMMA GetInv == ASSUME LifeInv, NEW o \in Openers, Get(o) PROVE LifeInv'
<1>0. PICK d \in Disks : d = on[o]
  BY DEF LifeInv, Get, Placed
<1>1. /\ TypeOK /\ Placed /\ Fresh /\ Visible /\ ReferencesExact
      /\ state[o] = "found" /\ d \in Disks /\ private[d]
      /\ kref' = [kref EXCEPT ![d] = @ + 1]
      /\ UNCHANGED <<bound, latest, cd, private, bits, listed, minor, lost, cdrom_dev, on>>
  BY <1>0 DEF LifeInv, Get, names
<1>2. \/ state' = [state EXCEPT ![o] = "opening"] /\ devrefs' = devrefs + 1
      \/ state' = [state EXCEPT ![o] = "oops"] /\ devrefs' = devrefs
  BY DEF Get
<1>3. state'[o] \in {"opening", "oops"} /\ \A p \in Openers : p # o => state'[p] = state[p]
  BY <1>1, <1>2 DEF TypeOK
<1>4. TypeOK'
  <2>1. kref' \in [Disks -> Nat] /\ devrefs' \in Int
    BY <1>1, <1>2 DEF TypeOK
  <2>2. state' \in [Openers -> {"out", "found", "opening", "open", "oops"}]
    BY <1>1, <1>2 DEF TypeOK
  <2> QED BY <1>1, <2>1, <2>2 DEF TypeOK
<1>5. Placed' /\ Fresh' /\ Visible'
  BY <1>0, <1>1, <1>3 DEF Placed, Fresh, Visible
<1>6. /\ Cardinality(Holders(d)') = Cardinality(Holders(d)) + 1
      /\ \A e \in Disks \ {d} : Holders(e)' = Holders(e)
  BY <1>0, <1>1, <1>3, HoldersGain DEF Holding
<1>7. devrefs' = Cardinality(DeviceHolders')
  <2>1. CASE state' = [state EXCEPT ![o] = "opening"] /\ devrefs' = devrefs + 1
    <3>1. state'[o] = "opening"
      BY <1>1, <2>1 DEF TypeOK
    <3> QED BY <1>1, <1>3, <2>1, <3>1, DeviceGain DEF ReferencesExact
  <2>2. CASE state' = [state EXCEPT ![o] = "oops"] /\ devrefs' = devrefs
    <3>1. DeviceHolders' = DeviceHolders
      BY <1>1, <2>2 DEF DeviceHolders, TypeOK
    <3> QED BY <1>1, <2>2, <3>1 DEF ReferencesExact
  <2> QED BY <1>2, <2>1, <2>2
<1>8. ASSUME NEW e \in Disks
      PROVE  kref'[e] = Owner(e)' + Cardinality(Holders(e)') /\ (cd'[e] = "live" <=> kref'[e] > 0)
  <2>1. /\ kref[e] = Owner(e) + Cardinality(Holders(e)) /\ (cd[e] = "live" <=> kref[e] > 0)
        /\ kref \in [Disks -> Nat] /\ Owner(e)' = Owner(e) /\ Owner(e) \in {0, 1} /\ cd[d] = "live"
    BY <1>1 DEF ReferencesExact, TypeOK, Owner, Owned, Visible
  <2>2. CASE e = d
    BY <1>1, <1>6, <2>1, <2>2, HoldersCount
  <2>3. CASE e # d
    BY <1>1, <1>6, <2>1, <2>3
  <2> QED BY <2>2, <2>3
<1>9. ReferencesExact'
  BY <1>7, <1>8 DEF ReferencesExact
<1> QED BY <1>4, <1>5, <1>9 DEF LifeInv

\* An opener gives its reference back.
LEMMA CdPutInv ==
    ASSUME LifeInv, NEW o \in Openers, state[o] \in {"opening", "open"}, CdPut(o)
    PROVE  LifeInv'
<1>0. PICK d \in Disks : d = on[o]
  BY DEF LifeInv, Placed
<1>1. /\ TypeOK /\ Placed /\ Fresh /\ Visible /\ ReferencesExact
      /\ d \in Disks /\ KrefPut(d)
      /\ devrefs' = devrefs - 1 /\ state' = [state EXCEPT ![o] = "out"]
      /\ UNCHANGED <<bound, latest, listed, minor, lost, cdrom_dev, on>>
  BY <1>0 DEF LifeInv, CdPut, names
<1>2. state'[o] = "out" /\ \A p \in Openers : p # o => state'[p] = state[p]
  BY <1>1 DEF TypeOK
<1>3. /\ Cardinality(Holders(d)') = Cardinality(Holders(d)) - 1
      /\ \A e \in Disks \ {d} : Holders(e)' = Holders(e)
  BY <1>0, <1>1, <1>2, HoldersLose DEF Holding
<1>4. kref[d] > 0
  <2>1. Cardinality(Holders(d)') \in Nat
    <3>1. IsFiniteSet(Holders(d)')
      BY OpenerAssumption, FS_Subset DEF Holders, OpenerAssumption
    <3> QED BY <3>1, FS_CardinalityType
  <2>2. kref[d] = Owner(d) + Cardinality(Holders(d)) /\ Owner(d) \in {0, 1}
    BY <1>1 DEF ReferencesExact, Owner
  <2> QED BY <1>1, <1>3, <2>1, <2>2, HoldersCount
<1>5. TypeOK'
  <2>1. state' \in [Openers -> {"out", "found", "opening", "open", "oops"}] /\ devrefs' \in Int
    BY <1>1 DEF TypeOK
  <2> QED BY <1>1, <1>4, <2>1, PutFacts DEF TypeOK
<1>6. Placed' /\ Fresh' /\ Visible'
  BY <1>1, <1>2, <1>4, PutFacts DEF Placed, Fresh, Visible
<1>7. devrefs' = Cardinality(DeviceHolders')
  BY <1>1, <1>2, DeviceLose DEF ReferencesExact
<1>8. ASSUME NEW e \in Disks PROVE kref'[e] = Owner(e)' + Cardinality(Holders(e)')
  <2>1. /\ kref[e] = Owner(e) + Cardinality(Holders(e)) /\ kref \in [Disks -> Nat]
        /\ Owner(e)' = Owner(e) /\ Owner(e) \in {0, 1} /\ kref' = [kref EXCEPT ![d] = @ - 1]
    BY <1>1 DEF ReferencesExact, TypeOK, Owner, Owned, KrefPut
  <2>2. CASE e = d
    BY <1>1, <1>3, <2>1, <2>2, HoldersCount
  <2>3. CASE e # d
    BY <1>1, <1>3, <2>1, <2>3
  <2> QED BY <2>2, <2>3
<1>9. ReferencesExact'
  BY <1>1, <1>4, <1>7, <1>8, PutFacts DEF ReferencesExact
<1> QED BY <1>5, <1>6, <1>9 DEF LifeInv

\* The steps of an opener that take and give no reference.
LEMMA PassInv ==
    ASSUME LifeInv, NEW o \in Openers, Lookup(o) \/ GetNone(o) \/ OpenSucceeds(o)
    PROVE  LifeInv'
<1>1. /\ TypeOK /\ Placed /\ Fresh /\ Visible /\ ReferencesExact
      /\ UNCHANGED <<bound, latest, cd, kref, private, bits, listed, minor, lost, cdrom_dev, devrefs>>
  BY DEF LifeInv, Lookup, GetNone, OpenSucceeds, drive, names
<1>2. \/ /\ state[o] = "out" /\ state' = [state EXCEPT ![o] = "found"]
         /\ \E e \in Disks : on' = [on EXCEPT ![o] = e]
      \/ state[o] = "found" /\ state' = [state EXCEPT ![o] = "out"] /\ on' = on
      \/ state[o] = "opening" /\ state' = [state EXCEPT ![o] = "open"] /\ on' = on
  BY <1>1 DEF Lookup, GetNone, OpenSucceeds, TypeOK
<1>3. /\ state' \in [Openers -> {"out", "found", "opening", "open", "oops"}]
      /\ on' \in [Openers -> 0 .. PROBES]
  <2>1. /\ state \in [Openers -> {"out", "found", "opening", "open", "oops"}]
        /\ on \in [Openers -> 0 .. PROBES] /\ Disks \subseteq 0 .. PROBES
    BY <1>1, CountAssumption DEF TypeOK, Disks, CountAssumption
  <2>2. state' \in [Openers -> {"out", "found", "opening", "open", "oops"}]
    BY <1>2, <2>1
  <2>3. on' \in [Openers -> 0 .. PROBES]
    BY <1>2, <2>1
  <2> QED BY <2>2, <2>3
<1>4. TypeOK'
  BY <1>1, <1>3 DEF TypeOK
<1>5. Placed' /\ Fresh' /\ Visible'
  BY <1>1, <1>2 DEF Placed, Fresh, Visible, TypeOK
<1>6. \A d \in Disks : Holders(d)' = Holders(d) /\ Owner(d)' = Owner(d)
  BY <1>1, <1>2 DEF Holders, Holding, Owner, Owned, TypeOK
<1>7. DeviceHolders' = DeviceHolders
  BY <1>1, <1>2 DEF DeviceHolders, TypeOK
<1>8. ReferencesExact'
  BY <1>1, <1>6, <1>7 DEF ReferencesExact
<1> QED BY <1>4, <1>5, <1>8 DEF LifeInv

LEMMA LifeNext == LifeInv /\ [Next]_vars => LifeInv'
<1> SUFFICES ASSUME LifeInv, [Next]_vars PROVE LifeInv'
  OBVIOUS
<1>1. CASE Driver
  BY <1>1, InitialInv, DriverInv, RemovePutInv DEF Driver
<1>2. ASSUME NEW o \in Openers, Opener(o) PROVE LifeInv'
  <2>1. CASE OpenFails(o) \/ Close(o)
    BY <2>1, CdPutInv DEF OpenFails, Close
  <2> QED BY <1>2, <2>1, PassInv, GetInv DEF Opener
<1>3. CASE UNCHANGED vars
  BY <1>3 DEF vars, drive, names, opener, LifeInv, TypeOK, Placed, Fresh, Visible,
              ReferencesExact, Holders, Owner, Owned, DeviceHolders
<1> QED BY <1>1, <1>2, <1>3 DEF Next

LEMMA LifeInvariant == Spec => []LifeInv
BY LifeInit, LifeNext, PTL DEF Spec

\* Lifecycle keeps its types.
THEOREM TypeCorrect == Spec => []TypeOK
<1>1. LifeInv => TypeOK
  BY DEF LifeInv
<1> QED BY <1>1, LifeInvariant, PTL

\* The count of a tcc_cd is that of probe and the openers, and it is there
\* exactly as long as one of them is, whatever opens, fails and is removed.
THEOREM ReferencesAreExact == Spec => []ReferencesExact
<1>1. LifeInv => ReferencesExact
  BY DEF LifeInv
<1> QED BY <1>1, LifeInvariant, PTL

\* Freed tcc_cds stay freed: nobody counts on one, and nobody can start to.
THEOREM FreedStaysFreed == Spec => FreedForGood
<1> DEFINE Step == \A d \in Disks : cd[d] = "freed" => cd'[d] = "freed" /\ kref'[d] = 0
<1>1. ASSUME LifeInv, LifeInv', [Next]_vars PROVE [Step]_vars
  <2> SUFFICES ASSUME NEW d \in Disks, cd[d] = "freed", Next
               PROVE  cd'[d] = "freed"
    BY <1>1 DEF LifeInv, ReferencesExact, TypeOK
  <2>1. /\ TypeOK /\ Placed /\ Fresh /\ Visible /\ ReferencesExact
    BY <1>1 DEF LifeInv
  <2>2. CASE Initial
    BY <2>1, <2>2 DEF Initial, Fresh, TypeOK, Disks
  <2>3. ASSUME NEW e \in Disks, KrefPut(e) PROVE cd'[d] = "freed"
    BY <2>1, <2>3 DEF KrefPut, Release, TypeOK
  <2>4. CASE RemovePut
    BY <2>1, <2>3, <2>4 DEF RemovePut, Placed
  <2>5. ASSUME NEW o \in Openers, Opener(o) PROVE cd'[d] = "freed"
    <3>1. CASE OpenFails(o) \/ Close(o)
      BY <2>1, <2>3, <3>1 DEF OpenFails, Close, CdPut, Placed
    <3>2. CASE Lookup(o) \/ GetNone(o) \/ Get(o) \/ OpenSucceeds(o)
      BY <3>2 DEF Lookup, GetNone, Get, OpenSucceeds, drive
    <3> QED BY <2>5, <3>1, <3>2 DEF Opener
  <2>6. CASE InitialFails \/ ProbeDone \/ KthreadStop \/ DelGendisk \/ RemoveDone
    BY <2>6 DEF InitialFails, ProbeDone, KthreadStop, DelGendisk, RemoveDone, drive
  <2> QED BY <2>2, <2>4, <2>5, <2>6 DEF Next, Driver
<1> QED BY <1>1, LifeInvariant, PTL DEF Spec, FreedForGood

\* Minors: dropping a reference gives back the minor of that disk only.
LEMMA PutMinors ==
    ASSUME LifeInv, MinorsAccounted, NEW d \in Disks, KrefPut(d), kref[d] > 0,
           UNCHANGED <<minor, lost>>
    PROVE  MinorsAccounted'
<1>1. /\ cd \in [Disks -> {"none", "live", "freed"}] /\ cd[d] = "live"
      /\ bits = lost \cup {minor[e] : e \in {f \in Disks : cd[f] = "live"}}
      /\ \A e, f \in Disks : cd[e] = "live" /\ cd[f] = "live" /\ e # f => minor[e] # minor[f]
      /\ \A e \in Disks : cd[e] = "live" => minor[e] \notin lost
  BY DEF LifeInv, TypeOK, ReferencesExact, MinorsAccounted
<1>2. CASE kref[d] = 1
  <2>1. cd' = [cd EXCEPT ![d] = "freed"] /\ bits' = bits \ {minor[d]}
    BY <1>2 DEF KrefPut, Release
  <2>2. \A e \in Disks : cd'[e] = "live" <=> cd[e] = "live" /\ e # d
    BY <1>1, <2>1
  <2>3. bits' = lost \cup {minor[e] : e \in {f \in Disks : cd'[f] = "live"}}
    BY <1>1, <2>1, <2>2
  <2> QED BY <1>1, <2>2, <2>3 DEF MinorsAccounted
<1>3. CASE kref[d] # 1
  <2>1. UNCHANGED <<cd, bits>>
    BY <1>3 DEF KrefPut
  <2> QED BY <1>1, <2>1 DEF MinorsAccounted
<1> QED BY <1>2, <1>3

\* A put from a state of LifeInv is a put of a counted reference.
LEMMA HeldCounts ==
    ASSUME LifeInv, NEW d \in Disks, Owned(d) \/ \E o \in Openers : o \in Holders(d)
    PROVE  kref[d] > 0
<1>1. kref[d] = Owner(d) + Cardinality(Holders(d)) /\ Owner(d) \in {0, 1}
  BY DEF LifeInv, ReferencesExact, Owner
<1>2. CASE Owned(d)
  BY <1>1, <1>2, HoldersCount DEF Owner
<1>3. CASE \E o \in Openers : o \in Holders(d)
  <2>1. IsFiniteSet(Holders(d)) /\ Holders(d) # {}
    BY <1>3, OpenerAssumption, FS_Subset DEF Holders, OpenerAssumption
  <2>2. Cardinality(Holders(d)) # 0
    BY <2>1, FS_EmptySet
  <2> QED BY <1>1, <2>2, HoldersCount
<1> QED BY <1>2, <1>3

LEMMA MinorsNext ==
    ASSUME LifeInv, MinorsAccounted, [Next]_vars PROVE MinorsAccounted'
<1>1. /\ TypeOK /\ Placed /\ Fresh
      /\ bits = lost \cup {minor[d] : d \in {e \in Disks : cd[e] = "live"}}
      /\ \A d, e \in Disks : cd[d] = "live" /\ cd[e] = "live" /\ d # e => minor[d] # minor[e]
      /\ \A d \in Disks : cd[d] = "live" => minor[d] \notin lost
  BY DEF LifeInv, MinorsAccounted
<1>2. CASE UNCHANGED <<cd, minor, bits, lost>>
  BY <1>2 DEF MinorsAccounted
<1>3. CASE Initial
  <2> DEFINE new == latest + 1
  <2>1. PICK m \in Minors \ bits : minor' = [minor EXCEPT ![new] = m] /\ bits' = bits \cup {m}
    BY <1>3 DEF Initial, FirstZeroBit
  <2>2. /\ new \in Disks /\ cd[new] = "none" /\ cd' = [cd EXCEPT ![new] = "live"] /\ lost' = lost
        /\ cd \in [Disks -> {"none", "live", "freed"}] /\ minor \in [Disks -> Int]
    BY <1>1, <1>3, CountAssumption DEF Initial, Fresh, TypeOK, Disks, CountAssumption
  <2> HIDE DEF new
  <2>3. /\ \A d \in Disks : cd'[d] = "live" <=> cd[d] = "live" \/ d = new
        /\ \A d \in Disks : cd[d] = "live" => minor'[d] = minor[d] /\ d # new
        /\ minor'[new] = m /\ m \notin lost /\ \A d \in Disks : cd[d] = "live" => minor[d] # m
    BY <1>1, <2>1, <2>2
  <2>4. bits' = lost' \cup {minor'[d] : d \in {e \in Disks : cd'[e] = "live"}}
    <3>1. {e \in Disks : cd'[e] = "live"} = {e \in Disks : cd[e] = "live"} \cup {new}
      BY <2>2, <2>3
    <3>2. {minor'[d] : d \in {e \in Disks : cd'[e] = "live"}}
             = {minor[d] : d \in {e \in Disks : cd[e] = "live"}} \cup {m}
      BY <2>3, <3>1
    <3> QED BY <1>1, <2>1, <2>2, <3>2
  <2>5. \A d, e \in Disks : cd'[d] = "live" /\ cd'[e] = "live" /\ d # e => minor'[d] # minor'[e]
    BY <1>1, <2>3
  <2>6. \A d \in Disks : cd'[d] = "live" => minor'[d] \notin lost'
    BY <1>1, <2>2, <2>3
  <2> QED BY <2>4, <2>5, <2>6 DEF MinorsAccounted
<1>4. CASE InitialFails
  <2>1. PICK m \in Minors \ bits : bits' = bits \cup {m} /\ lost' = lost \cup {m}
    BY <1>4 DEF InitialFails, FirstZeroBit
  <2>2. UNCHANGED <<cd, minor>>
    BY <1>4 DEF InitialFails
  <2> QED BY <1>1, <2>1, <2>2 DEF MinorsAccounted
<1>5. CASE RemovePut
  <2>1. latest \in Disks /\ Owned(latest) /\ KrefPut(latest) /\ UNCHANGED <<minor, lost>>
    BY <1>1, <1>5 DEF RemovePut, Placed, Owned, names
  <2> QED BY <2>1, HeldCounts, PutMinors
<1>6. ASSUME NEW o \in Openers, OpenFails(o) \/ Close(o) PROVE MinorsAccounted'
  <2>1. PICK d \in Disks : d = on[o]
    BY <1>1, <1>6 DEF Placed, OpenFails, Close
  <2>2. o \in Holders(d) /\ KrefPut(d) /\ UNCHANGED <<minor, lost>>
    BY <1>6, <2>1 DEF OpenFails, Close, CdPut, Holders, Holding, names
  <2> QED BY <2>2, HeldCounts, PutMinors
<1>7. CASE ProbeDone \/ KthreadStop \/ DelGendisk \/ RemoveDone
  BY <1>2, <1>7 DEF ProbeDone, KthreadStop, DelGendisk, RemoveDone, drive, names
<1>8. ASSUME NEW o \in Openers, Lookup(o) \/ GetNone(o) \/ Get(o) \/ OpenSucceeds(o)
      PROVE  MinorsAccounted'
  BY <1>2, <1>8 DEF Lookup, GetNone, Get, OpenSucceeds, drive, names
<1>9. CASE UNCHANGED vars
  BY <1>2, <1>9 DEF vars, drive, names
<1> QED BY <1>3, <1>4, <1>5, <1>6, <1>7, <1>8, <1>9 DEF Next, Driver, Opener

\* Drives never share a minor, and one is taken exactly as long as its drive is
\* there, or for ever by a probe whose register_cdrom failed.
THEOREM MinorsAreAccounted == Spec => []MinorsAccounted
<1>1. Init => MinorsAccounted
  BY DEF Init, MinorsAccounted
<1>2. LifeInv /\ MinorsAccounted /\ [Next]_vars => MinorsAccounted'
  BY MinorsNext
<1> QED BY <1>1, <1>2, LifeInvariant, PTL DEF Spec
=============================================================================
