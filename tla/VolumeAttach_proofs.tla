------------------------ MODULE VolumeAttach_proofs ------------------------
(***************************************************************************)
(* Proof that a volume never gets two devices of the driver, for any number *)
(* of mount requests, volumes and devices and whatever calls fail.          *)
(***************************************************************************)
EXTENDS VolumeAttach, FiniteSetTheorems, TLAPS

USE AttachAssumption DEF Threads

\* A thread that leaves its volume keeps the types in order.
LEMMA LeaveType ==
  ASSUME TypeOK, NEW t \in Threads, Leave(t)
  PROVE  /\ pc' \in [Threads -> PCs]
         /\ dev' \in [Threads -> Devices \union {NoDevice}]
         /\ vol' \in [Threads -> Volumes \union {NoVolume}]
         /\ tries' \in [Threads -> 0..Retries]
BY DEF Leave, Go, TypeOK, PCs

\* The driver starts with no device and no mutex taken (AddDevice).
LEMMA InitInv == Init => AttachInv
BY DEF Init, AttachInv, TypeOK, LockInv, OneEach, PCs

\* A mount request touches no attachment and no mutex.
LEMMA RequestStep ==
  ASSUME AttachInv, NEW m \in Mounters, NEW v \in Volumes, Request(m, v)
  PROVE  AttachInv'
<1> USE DEF AttachInv, LockInv, OneEach
<1>1. TypeOK'
  <2>1. failed' \subseteq Volumes
    BY DEF TypeOK, Request, Misread
  <2>2. /\ devices' \subseteq Devices
        /\ dev' \in [Threads -> Devices \union {NoDevice}]
        /\ vol' \in [Threads -> Volumes \union {NoVolume}]
    BY DEF TypeOK, Request, Create
  <2>3. /\ volume' \in [Volumes -> {"new", "mounted", "gone"}]
        /\ pc' \in [Threads -> PCs]
    BY DEF TypeOK, Request, Go, PCs
  <2> QED BY <2>1, <2>2, <2>3 DEF TypeOK, Request
<1>2. LockInv'
  BY DEF TypeOK, Request, Create, Go
<1>3. OneEach'
  BY DEF Request
<1> QED BY <1>1, <1>2, <1>3

\* Nor does a mount the driver has not seen.
LEMMA BelowStep ==
  ASSUME AttachInv, NEW m \in Mounters, MountedBelow(m)
  PROVE  AttachInv'
<1> USE DEF AttachInv, LockInv, OneEach
<1>1. TypeOK'
  BY LeaveType DEF TypeOK, MountedBelow
<1>2. LockInv'
  BY DEF TypeOK, MountedBelow, Leave, Go
<1>3. OneEach'
  BY DEF MountedBelow
<1> QED BY <1>1, <1>2, <1>3

\* Nor does the completion of a mount, before it asks for the mutex.
LEMMA CompleteStep ==
  ASSUME AttachInv, NEW m \in Mounters, MountComplete(m)
  PROVE  AttachInv'
<1> USE DEF AttachInv, LockInv, OneEach
<1>1. TypeOK'
  BY LeaveType DEF TypeOK, MountComplete, Go, PCs
<1>2. LockInv'
  BY DEF TypeOK, MountComplete, Leave, Go
<1>3. OneEach'
  BY DEF MountComplete
<1> QED BY <1>1, <1>2, <1>3

\* Who takes the mutex becomes its only holder.
LEMMA AcquireStep ==
  ASSUME AttachInv, NEW t \in Threads, Acquire(t)
  PROVE  AttachInv'
<1> USE DEF AttachInv, LockInv, OneEach
<1>1. TypeOK'
  BY DEF TypeOK, Acquire, Go, PCs
<1>2. LockInv'
  BY DEF TypeOK, Acquire, Go
<1>3. OneEach'
  BY DEF Acquire
<1> QED BY <1>1, <1>2, <1>3

\* The check under the mutex is what makes "nothing attached" stable: nobody
\* else may attach until the mutex is released.
LEMMA RecheckStep ==
  ASSUME AttachInv, NEW t \in Threads, Recheck(t)
  PROVE  AttachInv'
<1> USE DEF AttachInv, LockInv, OneEach
<1>1. TypeOK'
  BY LeaveType DEF TypeOK, Recheck, Go, PCs
<1>2. LockInv'
  BY DEF TypeOK, Recheck, Leave, Go
<1>3. OneEach'
  BY DEF Recheck
<1> QED BY <1>1, <1>2, <1>3

\* The device is attached to a volume that has none.
LEMMA AttachStep ==
  ASSUME AttachInv, NEW t \in Threads, Attach(t)
  PROVE  AttachInv'
<1> USE DEF AttachInv, LockInv, OneEach
<1>1. lock = t /\ vol[t] \in Volumes /\ dev[t] \in Devices /\ attached[vol[t]] = {}
  BY DEF Attach
<1>2. TypeOK'
  <2>1. CASE tries[t] + 1 < Retries /\ UNCHANGED <<devices, attached, lock, pc, dev, vol>>
    BY <2>1 DEF TypeOK, Attach
  <2>2. CASE Leave(t)
    BY <1>1, <2>2, LeaveType DEF TypeOK, Attach
  <2> QED BY <2>1, <2>2 DEF Attach
<1>3. LockInv'
  BY <1>1 DEF TypeOK, Attach, Leave, Go
<1>4. OneEach'
  BY <1>1 DEF TypeOK, Attach
<1> QED BY <1>2, <1>3, <1>4

\* The notification leaves the attachments alone until it has the mutex.
LEMMA NotifierStep ==
  ASSUME AttachInv, Activate \/ Snapshot \/ Enumerated \/ Deactivate
  PROVE  AttachInv'
<1> USE DEF AttachInv, LockInv, OneEach
<1>1. TypeOK'
  BY DEF TypeOK, Activate, Snapshot, Enumerated, Deactivate, Go, PCs
<1>2. LockInv'
  BY DEF TypeOK, Activate, Snapshot, Enumerated, Deactivate, Go
<1>3. OneEach'
  BY DEF Activate, Snapshot, Enumerated, Deactivate
<1> QED BY <1>1, <1>2, <1>3

\* So does a volume of the list.
LEMMA VisitStep ==
  ASSUME AttachInv, NEW v \in Volumes, Visit(v)
  PROVE  AttachInv'
<1> USE DEF AttachInv, LockInv, OneEach
<1>1. TypeOK'
  BY DEF TypeOK, Visit, Create, Misread, Go, PCs
<1>2. LockInv'
  BY DEF TypeOK, Visit, Create, Go
<1>3. OneEach'
  BY DEF Visit
<1> QED BY <1>1, <1>2, <1>3

\* A volume that goes takes its device along.
LEMMA DismountStep ==
  ASSUME AttachInv, NEW v \in Volumes, Dismount(v)
  PROVE  AttachInv'
<1> USE DEF AttachInv, LockInv, OneEach
<1>1. TypeOK'
  BY DEF TypeOK, Dismount
<1>2. LockInv'
  BY DEF TypeOK, Dismount
<1>3. OneEach'
  BY DEF TypeOK, Dismount
<1> QED BY <1>1, <1>2, <1>3

\* The invariant: who is past the check holds gFastMutexAttachLock and has
\* found nothing attached, and no volume has two devices.
THEOREM Invariance == Spec => []AttachInv
<1>1. AttachInv /\ [Next]_vars => AttachInv'
  <2> SUFFICES ASSUME AttachInv, [Next]_vars PROVE AttachInv'
    OBVIOUS
  <2>1. CASE UNCHANGED vars
    BY <2>1 DEF vars, AttachInv, TypeOK, LockInv, OneEach
  <2>2. CASE Next
    BY <2>2, RequestStep, BelowStep, CompleteStep, AcquireStep, RecheckStep,
       AttachStep, NotifierStep, VisitStep, DismountStep DEF Next, Step
  <2> QED BY <2>1, <2>2
<1> QED BY InitInv, <1>1, PTL DEF Spec

\* A set whose members are all equal has at most one.
LEMMA AllEqual ==
  ASSUME NEW S, \A d, e \in S : d = e
  PROVE  Cardinality(S) <= 1
<1>1. CASE S = {}
  BY <1>1, FS_EmptySet
<1>2. CASE S # {}
  <2>1. PICK d \in S : TRUE
    BY <1>2
  <2>2. S = {d}
    BY <2>1
  <2> QED BY <2>2, FS_Singleton
<1> QED BY <1>1, <1>2

\* No volume gets two devices of the driver, the assertion at the head of
\* AttachToMountedDevice.
THEOREM OneDevicePerVolume == Spec => []AtMostOne
<1>1. AttachInv => AtMostOne
  BY AllEqual DEF AttachInv, OneEach, AtMostOne
<1> QED BY Invariance, <1>1, PTL

-----------------------------------------------------------------------------
(* No device is left over and none is deleted while it is attached.          *)

\* A step that keeps all devices where they are.
LEMMA SameDevices ==
  ASSUME OwnedInv, NEW t \in Threads, NEW to \in PCs, Go(t, to),
         to \in {"sent", "lock", "check", "attach"} <=>
           pc[t] \in {"sent", "lock", "check", "attach"},
         UNCHANGED <<devices, cdo, attached, dev>>
  PROVE  HoldsOne' /\ SomewhereOnly'
<1>1. HoldsOne'
  BY DEF OwnedInv, AttachInv, TypeOK, HoldsOne, Go
<1>2. SomewhereOnly'
  BY DEF OwnedInv, SomewhereOnly
<1> QED BY <1>1, <1>2

\* A new device is its creator's alone.
LEMMA CreateOwned ==
  ASSUME OwnedInv, NEW t \in Threads, NEW v \in Volumes, NEW to \in PCs,
         Create(t, v), Go(t, to), dev[t] = NoDevice,
         to \in {"sent", "lock", "check", "attach"},
         UNCHANGED <<cdo, attached>>
  PROVE  HoldsOne' /\ SomewhereOnly'
<1>1. PICK d \in Devices \ devices :
        devices' = devices \union {d} /\ dev' = [dev EXCEPT ![t] = d]
  BY DEF Create
<1>2. d # NoDevice /\ dev'[t] = d /\ \A s \in Threads \ {t} : dev'[s] = dev[s]
  BY <1>1 DEF OwnedInv, AttachInv, TypeOK
<1>3. HoldsOne'
  BY <1>2 DEF OwnedInv, AttachInv, TypeOK, HoldsOne, Go
<1>4. d # cdo /\ (\A s \in Threads : d # dev[s]) /\ (\A u \in Volumes : d \notin attached[u])
  BY <1>1, <1>2 DEF OwnedInv, SomewhereOnly
<1>5. SomewhereOnly'
  <2> USE <1>1, <1>2, <1>4 DEF OwnedInv, SomewhereOnly
  <2>1. \A e \in devices' : \/ e = cdo'
                            \/ \E s \in Threads : e = dev'[s]
                            \/ \E u \in Volumes : e \in attached'[u]
    <3> SUFFICES ASSUME NEW e \in devices, e # cdo, \A u \in Volumes : e \notin attached[u]
                 PROVE  \E s \in Threads : e = dev'[s]
      OBVIOUS
    <3>1. PICK s \in Threads : e = dev[s]
      OBVIOUS
    <3>2. s # t
      BY <3>1 DEF AttachInv, TypeOK
    <3> QED BY <3>1, <3>2
  <2>2. (\A s \in Threads : dev'[s] \in devices' \union {NoDevice})
        /\ (\A u \in Volumes : attached'[u] \subseteq devices')
    OBVIOUS
  <2>3. \A r, s \in Threads : r # s /\ dev'[r] # NoDevice => dev'[r] # dev'[s]
    OBVIOUS
  <2>4. (\A s \in Threads : dev'[s] # NoDevice => dev'[s] # cdo')
        /\ (\A s \in Threads, u \in Volumes : dev'[s] \notin attached'[u])
    OBVIOUS
  <2> QED BY <2>1, <2>2, <2>3, <2>4
<1> QED BY <1>3, <1>5

\* A thread that leaves its volume deletes the device it holds.
LEMMA LeaveOwned ==
  ASSUME OwnedInv, NEW t \in Threads, Leave(t), devices' = devices \ {dev[t]},
         UNCHANGED <<cdo, attached>>
  PROVE  HoldsOne' /\ SomewhereOnly'
<1>1. dev'[t] = NoDevice /\ \A s \in Threads \ {t} : dev'[s] = dev[s] /\ pc'[s] = pc[s]
  BY DEF OwnedInv, AttachInv, TypeOK, Leave, Go
<1>2. pc'[t] \notin {"sent", "lock", "check", "attach"}
  BY DEF OwnedInv, AttachInv, TypeOK, Leave, Go
<1>3. NoDevice \notin devices
  BY DEF OwnedInv, AttachInv, TypeOK
<1>4. HoldsOne'
  BY <1>1, <1>2 DEF OwnedInv, HoldsOne
<1>5. SomewhereOnly'
  BY <1>1, <1>3 DEF OwnedInv, SomewhereOnly
<1> QED BY <1>4, <1>5

LEMMA RequestOwned ==
  ASSUME OwnedInv, NEW m \in Mounters, NEW v \in Volumes, Request(m, v)
  PROVE  HoldsOne' /\ SomewhereOnly'
<1>1. dev[m] = NoDevice /\ m \in Threads
  BY DEF Request, OwnedInv, HoldsOne
<1>2. CASE UNCHANGED <<devices, dev, pc>>
  BY <1>2 DEF Request, OwnedInv, HoldsOne, SomewhereOnly
<1>3. CASE UNCHANGED <<devices, dev>> /\ Go(m, "below")
  BY <1>1, <1>3, SameDevices DEF Request, PCs
<1>4. CASE Create(m, v) /\ Go(m, "sent")
  BY <1>1, <1>4, CreateOwned DEF Request, PCs
<1> QED BY <1>2, <1>3, <1>4 DEF Request

LEMMA CompleteOwned ==
  ASSUME OwnedInv, NEW m \in Mounters, MountComplete(m)
  PROVE  HoldsOne' /\ SomewhereOnly'
<1>1. CASE Go(m, "lock") /\ UNCHANGED <<devices, dev>>
  BY <1>1, SameDevices DEF MountComplete, PCs
<1>2. CASE devices' = devices \ {dev[m]} /\ Leave(m)
  BY <1>2, LeaveOwned DEF MountComplete
<1> QED BY <1>1, <1>2 DEF MountComplete

\* A mount the driver has not seen has no device to lose.
LEMMA BelowOwned ==
  ASSUME OwnedInv, NEW m \in Mounters, MountedBelow(m)
  PROVE  HoldsOne' /\ SomewhereOnly'
<1>1. dev[m] = NoDevice /\ NoDevice \notin devices
  BY DEF MountedBelow, OwnedInv, HoldsOne, AttachInv, TypeOK
<1>2. devices' = devices \ {dev[m]}
  BY <1>1 DEF MountedBelow
<1> QED BY <1>2, LeaveOwned DEF MountedBelow

LEMMA RecheckOwned ==
  ASSUME OwnedInv, NEW t \in Threads, Acquire(t) \/ Recheck(t)
  PROVE  HoldsOne' /\ SomewhereOnly'
<1>1. CASE devices' = devices \ {dev[t]} /\ Leave(t) /\ Recheck(t)
  BY <1>1, LeaveOwned DEF Recheck
<1>2. CASE Recheck(t) /\ Go(t, "attach") /\ UNCHANGED <<devices, dev>>
  BY <1>2, SameDevices DEF Recheck, PCs
<1>3. CASE Acquire(t)
  BY <1>3, SameDevices DEF Acquire, PCs
<1> QED BY <1>1, <1>2, <1>3 DEF Recheck

\* The device that is attached passes from the thread to the volume.
LEMMA AttachOwned ==
  ASSUME OwnedInv, NEW t \in Threads, Attach(t)
  PROVE  HoldsOne' /\ SomewhereOnly'
<1>1. vol[t] \in Volumes /\ dev[t] \in Devices /\ dev[t] \in devices
  BY DEF Attach, OwnedInv, AttachInv, LockInv, HoldsOne, SomewhereOnly
<1>2. CASE /\ attached' = [attached EXCEPT ![vol[t]] = @ \union {dev[t]}]
           /\ Leave(t)
           /\ UNCHANGED devices
  <2>1. dev'[t] = NoDevice /\ \A s \in Threads \ {t} : dev'[s] = dev[s] /\ pc'[s] = pc[s]
    BY <1>2 DEF OwnedInv, AttachInv, TypeOK, Leave, Go
  <2>2. pc'[t] \notin {"sent", "lock", "check", "attach"}
    BY <1>2 DEF OwnedInv, AttachInv, TypeOK, Leave, Go
  <2>3. attached'[vol[t]] = attached[vol[t]] \union {dev[t]}
        /\ \A v \in Volumes \ {vol[t]} : attached'[v] = attached[v]
    BY <1>1, <1>2 DEF OwnedInv, AttachInv, TypeOK
  <2>4. HoldsOne'
    BY <2>1, <2>2 DEF OwnedInv, HoldsOne
  <2>5. dev[t] # NoDevice /\ NoDevice \notin devices /\ UNCHANGED cdo
    BY <1>1 DEF Attach, OwnedInv, AttachInv, TypeOK
  <2>6. SomewhereOnly'
    BY <1>1, <1>2, <2>1, <2>3, <2>5 DEF OwnedInv, SomewhereOnly
  <2> QED BY <2>4, <2>6
<1>3. CASE UNCHANGED <<devices, pc, dev, attached>>
  BY <1>3 DEF Attach, OwnedInv, HoldsOne, SomewhereOnly
<1>4. CASE devices' = devices \ {dev[t]} /\ Leave(t) /\ UNCHANGED attached
  BY <1>4, LeaveOwned DEF Attach
<1> QED BY <1>2, <1>3, <1>4 DEF Attach

\* The device on the control device object comes and goes with the file system.
LEMMA NotifierOwned ==
  ASSUME OwnedInv, Activate \/ Snapshot \/ Enumerated \/ Deactivate
  PROVE  HoldsOne' /\ SomewhereOnly'
<1>1. HoldsOne'
  BY DEF OwnedInv, AttachInv, TypeOK, HoldsOne, Activate, Snapshot, Enumerated, Deactivate, Go
<1>2. NoDevice \notin devices /\ devices \subseteq Devices
  BY DEF OwnedInv, AttachInv, TypeOK
<1>3. CASE Activate
  <2>1. PICK d \in Devices \ devices : devices' = devices \union {d} /\ cdo' = d
    BY <1>3 DEF Activate
  <2>2. d # NoDevice /\ cdo = NoDevice /\ UNCHANGED <<attached, dev>>
    BY <1>3 DEF Activate
  <2>3. SomewhereOnly'
    BY <1>2, <2>1, <2>2 DEF OwnedInv, SomewhereOnly
  <2> QED BY <1>1, <2>3
<1>4. CASE /\ devices' = devices \ {cdo} /\ cdo' = NoDevice
           /\ UNCHANGED <<attached, dev>>
  <2>1. SomewhereOnly'
    BY <1>2, <1>4 DEF OwnedInv, SomewhereOnly
  <2> QED BY <1>1, <2>1
<1>5. CASE UNCHANGED <<devices, cdo, attached, dev>>
  BY <1>1, <1>5 DEF OwnedInv, SomewhereOnly
<1> QED BY <1>3, <1>4, <1>5 DEF Activate, Snapshot, Enumerated, Deactivate

LEMMA VisitOwned ==
  ASSUME OwnedInv, NEW v \in Volumes, Visit(v)
  PROVE  HoldsOne' /\ SomewhereOnly'
<1>1. dev[Notifier] = NoDevice /\ Notifier \in Threads
  BY DEF Visit, OwnedInv, HoldsOne
<1>2. CASE UNCHANGED <<devices, pc, dev>>
  BY <1>2 DEF Visit, OwnedInv, HoldsOne, SomewhereOnly
<1>3. CASE Create(Notifier, v) /\ Go(Notifier, "lock")
  BY <1>1, <1>3, CreateOwned DEF Visit, PCs
<1> QED BY <1>2, <1>3 DEF Visit

\* A volume that goes takes along what is attached to it and nothing else.
LEMMA DismountOwned ==
  ASSUME OwnedInv, NEW v \in Volumes, Dismount(v)
  PROVE  HoldsOne' /\ SomewhereOnly'
<1>1. HoldsOne'
  BY DEF Dismount, OwnedInv, HoldsOne
<1>2. attached'[v] = {} /\ \A u \in Volumes \ {v} : attached'[u] = attached[u]
  BY DEF Dismount, OwnedInv, AttachInv, TypeOK
<1>3. SomewhereOnly'
  BY <1>2 DEF Dismount, OwnedInv, SomewhereOnly
<1> QED BY <1>1, <1>3

\* Every device the driver created is on the control device object, on a volume or
\* with one thread, whatever calls fail and volumes go: none is left over, and none is
\* deleted while it is attached (AttachToMountedDevice, FileSystemControlMountVolume).
THEOREM DevicesOwned == Spec => []EveryDeviceOwned
<1>1. Init => HoldsOne /\ SomewhereOnly
  BY DEF Init, HoldsOne, SomewhereOnly
<1>2. AttachInv /\ HoldsOne /\ SomewhereOnly /\ [Next]_vars => (HoldsOne /\ SomewhereOnly)'
  <2> SUFFICES ASSUME OwnedInv, [Next]_vars PROVE HoldsOne' /\ SomewhereOnly'
    BY DEF OwnedInv
  <2>1. CASE UNCHANGED vars
    BY <2>1 DEF vars, OwnedInv, HoldsOne, SomewhereOnly
  <2>2. CASE Next
    BY <2>2, RequestOwned, BelowOwned, CompleteOwned, RecheckOwned, AttachOwned,
       NotifierOwned, VisitOwned, DismountOwned DEF Next, Step
  <2> QED BY <2>1, <2>2
<1>3. AttachInv /\ HoldsOne /\ SomewhereOnly => EveryDeviceOwned
  <2> SUFFICES ASSUME TypeOK, SomewhereOnly PROVE EveryDeviceOwned
    BY DEF AttachInv
  <2> DEFINE onVolumes == UNION {attached[v] : v \in Volumes}
             held == {dev[t] : t \in Threads} \ {NoDevice}
             onCdo == {cdo} \ {NoDevice}
  <2>1. ASSUME NEW d \in devices
        PROVE  d \in onVolumes \union held \union onCdo
    <3>1. d # NoDevice
      BY DEF TypeOK
    <3>2. (\E t \in Threads : d = dev[t]) => d \in held
      BY <3>1
    <3>3. (\E v \in Volumes : d \in attached[v]) => d \in onVolumes
      OBVIOUS
    <3> QED BY <3>1, <3>2, <3>3 DEF SomewhereOnly
  <2>2. onVolumes \subseteq devices
    BY DEF SomewhereOnly
  <2>3. held \subseteq devices /\ onCdo \subseteq devices
    BY DEF SomewhereOnly
  <2>4. held \intersect onVolumes = {} /\ onCdo \intersect (held \union onVolumes) = {}
    BY DEF SomewhereOnly
  <2>5. devices = onVolumes \union held \union onCdo
    BY <2>1, <2>2, <2>3
  <2>6. /\ \A s, t \in Threads : s # t /\ dev[s] # NoDevice => dev[s] # dev[t]
        /\ \A u, v \in Volumes : u # v => attached[u] \intersect attached[v] = {}
    BY DEF SomewhereOnly
  <2> QED BY <2>4, <2>5, <2>6 DEF EveryDeviceOwned
<1> QED BY <1>1, <1>2, <1>3, Invariance, PTL DEF Spec

-----------------------------------------------------------------------------
(* No volume of a file system is missed, and no shadow copy is touched.       *)

\* What each step leaves of the invariant, volume by volume.
LEMMA RequestFilter ==
  ASSUME FilterInv, NEW m \in Mounters, NEW v \in Volumes, Request(m, v)
  PROVE  (Caught /\ ListInv /\ BelowFailed /\ ShadowInv)'
<1> USE DEF FilterInv, AttachInv
<1>1. pc[m] = "idle" /\ failed \subseteq failed' /\ UNCHANGED <<cdo, attached, todo>>
      /\ pc'[Notifier] = pc[Notifier]
  BY DEF Request, Misread, TypeOK, Go
<1>2. \A u \in Volumes : Bringing(u) => Bringing(u)'
  BY <1>1 DEF Request, TypeOK, Go, Create, Bringing
<1>3. Caught'
  BY <1>1, <1>2 DEF Request, TypeOK, Caught
<1>4. ListInv' /\ BelowFailed'
  BY <1>1 DEF Request, TypeOK, ListInv, BelowFailed, Go, Create
<1>5. ShadowInv'
  BY <1>1 DEF Request, TypeOK, ShadowInv, ShadowsUntouched, Go, Create, Misread
<1> QED BY <1>3, <1>4, <1>5

\* A thread that leaves its volume v, when v has a device or a call has failed on it.
LEMMA LeaveFilter ==
  ASSUME FilterInv, NEW t \in Threads, Leave(t), pc[t] # "snapshot",
         UNCHANGED <<volume, cdo, todo>>, failed \subseteq failed',
         \A v \in Volumes : attached[v] \subseteq attached'[v],
         \A v \in Shadow \ failed' : attached'[v] = attached[v],
         pc[t] \in {"lock", "check", "attach"} =>
           attached'[vol[t]] # {} \/ vol[t] \in failed'
  PROVE  (Caught /\ ListInv /\ BelowFailed /\ ShadowInv)'
<1> USE DEF FilterInv, AttachInv
<1>1. /\ pc'[t] \in {"idle", "visit"}
      /\ \A s \in Threads \ {t} : pc'[s] = pc[s] /\ vol'[s] = vol[s]
  BY DEF Leave, Go, TypeOK
<1>2. pc'[Notifier] = pc[Notifier] \/ (t = Notifier /\ pc'[Notifier] = "visit")
  BY <1>1 DEF Leave, Go, TypeOK
<1>3. \A v \in Volumes : Bringing(v) =>
        \/ Bringing(v)'
        \/ vol[t] = v /\ pc[t] \in {"lock", "check", "attach"}
  BY <1>1 DEF Bringing
<1>4. ListInv' /\ BelowFailed' /\ ShadowInv'
  BY <1>1, <1>2 DEF ListInv, BelowFailed, ShadowInv, ShadowsUntouched
<1>5. CASE pc[Notifier] # "snapshot"
  <2>1. Caught'
    BY <1>2, <1>3, <1>5 DEF Caught
  <2> QED BY <1>4, <2>1
<1>6. CASE pc[Notifier] = "snapshot" /\ t # Notifier
  <2>1. pc'[Notifier] = "snapshot"
    BY <1>1, <1>6
  <2> QED BY <1>4, <2>1 DEF Caught
<1> QED BY <1>4, <1>5, <1>6

LEMMA MountFilter ==
  ASSUME FilterInv, NEW m \in Mounters, MountedBelow(m) \/ MountComplete(m)
  PROVE  (Caught /\ ListInv /\ BelowFailed /\ ShadowInv)'
<1> USE DEF FilterInv, AttachInv
<1>1. m \in Threads /\ m # Notifier /\ vol[m] \in Volumes
  BY DEF MountedBelow, MountComplete, LockInv
<1>2. CASE MountedBelow(m)
  <2>1. vol[m] \in failed /\ UNCHANGED <<cdo, attached, todo, failed>> /\ Leave(m)
        /\ pc[m] = "below"
    BY <1>2 DEF MountedBelow, BelowFailed
  <2>2. \A v \in Volumes \ failed : volume'[v] = volume[v]
    BY <1>2, <2>1 DEF MountedBelow, TypeOK
  <2>3. /\ pc'[m] = "idle" /\ pc'[Notifier] = pc[Notifier]
        /\ \A s \in Threads \ {m} : pc'[s] = pc[s] /\ vol'[s] = vol[s]
    BY <1>1, <2>1 DEF Leave, Go, TypeOK
  <2>4. \A v \in Volumes : Bringing(v) => Bringing(v)'
    BY <2>1, <2>3 DEF Bringing
  <2>5. Caught'
    BY <2>1, <2>2, <2>3, <2>4 DEF Caught
  <2>6. ListInv' /\ BelowFailed' /\ ShadowInv'
    BY <2>1, <2>3 DEF ListInv, BelowFailed, ShadowInv, ShadowsUntouched
  <2> QED BY <2>5, <2>6
<1>3. CASE MountComplete(m) /\ Leave(m) /\ UNCHANGED volume
  BY <1>3, LeaveFilter DEF MountComplete
<1>4. CASE /\ MountComplete(m) /\ Go(m, "lock")
           /\ volume' = [volume EXCEPT ![vol[m]] = "mounted"] /\ UNCHANGED vol
  <2>1. pc[m] = "sent" /\ UNCHANGED <<cdo, attached, todo, failed>>
    BY <1>4 DEF MountComplete
  <2>2. /\ pc'[m] = "lock" /\ pc'[Notifier] = pc[Notifier]
        /\ \A s \in Threads \ {m} : pc'[s] = pc[s]
    BY <1>1, <1>4 DEF Go, TypeOK
  <2>3. Bringing(vol[m])' /\ \A v \in Volumes : Bringing(v) => Bringing(v)'
    BY <1>1, <1>4, <2>1, <2>2 DEF Bringing
  <2>4. \A v \in Volumes \ {vol[m]} : volume'[v] = volume[v]
    BY <1>1, <1>4 DEF TypeOK
  <2>5. Caught'
    BY <1>4, <2>1, <2>2, <2>3, <2>4 DEF Caught
  <2>6. ListInv' /\ BelowFailed' /\ ShadowInv'
    BY <1>4, <2>1, <2>2 DEF ListInv, BelowFailed, ShadowInv, ShadowsUntouched
  <2> QED BY <2>5, <2>6
<1> QED BY <1>2, <1>3, <1>4 DEF MountComplete

\* A thread stays with its volume.
LEMMA StayFilter ==
  ASSUME FilterInv, NEW t \in Threads, NEW to \in {"lock", "check", "attach"}, Go(t, to),
         pc[t] \in {"lock", "check", "attach"},
         UNCHANGED <<volume, cdo, attached, vol, todo, failed>>
  PROVE  (Caught /\ ListInv /\ BelowFailed /\ ShadowInv)'
<1> USE DEF FilterInv, AttachInv
<1>1. pc'[t] = to /\ \A s \in Threads \ {t} : pc'[s] = pc[s]
  BY DEF Go, TypeOK
<1>2. \A v \in Volumes : Bringing(v) => Bringing(v)'
  BY <1>1 DEF Bringing
<1>3. pc[Notifier] = "snapshot" <=> pc'[Notifier] = "snapshot"
  BY <1>1
<1>4. Caught'
  BY <1>2, <1>3 DEF Caught
<1>5. ListInv' /\ BelowFailed' /\ ShadowInv'
  BY <1>1 DEF ListInv, BelowFailed, ShadowInv, ShadowsUntouched
<1> QED BY <1>4, <1>5

LEMMA StepFilter ==
  ASSUME FilterInv, NEW t \in Threads, Acquire(t) \/ Step(t)
  PROVE  (Caught /\ ListInv /\ BelowFailed /\ ShadowInv)'
<1> USE DEF FilterInv, AttachInv
<1>1. CASE Acquire(t)
  BY <1>1, StayFilter DEF Acquire
<1>2. CASE Recheck(t)
  BY <1>2, StayFilter, LeaveFilter DEF Recheck
<1>3. CASE Attach(t)
  <2>1. vol[t] \in Volumes /\ pc[t] = "attach"
    BY <1>3 DEF Attach, LockInv
  <2>2. CASE /\ attached' = [attached EXCEPT ![vol[t]] = @ \union {dev[t]}]
             /\ Leave(t) /\ UNCHANGED failed
    <3>1. /\ attached'[vol[t]] = attached[vol[t]] \union {dev[t]}
          /\ \A v \in Volumes \ {vol[t]} : attached'[v] = attached[v]
      BY <2>1, <2>2 DEF TypeOK
    <3>2. vol[t] \in Shadow => vol[t] \in failed
      BY <2>1 DEF ShadowInv
    <3>3. \A v \in Shadow \ failed' : attached'[v] = attached[v]
      BY <2>2, <3>1, <3>2
    <3>4. attached'[vol[t]] # {} /\ \A v \in Volumes : attached[v] \subseteq attached'[v]
      BY <3>1
    <3> QED BY <1>3, <2>2, <3>3, <3>4, LeaveFilter DEF Attach
  <2>3. CASE UNCHANGED <<pc, vol, failed, attached>>
    BY <1>3, <2>3 DEF Attach, Caught, ListInv, BelowFailed, ShadowInv, ShadowsUntouched,
                     Bringing
  <2>4. CASE Leave(t) /\ failed' = failed \union {vol[t]} /\ UNCHANGED attached
    BY <1>3, <2>4, LeaveFilter DEF Attach
  <2> QED BY <1>3, <2>2, <2>3, <2>4 DEF Attach
<1> QED BY <1>1, <1>2, <1>3 DEF Step

\* The list of volumes is made when the driver is on the control device object, so
\* that what is mounted later comes by as a request.
LEMMA NotifierFilter ==
  ASSUME FilterInv, Activate \/ Snapshot \/ Enumerated \/ Deactivate
  PROVE  (Caught /\ ListInv /\ BelowFailed /\ ShadowInv)'
<1> USE DEF FilterInv, AttachInv
<1>1. UNCHANGED <<volume, attached, vol, failed>>
  BY DEF Activate, Snapshot, Enumerated, Deactivate
<1>2. \A s \in Threads \ {Notifier} : pc'[s] = pc[s]
  BY DEF Activate, Snapshot, Enumerated, Deactivate, Go, TypeOK
<1>3. pc[Notifier] \in {"idle", "snapshot", "visit"} /\ pc'[Notifier] \in {"idle", "snapshot", "visit"}
  BY DEF Activate, Snapshot, Enumerated, Deactivate, Go, TypeOK
<1>4. \A v \in Volumes : Bringing(v) => Bringing(v)'
  BY <1>1, <1>2, <1>3 DEF Bringing
<1>5. BelowFailed' /\ ShadowInv'
  BY <1>1, <1>2, <1>3 DEF BelowFailed, ShadowInv, ShadowsUntouched
<1>6. ListInv'
  BY DEF Activate, Snapshot, Enumerated, Deactivate, Go, TypeOK, ListInv
<1>7. Caught'
  BY <1>1, <1>4 DEF Activate, Snapshot, Enumerated, Deactivate, Go, TypeOK, Caught
<1> QED BY <1>5, <1>6, <1>7

LEMMA VisitFilter ==
  ASSUME FilterInv, NEW v \in Volumes, Visit(v)
  PROVE  (Caught /\ ListInv /\ BelowFailed /\ ShadowInv)'
<1> USE DEF FilterInv, AttachInv
<1>1. /\ pc[Notifier] = "visit" /\ Notifier \in Threads
      /\ UNCHANGED <<volume, cdo, attached>> /\ todo' = todo \ {v}
      /\ failed \subseteq failed'
  BY DEF Visit, Misread
<1>2. CASE UNCHANGED <<pc, vol>>
  <2>1. attached[v] # {} \/ v \in Shadow \/ volume[v] = "gone" \/ v \in failed'
    BY <1>2 DEF Visit, Go, TypeOK
  <2>2. Caught'
    BY <1>1, <1>2, <2>1 DEF Caught, Bringing
  <2>3. ListInv' /\ BelowFailed' /\ ShadowInv'
    BY <1>1, <1>2 DEF ListInv, BelowFailed, ShadowInv, ShadowsUntouched
  <2> QED BY <2>2, <2>3
<1>3. CASE Create(Notifier, v) /\ Go(Notifier, "lock") /\ failed' = Misread(v)
  <2>1. /\ pc'[Notifier] = "lock" /\ vol'[Notifier] = v
        /\ \A s \in Threads \ {Notifier} : pc'[s] = pc[s] /\ vol'[s] = vol[s]
    BY <1>1, <1>3 DEF Create, Go, TypeOK
  <2>2. Bringing(v)' /\ \A u \in Volumes : Bringing(u) => Bringing(u)'
    BY <1>1, <2>1 DEF Bringing
  <2>3. Caught'
    BY <1>1, <2>1, <2>2 DEF Caught
  <2>4. v \in Shadow => v \in failed'
    BY <1>3 DEF Misread
  <2>5. ListInv' /\ BelowFailed' /\ ShadowInv'
    BY <1>1, <2>1, <2>4 DEF ListInv, BelowFailed, ShadowInv, ShadowsUntouched
  <2> QED BY <2>3, <2>5
<1> QED BY <1>2, <1>3 DEF Visit

LEMMA DismountFilter ==
  ASSUME FilterInv, NEW v \in Volumes, Dismount(v)
  PROVE  (Caught /\ ListInv /\ BelowFailed /\ ShadowInv)'
BY DEF FilterInv, AttachInv, TypeOK, Dismount, Caught, ListInv, BelowFailed, ShadowInv,
       ShadowsUntouched, Bringing

LEMMA Filtering == Spec => []FilterInv
<1>1. Init => Caught /\ ListInv /\ BelowFailed /\ ShadowInv
  BY DEF Init, Caught, ListInv, BelowFailed, ShadowInv, ShadowsUntouched
<1>2. AttachInv /\ Caught /\ ListInv /\ BelowFailed /\ ShadowInv /\ [Next]_vars
      => (Caught /\ ListInv /\ BelowFailed /\ ShadowInv)'
  <2> SUFFICES ASSUME FilterInv, [Next]_vars
               PROVE  (Caught /\ ListInv /\ BelowFailed /\ ShadowInv)'
    BY DEF FilterInv
  <2>1. CASE UNCHANGED vars
    BY <2>1 DEF vars, FilterInv, Caught, ListInv, BelowFailed, ShadowInv,
                ShadowsUntouched, Bringing
  <2>2. CASE Next
    BY <2>2, RequestFilter, MountFilter, StepFilter, NotifierFilter, VisitFilter,
       DismountFilter DEF Next
  <2> QED BY <2>1, <2>2
<1>3. AttachInv /\ Caught /\ ListInv /\ BelowFailed /\ ShadowInv => FilterInv
  BY DEF FilterInv
<1> QED BY <1>1, <1>2, <1>3, Invariance, PTL DEF Spec

\* The comment of EnumerateFileSystemVolumes: a volume that is mounted while the list is
\* made is caught as a request, one mounted before is on the list, and so none is missed.
THEOREM NoneMissed == Spec => []Filtered
<1>1. FilterInv => Filtered
  BY DEF FilterInv, Caught, ListInv, Filtered, Bringing, OnItsWay
<1> QED BY <1>1, Filtering, PTL

\* Shadow copies are left alone whichever way the driver meets them.
THEOREM ShadowsLeftAlone == Spec => []ShadowsUntouched
<1>1. FilterInv => ShadowsUntouched
  BY DEF FilterInv, ShadowInv
<1> QED BY <1>1, Filtering, PTL
=============================================================================
