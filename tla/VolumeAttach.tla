---------------------------- MODULE VolumeAttach ----------------------------
(***************************************************************************)
(* How the filter driver gets onto the volumes of one file system: it      *)
(* attaches a device to the file system's control device object (CDO),     *)
(* puts a device on each volume that is mounted already                    *)
(* (AttachToFileSystemDevice, EnumerateFileSystemVolumes), and on each     *)
(* volume a mount request brings up (FileSystemControlMountVolume).  Mount *)
(* requests and the enumeration run at the same time; gFastMutexAttachLock *)
(* guards the last check and the attachment.                               *)
(*                                                                         *)
(* The I/O manager and the file system are external: a mount request goes  *)
(* to the top of the CDO's stack, and a volume that is dismounted takes    *)
(* the devices attached to it along (FastIoDetachDevice).                  *)
(***************************************************************************)
EXTENDS Naturals, FiniteSets

CONSTANTS
  Mounters,    \* threads that carry a mount request
  Notifier,    \* the thread that delivers FileSystemChangeNotification
  Volumes,     \* volume device objects of the file system
  Shadow,      \* those that are volume shadow copies
  Devices,     \* identities of the driver's own device objects
  NoDevice,
  NoVolume,
  NoThread,
  Retries,     \* how often AttachToMountedDevice tries: 8 in the code
  Faults       \* what may go wrong, a subset of FaultKinds

Threads == Mounters \union {Notifier}

\* "create": IoCreateDevice fails.  "attach": attaching fails.  "enumerate": the
\* device list cannot be had.  "mount": the file system refuses a mount.
\* "inflight": a mount request that went to the file system before the driver
\* attached to its CDO may complete later.  "misread": IsShadowCopyVolume fails,
\* and the volume passes for an ordinary one.
FaultKinds == {"create", "attach", "enumerate", "mount", "inflight", "misread"}

ASSUME AttachAssumption ==
  /\ Notifier \notin Mounters
  /\ NoThread \notin Threads
  /\ NoVolume \notin Volumes
  /\ NoDevice \notin Devices
  /\ Shadow \subseteq Volumes
  /\ Retries \in Nat \ {0}
  /\ Faults \subseteq FaultKinds

VARIABLES
  volume,      \* "new", "mounted" or "gone"
  devices,     \* the driver's device objects that exist
  cdo,         \* the one attached to the CDO, or NoDevice
  attached,    \* those attached to each volume
  lock,        \* who holds gFastMutexAttachLock
  pc, dev, vol, tries,  \* of each thread
  todo,        \* volumes of devList the enumeration has not come to
  failed       \* history: volumes a call of the driver failed on, or whose
               \* mount passed below it

vars == <<volume, devices, cdo, attached, lock, pc, dev, vol, tries, todo,
          failed>>

PCs == {"idle", "below", "sent", "snapshot", "visit", "lock", "check", "attach"}

TypeOK ==
  /\ volume \in [Volumes -> {"new", "mounted", "gone"}]
  /\ devices \subseteq Devices
  /\ cdo \in Devices \union {NoDevice}
  /\ attached \in [Volumes -> SUBSET Devices]
  /\ lock \in Threads \union {NoThread}
  /\ pc \in [Threads -> PCs]
  /\ dev \in [Threads -> Devices \union {NoDevice}]
  /\ vol \in [Threads -> Volumes \union {NoVolume}]
  /\ tries \in [Threads -> 0..Retries]
  /\ todo \subseteq Volumes
  /\ failed \subseteq Volumes

-----------------------------------------------------------------------------

Go(t, to) == pc' = [pc EXCEPT ![t] = to]

\* A thread is through with its volume: the request is complete, or the
\* enumeration turns to the next volume.
Leave(t) ==
  /\ Go(t, IF t = Notifier THEN "visit" ELSE "idle")
  /\ dev' = [dev EXCEPT ![t] = NoDevice]
  /\ vol' = [vol EXCEPT ![t] = NoVolume]
  /\ tries' = [tries EXCEPT ![t] = 0]

\* IsShadowCopyVolume lets v pass.
Ordinary(v) == v \notin Shadow \/ "misread" \in Faults

\* The volumes a call has failed on, once v is taken for an ordinary one.
Misread(v) == IF v \in Shadow THEN failed \union {v} ELSE failed

\* IoCreateDevice for thread t, on behalf of volume v.
Create(t, v) ==
  \E d \in Devices \ devices :
    /\ devices' = devices \union {d}
    /\ dev' = [dev EXCEPT ![t] = d]
    /\ vol' = [vol EXCEPT ![t] = v]

-----------------------------------------------------------------------------
(* Mount requests.                                                         *)

\* Mutant of Request: the filter device stays "initializing" until the
\* enumeration is through, and requests pass it by.
RequestBeforeReady(m, v) ==
  /\ pc[m] = "idle"
  /\ volume[v] # "gone"
  /\ \A n \in Mounters : vol[n] # v
  /\ \/ /\ cdo = NoDevice \/ v \in Shadow \/ pc[Notifier] # "idle"
        /\ volume' = [volume EXCEPT ![v] = "mounted"]
        /\ UNCHANGED <<devices, dev, pc, vol>>
     \/ /\ cdo # NoDevice /\ v \notin Shadow
        /\ Create(m, v)
        /\ Go(m, "sent")
        /\ UNCHANGED volume
  /\ UNCHANGED <<cdo, attached, lock, tries, todo, failed>>

\* A request to mount v, new or known, reaches the CDO's stack.  Without the
\* filter it is the file system's alone, and so is the mount of a shadow copy.
\* When no device can be created the request fails and leaves nothing behind.
Request(m, v) ==
  /\ pc[m] = "idle"
  /\ volume[v] # "gone"
  /\ \A n \in Mounters : vol[n] # v
  /\ \/ /\ cdo = NoDevice \/ v \in Shadow
        /\ \/ /\ volume' = [volume EXCEPT ![v] = "mounted"]
              /\ UNCHANGED <<pc, vol, failed>>
           \/ /\ "inflight" \in Faults
              /\ Go(m, "below")
              /\ vol' = [vol EXCEPT ![m] = v]
              /\ failed' = failed \union {v}
              /\ UNCHANGED volume
        /\ UNCHANGED <<devices, dev>>
     \/ /\ cdo # NoDevice /\ Ordinary(v)
        /\ Create(m, v)
        /\ Go(m, "sent")
        /\ failed' = Misread(v)
        /\ UNCHANGED volume
  /\ UNCHANGED <<cdo, attached, lock, tries, todo>>

\* The file system completes a mount the driver has not seen.
MountedBelow(m) ==
  /\ pc[m] = "below"
  /\ volume' = [volume EXCEPT ![vol[m]] = IF @ = "gone" THEN @ ELSE "mounted"]
  /\ Leave(m)
  /\ UNCHANGED <<devices, cdo, attached, lock, todo, failed>>

\* FileSystemControlMountVolumeComplete: after a mount that failed, the device
\* made for it is deleted.
MountComplete(m) ==
  /\ pc[m] = "sent"
  /\ \/ /\ volume[vol[m]] # "gone"
        /\ volume' = [volume EXCEPT ![vol[m]] = "mounted"]
        /\ Go(m, "lock")
        /\ UNCHANGED <<devices, dev, vol, tries>>
     \/ /\ volume[vol[m]] = "gone" \/ "mount" \in Faults
        /\ devices' = devices \ {dev[m]}
        /\ Leave(m)
        /\ UNCHANGED volume
  /\ UNCHANGED <<cdo, attached, lock, todo, failed>>

-----------------------------------------------------------------------------
(* Attaching, the same for a mount request and for the enumeration.        *)

\* ExAcquireFastMutex(&gFastMutexAttachLock).
Acquire(t) ==
  /\ pc[t] = "lock"
  /\ lock = NoThread
  /\ lock' = t
  /\ Go(t, "check")
  /\ UNCHANGED <<volume, devices, cdo, attached, dev, vol, tries, todo, failed>>

\* Mutant of Recheck: what was found before the mutex was taken is relied on.
RecheckSkipped(t) ==
  /\ pc[t] = "check"
  /\ Go(t, "attach")
  /\ UNCHANGED <<volume, devices, cdo, attached, lock, dev, vol, tries, todo, failed>>

\* Mutant of Recheck: the mutex is not released when the driver is there.
RecheckKeepsLock(t) ==
  /\ pc[t] = "check"
  /\ IF attached[vol[t]] # {}
       THEN devices' = devices \ {dev[t]} /\ Leave(t)
       ELSE Go(t, "attach") /\ UNCHANGED <<devices, dev, vol, tries>>
  /\ UNCHANGED <<volume, cdo, attached, lock, todo, failed>>

\* IsAttachedToDevice: when the driver is on the volume already, the new
\* device is deleted and the mutex released.
Recheck(t) ==
  /\ pc[t] = "check"
  /\ \/ /\ attached[vol[t]] # {}
        /\ devices' = devices \ {dev[t]}
        /\ lock' = NoThread
        /\ Leave(t)
     \/ /\ attached[vol[t]] = {}
        /\ Go(t, "attach")
        /\ UNCHANGED <<devices, lock, dev, vol, tries>>
  /\ UNCHANGED <<volume, cdo, attached, todo, failed>>

\* Mutant of Attach: the device is not deleted after the last try.
AttachLeaks(t) ==
  /\ pc[t] = "attach"
  /\ IF volume[vol[t]] = "mounted"
       THEN attached' = [attached EXCEPT ![vol[t]] = @ \union {dev[t]}]
       ELSE UNCHANGED attached
  /\ lock' = NoThread
  /\ Leave(t)
  /\ UNCHANGED <<volume, devices, cdo, todo, failed>>

\* AttachToMountedDevice: a volume that goes away cannot be attached to.  After
\* the last try the device is deleted.  The mutex is held through the delays.
Attach(t) ==
  /\ pc[t] = "attach"
  /\ \/ /\ volume[vol[t]] = "mounted"
        /\ attached' = [attached EXCEPT ![vol[t]] = @ \union {dev[t]}]
        /\ lock' = NoThread
        /\ Leave(t)
        /\ UNCHANGED <<devices, failed>>
     \/ /\ volume[vol[t]] # "mounted" \/ "attach" \in Faults
        /\ IF tries[t] + 1 < Retries
             THEN /\ tries' = [tries EXCEPT ![t] = @ + 1]
                  /\ UNCHANGED <<devices, lock, pc, dev, vol, failed>>
             ELSE /\ devices' = devices \ {dev[t]}
                  /\ failed' = failed \union {vol[t]}
                  /\ lock' = NoThread
                  /\ Leave(t)
        /\ UNCHANGED attached
  /\ UNCHANGED <<volume, cdo, todo>>

-----------------------------------------------------------------------------
(* The file system comes and goes.                                         *)

\* AttachToFileSystemDevice.  When a device cannot be created or attached, the
\* driver stays off this file system.
Activate ==
  /\ pc[Notifier] = "idle"
  /\ cdo = NoDevice
  /\ \E d \in Devices \ devices :
       /\ devices' = devices \union {d}
       /\ cdo' = d
  /\ Go(Notifier, "snapshot")
  /\ UNCHANGED <<volume, attached, lock, dev, vol, tries, todo, failed>>

\* IoEnumerateDeviceObjectList.  When it fails the driver detaches again.
Snapshot ==
  /\ pc[Notifier] = "snapshot"
  /\ \/ /\ todo' = {v \in Volumes : volume[v] = "mounted"}
        /\ Go(Notifier, "visit")
        /\ UNCHANGED <<devices, cdo>>
     \/ /\ "enumerate" \in Faults
        /\ devices' = devices \ {cdo}
        /\ cdo' = NoDevice
        /\ Go(Notifier, "idle")
        /\ UNCHANGED todo
  /\ UNCHANGED <<volume, attached, lock, dev, vol, tries, failed>>

\* Mutant of Visit: volumes are not checked for being shadow copies.
VisitShadows(v) ==
  /\ pc[Notifier] = "visit"
  /\ v \in todo
  /\ todo' = todo \ {v}
  /\ IF attached[v] # {} \/ volume[v] = "gone"
       THEN UNCHANGED <<devices, pc, dev, vol>>
       ELSE Create(Notifier, v) /\ Go(Notifier, "lock")
  /\ UNCHANGED <<volume, cdo, attached, lock, tries, failed>>

\* The next volume of the list: one that has the driver already, that is a
\* shadow copy or that has lost its disk is passed over.
Visit(v) ==
  /\ pc[Notifier] = "visit"
  /\ v \in todo
  /\ todo' = todo \ {v}
  /\ \/ /\ attached[v] # {} \/ v \in Shadow \/ volume[v] = "gone"
        /\ UNCHANGED <<devices, pc, dev, vol, failed>>
     \/ /\ attached[v] = {} /\ Ordinary(v) /\ volume[v] # "gone"
        /\ Create(Notifier, v)
        /\ Go(Notifier, "lock")
        /\ failed' = Misread(v)
     \/ /\ "create" \in Faults
        /\ failed' = failed \union {v}
        /\ UNCHANGED <<devices, pc, dev, vol>>
  /\ UNCHANGED <<volume, cdo, attached, lock, tries>>

\* The enumeration is through.
Enumerated ==
  /\ pc[Notifier] = "visit"
  /\ todo = {}
  /\ Go(Notifier, "idle")
  /\ UNCHANGED <<volume, devices, cdo, attached, lock, dev, vol, tries, todo, failed>>

\* DetachFromFileSystemDevice.
Deactivate ==
  /\ pc[Notifier] = "idle"
  /\ cdo # NoDevice
  /\ devices' = devices \ {cdo}
  /\ cdo' = NoDevice
  /\ UNCHANGED <<volume, attached, lock, pc, dev, vol, tries, todo, failed>>

\* A volume is dismounted; the I/O manager calls FastIoDetachDevice for what
\* is attached to it.
Dismount(v) ==
  /\ volume[v] = "mounted"
  /\ volume' = [volume EXCEPT ![v] = "gone"]
  /\ attached' = [attached EXCEPT ![v] = {}]
  /\ devices' = devices \ attached[v]
  /\ UNCHANGED <<cdo, lock, pc, dev, vol, tries, todo, failed>>

-----------------------------------------------------------------------------

\* The driver is loaded while any volumes may be mounted.
Init ==
  /\ volume \in [Volumes -> {"new", "mounted"}]
  /\ devices = {}
  /\ cdo = NoDevice
  /\ attached = [v \in Volumes |-> {}]
  /\ lock = NoThread
  /\ pc = [t \in Threads |-> "idle"]
  /\ dev = [t \in Threads |-> NoDevice]
  /\ vol = [t \in Threads |-> NoVolume]
  /\ tries = [t \in Threads |-> 0]
  /\ todo = {}
  /\ failed = {}

Step(t) ==
  \/ Recheck(t)
  \/ Attach(t)

Next ==
  \/ \E m \in Mounters, v \in Volumes : Request(m, v)
  \/ \E m \in Mounters : MountedBelow(m) \/ MountComplete(m)
  \/ \E t \in Threads : Acquire(t) \/ Step(t)
  \/ Activate
  \/ Snapshot
  \/ \E v \in Volumes : Visit(v)
  \/ Enumerated
  \/ Deactivate
  \/ \E v \in Volumes : Dismount(v)

\* The file system completes mounts, threads in the driver go on, and a fast
\* mutex wakes its waiters in turn.
Fairness ==
  /\ \A m \in Mounters : WF_vars(MountComplete(m))
  /\ \A t \in Threads : WF_vars(Step(t)) /\ SF_vars(Acquire(t))
  /\ WF_vars(Snapshot)
  /\ WF_vars(Enumerated \/ \E v \in Volumes : Visit(v))

Spec == Init /\ [][Next]_vars /\ Fairness

-----------------------------------------------------------------------------
(* Properties.                                                             *)

\* However mounts and the enumeration interleave, no volume gets two devices of
\* the driver: the "not attached yet" that AttachToMountedDevice asserts.
AtMostOne == \A v \in Volumes : Cardinality(attached[v]) <= 1

\* Every device the driver created is in one place: on the CDO, on a volume or
\* with the thread that is about to attach it.  None is left over after an
\* error, and none is deleted while it is attached.
EveryDeviceOwned ==
  LET onVolumes == UNION {attached[v] : v \in Volumes}
      held == {dev[t] : t \in Threads} \ {NoDevice}
      onCdo == {cdo} \ {NoDevice}
  IN /\ devices = onVolumes \union held \union onCdo
     /\ held \intersect onVolumes = {}
     /\ onCdo \intersect (held \union onVolumes) = {}
     /\ \A s, t \in Threads : s # t /\ dev[s] # NoDevice => dev[s] # dev[t]
     /\ \A u, v \in Volumes : u # v => attached[u] \intersect attached[v] = {}

\* A thread is bringing the driver onto volume v.
OnItsWay(v) == \E t \in Threads : vol[t] = v /\ pc[t] # "below"

\* Once the driver has enumerated a file system, each volume of it is filtered
\* or about to be: what was mounted before and what is being mounted
\* (EnumerateFileSystemVolumes says both are caught), unless a call failed on it.
Filtered ==
  cdo # NoDevice /\ pc[Notifier] = "idle" =>
    \A v \in Volumes \ (Shadow \union failed) :
      volume[v] = "mounted" => attached[v] # {} \/ OnItsWay(v)

\* Shadow copies are left alone, whichever way the driver meets them, as long as
\* IsShadowCopyVolume can tell what they are.
ShadowsUntouched == \A v \in Shadow \ failed : attached[v] = {}

\* The mutex is given back: a mount request that reached the driver returns,
\* and so does the notification, even when every attempt to attach fails.
MountsReturn ==
  /\ \A m \in Mounters : pc[m] = "sent" ~> pc[m] = "idle"
  /\ pc[Notifier] = "snapshot" ~> pc[Notifier] = "idle"

-----------------------------------------------------------------------------
(* Why one volume gets one device, as an inductive invariant.               *)

\* Who is between the check and the attachment holds the mutex and has found
\* nothing attached.
LockInv ==
  \A t \in Threads :
    /\ pc[t] \in {"check", "attach"} => lock = t
    /\ pc[t] \in {"sent", "lock", "check", "attach"} =>
         vol[t] \in Volumes /\ dev[t] \in Devices
    /\ pc[t] = "below" => vol[t] \in Volumes
    /\ pc[t] = "attach" => attached[vol[t]] = {}

OneEach == \A v \in Volumes : \A d, e \in attached[v] : d = e

AttachInv == TypeOK /\ LockInv /\ OneEach

(***************************************************************************)
(* Why every device has one place: EveryDeviceOwned said device by device, *)
(* and which threads hold one.                                             *)
(***************************************************************************)

HoldsOne ==
  \A t \in Threads :
    dev[t] # NoDevice <=> pc[t] \in {"sent", "lock", "check", "attach"}

SomewhereOnly ==
  /\ \A d \in devices :
       d = cdo \/ (\E t \in Threads : d = dev[t]) \/ (\E v \in Volumes : d \in attached[v])
  /\ cdo \in devices \union {NoDevice}
  /\ \A t \in Threads : dev[t] \in devices \union {NoDevice}
  /\ \A v \in Volumes : attached[v] \subseteq devices
  /\ \A t \in Threads : dev[t] # NoDevice => dev[t] # cdo
  /\ \A v \in Volumes : cdo \notin attached[v]
  /\ \A t \in Threads, v \in Volumes : dev[t] \notin attached[v]
  /\ \A s, t \in Threads : s # t /\ dev[s] # NoDevice => dev[s] # dev[t]
  /\ \A u, v \in Volumes : u # v => attached[u] \intersect attached[v] = {}

OwnedInv == AttachInv /\ HoldsOne /\ SomewhereOnly

(***************************************************************************)
(* Why the volumes are filtered and shadow copies are not: what is mounted *)
(* and neither has a device nor is about to get one is still on the list.  *)
(***************************************************************************)

\* A thread has a device for the mounted volume v and is about to attach it.
Bringing(v) == \E t \in Threads : vol[t] = v /\ pc[t] \in {"lock", "check", "attach"}

Caught ==
  \A v \in Volumes \ (Shadow \union failed) :
    volume[v] = "mounted" /\ cdo # NoDevice /\ pc[Notifier] # "snapshot" =>
      attached[v] # {} \/ Bringing(v) \/ v \in todo

ListInv == pc[Notifier] \in {"idle", "snapshot"} => todo = {}

BelowFailed == \A t \in Threads : pc[t] = "below" => vol[t] \in failed

\* Only shadow copies that were taken for ordinary volumes get a device.
ShadowInv ==
  /\ ShadowsUntouched
  /\ \A t \in Threads :
       pc[t] \in {"sent", "lock", "check", "attach"} /\ vol[t] \in Shadow => vol[t] \in failed

FilterInv == AttachInv /\ Caught /\ ListInv /\ BelowFailed /\ ShadowInv

=============================================================================
