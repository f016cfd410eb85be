SPECIFICATION Spec
CONSTANTS
  Mounters = {m1, m2}
  Notifier = n
  Volumes = {v1, s}
  Shadow = {s}
  Devices = {d1, d2, d3}
  NoDevice = NoDevice
  NoVolume = NoVolume
  NoThread = NoThread
  Retries = 2
  Faults <- FaultKinds
INVARIANTS
  AtMostOne
  EveryDeviceOwned
  AttachInv
  Filtered
  ShadowsUntouched
PROPERTIES
  MountsReturn
