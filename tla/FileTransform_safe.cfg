SPECIFICATION Spec
CONSTANTS
  Workers = {w1, w2}
  Src = src
  Temps = {t1, t2}
  Files = {f1, f2, f3}
  NoFile = NoFile
  NoName = NoName
  N = 2
  MaxLayers = 2
  Faults <- SafeFaults
SYMMETRY Symmetry
INVARIANTS
  PayloadSafe
  HomeIsWhole
  IInv
  OwnTemp
PROPERTIES
  ReplacedByWhole
  KeepsDocument
