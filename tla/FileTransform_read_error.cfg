SPECIFICATION Spec
CONSTANTS
  Workers = {w1}
  Src = src
  Temps = {t1}
  Files = {f1, f2}
  NoFile = NoFile
  NoName = NoName
  N = 2
  MaxLayers = 1
  Faults = {"read"}
SYMMETRY Symmetry
INVARIANTS
  PayloadSafe
