\* Two writes; three migrations, two of which the Go server has applied.
CONSTANTS
  Write = {w1, w2}
  NoFile = noFile
  Last = 3
  Adopted = 2
  Repeatable = {2}
SPECIFICATION Spec
INVARIANTS TypeOK WritesKept BackupIsSnapshot NoneTwice
SYMMETRY WriteSymmetry
