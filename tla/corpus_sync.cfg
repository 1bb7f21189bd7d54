SPECIFICATION Spec
CONSTANTS
  Workers = {w1, w2}
  Spaces = {real, demo}
  Protected = {real}
  Demo = demo
  Files = {f1}
  Tools = {t1}
  MaxVersion = 2
  Size <- Sizes
  Poisoned <- Attack
  MaxFaults = 1
SYMMETRY WorkerSymmetry
INVARIANTS
  WholeDocuments
  RealCorpusIsPure
  QuarantineHolds
CHECK_DEADLOCK FALSE
