SPECIFICATION Spec
CONSTANTS
  r1 = r1
  r2 = r2
  Readers = {r1, r2}
  LastKey = 1
  MaxVersion = 3
  Unreadable = {2}
SYMMETRY ReaderSymmetry
INVARIANTS NeverForgets IndexNotOlderThanJob StartsAfterCleanWrite QuietPolls
