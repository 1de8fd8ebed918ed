SPECIFICATION Spec
CONSTANTS
  r1 = r1
  Readers = {r1}
  LastKey = 2
  MaxVersion = 1
  Unreadable = {}
INVARIANT RepliesComplete
