CONSTANTS
  Room = {r1, r2}
  Text = {m1, m2, m3}
  Receipt = {q}
  None = None
SPECIFICATION Spec
SYMMETRY Symmetry
INVARIANTS TypeOK ShownInOrder UnseenIsAnnounced
