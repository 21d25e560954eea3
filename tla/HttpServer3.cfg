CONSTANTS
  s1 = s1
  s2 = s2
  s3 = s3
  s4 = s4
  o1 = o1
  o2 = o2
  o3 = o3
  Sockets = {s1, s2, s3, s4}
  Objects = {o1, o2, o3}
  NoObjects = NoObjects
SYMMETRY MCSymmetry
SPECIFICATION Spec
INVARIANTS
  ForksApart
PROPERTIES
  ImplementsLifecycle
