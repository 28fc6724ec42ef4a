SPECIFICATION Spec
CONSTANTS
  Threads = {t1, t2}
  Typed <- SomeKeys
  Host = "LITTLE"
SYMMETRY Symmetry
INVARIANTS
  TypeOK
  TypedAsMeant
  NothingStuck
  EverythingReported
  ArgumentsArrive
