SPECIFICATION Spec
CONSTANTS
  Users = {u1, u2, u3}
  Closer = c
  NumSlots = 2
  Threads = {t1, t2, t3}
  Addr = {a1, a2, a3, a4}
  Bucket <- MCBucket
CHECK_DEADLOCK FALSE
INVARIANTS
  TypeOK
  TrackedExactly
PROPERTIES
  SemaphoreKept
