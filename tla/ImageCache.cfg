\* Two indexes in one backend's cache, and another backend that writes: the ceiling,
\* evictions, and every call returning.
SPECIFICATION Spec
CONSTANTS
  None = None
  Backends = {b1, b2}
  Scanners = {b1}
  Writers = {b1, b2}
  Relations = {r1, r2}
  Permanent = {}
  MaxPages = 2
  BatchPages = 2
  MaxWrites = 1
  Ceilings = {0, 1, 2, 3}
  MidWrite = {}
INVARIANTS
  CacheWithinCeiling
PROPERTIES CallsReturn
