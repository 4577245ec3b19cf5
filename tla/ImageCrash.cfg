\* A crash between the pages of a write.
SPECIFICATION Spec
CONSTANTS
  None = None
  Backends = {b1, b2}
  Scanners = {b1}
  Writers = {b1, b2}
  Relations = {r1}
  Permanent = {r1}
  MaxPages = 2
  BatchPages = 2
  MaxWrites = 1
  Ceilings = {0, 1, 2}
  MidWrite = {"checkpoint", "crash"}
INVARIANTS ImageIsReadable
