\* Two backends, one index: pages, lock, log, crashes between writes.
SPECIFICATION Spec
CONSTANTS
  None = None
  Backends = {b1, b2}
  Scanners = {b1}
  Writers = {b1, b2}
  Relations = {r1}
  Permanent = {r1}
  MaxPages = 2
  BatchPages = 2
  MaxWrites = 2
  Ceilings = {0, 1, 2}
  MidWrite = {"checkpoint"}
INVARIANTS
  TypeOK NoTornRead TagsAreHonest LoggedImageIsWhole ImageIsReadable
PROPERTIES ActsAtomically
