CONSTANTS
  Keyboards = {k}
  Pointers = {p}
  Touchpads = {t}
  MaxDevices = 2
  Capacity = 1
  ReadSlots = {1}
  NumContacts = 2
  ContactIds = {1, 2}
  Positions = {0, 1}
  Usages = {"leftmeta", "globe", "unmapped", "1"}
SPECIFICATION FairSpec
INVARIANT TypeOK
INVARIANT ReaderAgrees
PROPERTY Delivered
\* The thread may wait for a pipe nobody reads.
CHECK_DEADLOCK FALSE
