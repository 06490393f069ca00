\* Chunks of 1 to 3 bytes into a buffer of 3, up to 7 bytes in all.
CONSTANTS
  Cap = 3
  MaxChunk = 3
  MaxBytes = 7
  Fds = {0, 3}
SPECIFICATION CacheSpec
INVARIANTS
  GivenAll
  MappingCurrent
  InOrder
