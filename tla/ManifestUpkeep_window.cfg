SPECIFICATION Spec
CONSTANTS
  gone = gone
  live = live
  idle = idle
  Catalog <- MCCatalog
  Legacy <- MCLegacy
  Absent = {gone}
  Worked = {gone, live}
  Raises = {live}
  Outranks = TRUE
  ChunkSize = 1
  MaxWrites = 1
  MaxFaults = 1
INVARIANTS TypeOK CaptureStands
PROPERTIES NoRowLost  SeededOnEnd
