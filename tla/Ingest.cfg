SPECIFICATION Spec
CONSTANTS
  Names <- MCNames
  Bodies = {"x", "y"}
  NoName = "no name"
  Suffixed <- MCSuffixed
  PartName <- MCPartName
  Inputs <- MCInputs
  Stored <- MCStored
  Threads = {t1, t2}
  Capacity = 1
  MaxOthers = 1
\* A run of ingest ends.
INVARIANTS IngestSound
PROPERTIES IngestEnds
CHECK_DEADLOCK FALSE
