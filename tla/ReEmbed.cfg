SPECIFICATION Spec
CONSTANTS
  Mems = {1, 2}
  Ents = {1}
  Texts <- MCTexts
  Empty = ""
  Dims = {8, 16}
  Workers = {w1, w2}
  PageSize = 1
  BatchSize = 2
  MaxAttempts = 2
  MaxChunk = 3
  MaxWrites = 1
  MaxFailures = 1
INVARIANTS ReEmbedSound
PROPERTIES DoneIsEmbedded Backfilled
