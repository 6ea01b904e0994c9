SPECIFICATION Spec
CONSTANTS
  Namespaces = {"a", "b"}
  Home = "a"
  Entities = {1, 2}
  InitEntities <- MCInitEntities
  MaxRel = 3
  Workers = {w1, w2}
  Vocabularies <- MCVocabularies
  Similar <- MCSimilar
  First <- MCFirst
  HubTop = 1
  IslandCap = 1
  MaxCalls = 2
  MaxCommands = 1
INVARIANTS OpsSound
PROPERTIES VocabularyKept ConnectConverges
CHECK_DEADLOCK FALSE
