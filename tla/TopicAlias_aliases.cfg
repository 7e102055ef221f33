SPECIFICATION Spec
CONSTANTS
  Topic = {t1, t2, t3}
  Empty = Empty  NoTopic = NoTopic
  Capacity = 2
  Maxima = {0, 1, 3}
  MaxAlias = 3
  NumSlots = 2
  Window = 1
  MaxConnects = 2
  MaxPublishes = 3
  MaxQueue = 2
INVARIANTS TypeOK TablesAgree OneAliasPerTopic AliasesAllowed
PROPERTIES CarriesTopics
CHECK_DEADLOCK FALSE
