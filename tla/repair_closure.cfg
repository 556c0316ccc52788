SPECIFICATION CognitiveSpec
CONSTANTS
  a = a
  b = b
  c = c
  Items <- MCItems
  Views = {v}
  Actions = {x}
  Notes = {n}
  DependencyChoices <- MCDependencyChoices
  ViewChoices <- MCViewChoices
  Requests = {"PROPOSED", "PREPARED"}
  RelationChoices <- MCRelationChoices
  Origins <- MCOrigins
  MaxEvents = 2
  MaxDuring = 1
  NoView = NoView
  NoRepair = NoRepair
PROPERTIES
  OutputsRepairedWhole
CHECK_DEADLOCK FALSE
