SPECIFICATION Spec
CONSTANTS
  IntMax = 7
  CountMax = 15
  MaxSqlLength = 40
  MaxTokens = 20
  MaxOperands = 3
  Backends <- Registry
  Texts <- AllTexts
  Fronts = {"query"}
  Hints = {"", "mock"}
  Schema <- WeatherSchema
  Ints = {0, 1, 2, 3}
  Strings = {"a", "b"}
  Hash <- HashApart
  KeyMax = 5
  ParamValue = 2
CHECK_DEADLOCK FALSE
INVARIANTS
  PlanMeansWhere
  TemplateParsesBack
  SupportedPlanned
