CONSTANTS
  Query <- MCQuery
  Id = {"i", "j"}
  Name = {"n"}
  Type = {"A", "MX"}
  A = "A"
  IdOf <- MCIdOf
  NameOf <- MCNameOf
  TypeOf <- MCTypeOf
  None = None
SPECIFICATION Spec
INVARIANTS
  AnswersOwnQuery
  OneAnswer
  CachedAddresses
PROPERTIES
  Answered
\* The clients send no more than the queries of Query.
CHECK_DEADLOCK FALSE
