\* Two requests on two roles and two permissions, one of them made by a request;
\* or on two rules, four changes in all; or the evaluation of two rules of up to
\* two conditions on two fields.
SPECIFICATION AllSpec
CONSTANTS
  Requests = {r1, r2}
  Names = {m1, m2}
  Coded = {c1}
  Blank = {b1}
  RoleIds = {a1, a2}
  NoRole = a0
  MaxRecords = 2
  Rules = {x1, x2}
  Conditions = {k1}
  None = None
  MaxWrites = 4
  DataFields = {f1, f2}
  Strings <- StringSet
  Before <- Order
  Within <- PartOf
  RuleSets <- RuleSetSet
  Inputs <- RequestSet
INVARIANTS TypesOK GoneRoleIsBare AnswerIsOfAMoment CurrentUnlessRaced AnswerIsMeaning OneSideOfTheValue
SYMMETRY Symmetry
\* The bounds stop the behaviours that use them up.
CHECK_DEADLOCK FALSE
