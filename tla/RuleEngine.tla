----------------------------- MODULE RuleEngine ------------------------------
(***************************************************************************)
(* The evaluation of an application's rules: pkg/engine/parser.go,         *)
(* executor.go and Evaluate of engine.go, on rules as GetActiveRules gives *)
(* them.                                                                   *)
(*                                                                         *)
(* The value of a condition is always a string.  The data of a request are *)
(* JSON values: a string, a number, a list of strings or another kind.     *)
(* Strings are members of a set with their order, a total one, and the     *)
(* relation "is part of".                                                  *)
(***************************************************************************)
EXTENDS FiniteSets, Integers, Sequences

CONSTANTS Strings,
          Before,      \* <<s, t>>: s comes before t
          Within,      \* <<s, t>>: s is part of t
          Fields,
          RuleSets,    \* the sets of rules an application may have
          Requests     \* the data that may be sent: of each field its kind and what it is

Ops == {"eq", "ne", "gt", "gte", "lt", "lte", "in", "not_in", "contains", "not_contains"}

Condition == [field : Fields, op : Ops, value : Strings]
Rule      == [priority : Int, enabled : BOOLEAN, conditions : SUBSET Condition]

\* Data of a request: is it a string, a number, a list, of another kind, absent?
String(s) == [kind |-> "string", is |-> s]

VARIABLES rules,    \* the rules, in the order they were loaded
          data,     \* of the request
          at,       \* the rule to be evaluated next
          result    \* "none" so far, "denied", or the index of the rule that allowed

vars == <<rules, data, at, result>>

-----------------------------------------------------------------------------
(* Conditions.                                                             *)

\* Numbers and other kinds are never compared with a string: they tie.
CompareValues(x, s) ==
  IF x.kind = "string" /\ <<x.is, s>> \in Before THEN -1
  ELSE IF x.kind = "string" /\ <<s, x.is>> \in Before THEN 1
  ELSE 0

\* Mutant: lte misses equality.
ComparesStrictly(op, x, s) ==
  \/ op = "gt"  /\ CompareValues(x, s) > 0
  \/ op = "gte" /\ CompareValues(x, s) >= 0
  \/ op \in {"lt", "lte"} /\ CompareValues(x, s) < 0

Compares(op, x, s) ==
  \/ op = "gt"  /\ CompareValues(x, s) > 0
  \/ op = "gte" /\ CompareValues(x, s) >= 0
  \/ op = "lt"  /\ CompareValues(x, s) < 0
  \/ op = "lte" /\ CompareValues(x, s) <= 0

Contains(x, s) == \/ x.kind = "string" /\ <<s, x.is>> \in Within
                  \/ x.kind = "list" /\ \E i \in 1..Len(x.is) : x.is[i] = s

\* A loop of its own: nothing in the list is the value.
NotContains(x, s) == \/ x.kind = "string" /\ <<s, x.is>> \notin Within
                     \/ x.kind = "list" /\ \A i \in 1..Len(x.is) : x.is[i] # s

Says(c, x) ==
  \/ c.op = "eq" /\ x = String(c.value)
  \/ c.op = "ne" /\ x # String(c.value)
  \/ Compares(c.op, x, c.value)
  \/ c.op = "contains" /\ Contains(x, c.value)
  \/ c.op = "not_contains" /\ NotContains(x, c.value)

\* What a condition says of the data; "error" when it says nothing.  A value
\* that is a string is no list, so in and not_in never say anything.
Holds(c, d) ==
  LET x == d[c.field] IN
    IF x.kind = "absent" \/ c.op \in {"in", "not_in"}
        \/ (c.op \in {"contains", "not_contains"} /\ x.kind \notin {"string", "list"})
      THEN "error"
      ELSE IF Says(c, x) THEN "true" ELSE "false"

\* The conditions are evaluated in the order the database gave them, until
\* one fails or does not hold.
EvaluateRule(conditions, d) ==
  LET verdicts == {Holds(c, d) : c \in conditions} IN
    IF conditions = {} THEN {"error"}
    ELSE IF verdicts = {"true"} THEN {"true"} ELSE verdicts \ {"true"}

-----------------------------------------------------------------------------
(* Evaluation, rule by rule.                                               *)

\* Mutant: the rules come in any order.
AnyOrder(R) ==
  LET active == {x \in R : x.enabled} IN
    {s \in [1..Cardinality(active) -> active] : {s[i] : i \in DOMAIN s} = active}

\* GetActiveRules: enabled rules, highest priority first, ties in any order
GetActiveRules(R) ==
  LET active == {x \in R : x.enabled} IN
    {s \in [1..Cardinality(active) -> active] :
       /\ {s[i] : i \in DOMAIN s} = active
       /\ \A i, j \in DOMAIN s : i < j => s[i].priority >= s[j].priority}

Init ==
  /\ \E R \in RuleSets : rules \in GetActiveRules(R)
  /\ data \in Requests
  /\ at = 1 /\ result = "none"

\* A rule that is disabled, fails or does not hold is passed over.
TryRule ==
  /\ result = "none" /\ at <= Len(rules)
  /\ \E verdict \in EvaluateRule(rules[at].conditions, data) :
       result' = IF verdict = "true" /\ rules[at].enabled THEN "allowed" ELSE "none"
  /\ at' = IF result' = "allowed" THEN at ELSE at + 1
  /\ UNCHANGED <<rules, data>>

\* No rule matched.
Deny ==
  /\ result = "none" /\ at > Len(rules)
  /\ result' = "denied"
  /\ UNCHANGED <<rules, data, at>>

Next == TryRule \/ Deny

Spec == Init /\ [][Next]_vars

-----------------------------------------------------------------------------
(* Properties.                                                             *)

\* What a rule means: it is enabled, has conditions, and each of them holds.
Satisfied(x) == x.enabled /\ x.conditions # {} /\ \A c \in x.conditions : Holds(c, data) = "true"

\* The answer does not depend on the order the database returned conditions
\* and rules of one priority in: it is the meaning of the rules, and the rule
\* reported is one of the highest priority among those that are satisfied.
AnswerIsMeaning ==
  /\ result = "denied" => \A i \in DOMAIN rules : ~Satisfied(rules[i])
  /\ result = "allowed" =>
       /\ Satisfied(rules[at])
       /\ \A i \in DOMAIN rules : Satisfied(rules[i]) => rules[i].priority <= rules[at].priority

Meets(f, op, s) == Holds([field |-> f, op |-> op, value |-> s], data) = "true"

\* A string is below, at or above the value of a condition, and all operators that
\* compare agree on which.  Data of another kind are on no side of it, a number not
\* even where it is written the same, so that gte and lte hold of them whatever
\* they are and gt and lt never; and of data that are absent no operator holds, not
\* even a negated one.
OneSideOfTheValue ==
  \A f \in Fields, s \in Strings :
    /\ data[f].kind = "string" =>
         \E side \in {"lt", "eq", "gt"} :
           /\ \A op \in {"lt", "eq", "gt"} : Meets(f, op, s) <=> op = side
           /\ Meets(f, "lte", s) <=> side \in {"lt", "eq"}
           /\ Meets(f, "gte", s) <=> side \in {"gt", "eq"}
           /\ Meets(f, "ne", s) <=> side # "eq"
    /\ data[f].kind \notin {"string", "absent"} =>
         \A op \in {"eq", "ne", "gt", "gte", "lt", "lte"} :
           Meets(f, op, s) <=> op \in {"ne", "gte", "lte"}
    /\ data[f].kind = "absent" => \A op \in Ops : ~Meets(f, op, s)
=============================================================================
