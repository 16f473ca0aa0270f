--------------------------- MODULE MCAccessControl ---------------------------
(***************************************************************************)
(* Roles, the cache of rules and the evaluation of rules: a behaviour is   *)
(* one of AccessControl, of RuleCache or of RuleEngine, which share no     *)
(* state, and focus says of which.                                         *)
(***************************************************************************)
EXTENDS AccessControl, Integers, Sequences, TLC

CONSTANTS Rules, Conditions, None, MaxWrites,
          Strings, Before, Within, DataFields, RuleSets, Inputs

ASSUME RulesAssumption == None \notin Rules /\ MaxWrites \in Nat

\* The order of strings is a strict and total one.
ASSUME EngineAssumption ==
  /\ \A R \in RuleSets : IsFiniteSet(R) /\ \A x \in R : x.priority \in Int
  /\ \A s, t \in Strings : /\ <<s, t>> \in Before => <<t, s>> \notin Before
                           /\ s # t => <<s, t>> \in Before \/ <<t, s>> \in Before
  /\ \A d \in Inputs, f \in DataFields :
       d[f].kind = "string" => d[f] \in [kind : {"string"}, is : Strings]

VARIABLES
  focus,
  enabled, conditions, cache, cachePc, job, seen, loading, writes, fresh, overtaken, doubtful,
  rules, data, at, result

C == INSTANCE RuleCache WITH RedisFails <- TRUE, pc <- cachePc

E == INSTANCE RuleEngine WITH Fields <- DataFields, Requests <- Inputs

cacheVars == <<enabled, conditions, cache, cachePc, job, seen, loading, writes, fresh,
               overtaken, doubtful>>
engineVars == <<rules, data, at, result>>

\* The engine at rest, where a behaviour is not one of its own.
EngineIdle == rules = << >> /\ data = None /\ at = 1 /\ result = "none"

AllInit ==
  /\ focus \in {"roles", "cache", "engine"}
  /\ Init /\ C!Init
  /\ IF focus = "engine" THEN E!Init ELSE EngineIdle

RolesStep  == focus = "roles" /\ Next /\ UNCHANGED <<focus, cacheVars, engineVars>>
CacheStep  == focus = "cache" /\ C!Next /\ UNCHANGED <<focus, vars, engineVars>>
EngineStep == focus = "engine" /\ E!Next /\ UNCHANGED <<focus, vars, cacheVars>>

AllSpec == AllInit /\ [][RolesStep \/ CacheStep \/ EngineStep]_<<focus, vars, cacheVars, engineVars>>

-----------------------------------------------------------------------------
(* Values of the engine's constants.                                       *)

\* "1" and "12", numbers one of which is part of the other, and the list "[1]".
StringSet == {"1", "12", "[1]"}
Order     == {<<"1", "12">>, <<"1", "[1]">>, <<"12", "[1]">>}
PartOf    == {<<s, s>> : s \in StringSet} \cup {<<"1", "12">>, <<"1", "[1]">>}

Value(kind, is) == [kind |-> kind, is |-> is]
Values == {Value("string", s) : s \in StringSet} \cup {Value("number", n) : n \in {1, 5}}
            \cup {Value("list", << >>), Value("list", <<"1", "12">>), Value("other", 0), Value("absent", 0)}

RequestSet == [DataFields -> Values]

\* Conditions on either field, and rules of two priorities with up to two of them.
Some == {[field |-> f, op |-> op, value |-> "12"] : f \in DataFields, op \in {"eq", "lte", "contains", "in"}}

Rules1 == {[priority |-> p, enabled |-> e, conditions |-> K] :
             p \in {0, 1}, e \in BOOLEAN,
             K \in {{}} \cup {{c, d} : c \in Some, d \in Some}}

\* One rule of any kind beside a rule on the first field only.
RuleSetSet == {{x, [priority |-> 0, enabled |-> TRUE, conditions |-> {c}]} :
                 x \in Rules1, c \in {y \in Some : y.op \in {"eq", "contains"}}}

Symmetry == UNION {Permutations(S) : S \in {Requests, Names, RoleIds, Rules}}

-----------------------------------------------------------------------------
\* Both type invariants.
TypesOK == TypeOK /\ C!TypeOK

\* The cache holds the enabled rules and all their conditions as they are,
\* except between a write and its invalidation, and except when a write
\* overtook the load that filled it or Redis failed to invalidate it.
CurrentUnlessRaced == C!CurrentUnlessRaced

\* The answer of the engine is the meaning of the rules, in whichever order the
\* database returned rules of one priority and conditions.
AnswerIsMeaning == focus = "engine" => E!AnswerIsMeaning

\* A string is on one side of the value of a condition, whichever operator asks, and
\* data of another kind on none.
OneSideOfTheValue == focus = "engine" => E!OneSideOfTheValue
=============================================================================
