------------------------------ MODULE RuleCache ------------------------------
(***************************************************************************)
(* The rules of one application between PostgreSQL and their cache in      *)
(* Redis: internal/service/rule.go, repository/rule.go, api/v1/rule.go,    *)
(* and LoadRules, Evaluate and the cache of pkg/engine.                    *)
(*                                                                         *)
(* An action is one SQL statement or transaction, or one Redis command.    *)
(* What a rule says is the set of its conditions; how it is evaluated is   *)
(* the subject of RuleEngine.  Rules go by their ids, which are never used *)
(* again; the name one asks for may always be that of another rule.        *)
(***************************************************************************)
EXTENDS FiniteSets, Naturals

CONSTANTS Rules, Conditions, Requests, None,
          RedisFails,     \* whether Redis commands fail
          MaxWrites       \* bound on the writes begun

VARIABLES
  enabled,      \* table rules: is_enabled, None for no row
  conditions,   \* table rule_conditions, by rule; rows may outlive their rule
  cache,        \* the cached rules and their conditions, or None
  pc, job,      \* where a request stands and what it is to do
  seen,         \* the row an update read
  loading,      \* rules a load has read, and the conditions it has read so far
  writes,       \* writes begun
  fresh,        \* ids not given to a rule yet
  overtaken,    \* history: loads during which a rule was written
  doubtful      \* history: the cache was set by such a load, or outlived a write
                \* because Redis failed

table   == <<enabled, conditions>>
request == <<pc, job, seen, loading>>
history == <<overtaken, doubtful>>
vars    == <<table, cache, request, writes, fresh, history>>

Job == [op : {"none", "evaluate", "create", "update", "delete", "add", "replace", "clear"},
        rule : Rules \cup {None}, enabled : BOOLEAN, conditions : SUBSET Conditions]
NoJob  == [op |-> "none", rule |-> None, enabled |-> FALSE, conditions |-> {}]
NoLoad == [rules |-> {}, read |-> << >>]

\* A request that saves a rule has read one, and a load reads the conditions
\* of the rules it has listed.
TypeOK ==
  /\ enabled \in [Rules -> BOOLEAN \cup {None}]
  /\ conditions \in [Rules -> SUBSET Conditions]
  /\ \A r \in Requests :
       /\ pc[r] \in {"idle", "get", "list", "conditions", "set", "again",
                     "getRule", "lookup", "write", "invalidate"}
       /\ job[r] \in Job
       /\ job[r].op = "update" /\ pc[r] \in {"lookup", "write"} => seen[r] \in BOOLEAN
       /\ DOMAIN loading[r].read \subseteq loading[r].rules
  /\ overtaken \subseteq Requests /\ doubtful \in BOOLEAN
  /\ \A x \in fresh : enabled[x] = None /\ conditions[x] = {}

Init ==
  /\ enabled = [x \in Rules |-> None]
  /\ conditions = [x \in Rules |-> {}]
  /\ cache = None
  /\ pc = [r \in Requests |-> "idle"] /\ job = [r \in Requests |-> NoJob]
  /\ seen = [r \in Requests |-> None] /\ loading = [r \in Requests |-> NoLoad]
  /\ writes = 0 /\ fresh = Rules
  /\ overtaken = {} /\ doubtful = FALSE

-----------------------------------------------------------------------------
Goto(r, label) == pc' = [pc EXCEPT ![r] = label]

Finish(r) ==
  /\ Goto(r, "idle")
  /\ job' = [job EXCEPT ![r] = NoJob]
  /\ seen' = [seen EXCEPT ![r] = None]
  /\ loading' = [loading EXCEPT ![r] = NoLoad]

Begin(r, what, label) ==
  /\ pc[r] = "idle"
  /\ Goto(r, label)
  /\ job' = [job EXCEPT ![r] = what]
  /\ UNCHANGED <<table, cache, seen, loading, history>>

Loading == {r \in Requests : pc[r] \in {"conditions", "set"}}

-----------------------------------------------------------------------------
(* Evaluate.                                                               *)

BeginEvaluate(r) ==
  /\ Begin(r, [NoJob EXCEPT !.op = "evaluate"], "get")
  /\ UNCHANGED <<writes, fresh>>

\* A hit is evaluated as it is; an error is taken for a miss.
Get(r) ==
  /\ pc[r] = "get"
  /\ \/ cache # None /\ Finish(r)
     \/ (cache = None \/ RedisFails) /\ Goto(r, "list") /\ UNCHANGED <<job, seen, loading>>
  /\ UNCHANGED <<table, cache, writes, fresh, history>>

Active == {x \in Rules : enabled[x] = TRUE}

GetActiveRules(r) ==
  /\ pc[r] = "list"
  /\ loading' = [loading EXCEPT ![r] = [rules |-> Active, read |-> << >>]]
  /\ overtaken' = overtaken \ {r}
  /\ Goto(r, "conditions")
  /\ UNCHANGED <<table, cache, job, seen, writes, fresh, doubtful>>

With(f, x, y) == [z \in DOMAIN f \cup {x} |-> IF z = x THEN y ELSE f[z]]

\* One statement for each of the rules.
GetConditions(r) ==
  /\ pc[r] = "conditions"
  /\ LET l == loading[r] IN
       \/ /\ l.rules = DOMAIN l.read
          /\ Goto(r, "set")
          /\ UNCHANGED loading
       \/ \E x \in l.rules \ DOMAIN l.read :
            /\ loading' = [loading EXCEPT ![r].read = With(@, x, conditions[x])]
            /\ UNCHANGED pc
  /\ UNCHANGED <<table, cache, job, seen, writes, fresh, history>>

Set(r) ==
  /\ pc[r] = "set"
  /\ cache' = loading[r].read
  /\ doubtful' = (r \in overtaken)
  /\ Goto(r, "again")
  /\ UNCHANGED <<table, job, seen, loading, writes, fresh, overtaken>>

SetFails(r) ==
  /\ RedisFails /\ pc[r] = "set"
  /\ Finish(r)
  /\ UNCHANGED <<table, cache, writes, fresh, history>>

\* The rules are read back; a miss now fails the request.
GetAgain(r) ==
  /\ pc[r] = "again"
  /\ Finish(r)
  /\ UNCHANGED <<table, cache, writes, fresh, history>>

\* 24 hours have passed.
Expire ==
  /\ cache # None
  /\ cache' = None /\ doubtful' = FALSE
  /\ UNCHANGED <<table, request, writes, fresh, overtaken>>

-----------------------------------------------------------------------------
(* Changes.                                                                *)

BeginWrite(r, what) ==
  /\ writes < MaxWrites /\ writes' = writes + 1
  /\ what.op = "create" <=> what.rule \in fresh
  /\ fresh' = fresh \ {what.rule}
  /\ Begin(r, what, IF what.op = "update" THEN "getRule" ELSE "lookup")

\* The handler of PUT reads the row it will write back.
GetRule(r) ==
  /\ pc[r] = "getRule"
  /\ LET x == enabled[job[r].rule] IN
       \/ /\ x # None
          /\ seen' = [seen EXCEPT ![r] = x]
          /\ Goto(r, "lookup")
          /\ UNCHANGED <<job, loading>>
       \/ x = None /\ Finish(r)
  /\ UNCHANGED <<table, cache, writes, fresh, history>>

\* The name a rule is to have may be that of another.
NameTaken(r) == /\ job[r].op \in {"create", "update"}
                /\ \E x \in Rules \ {job[r].rule} : enabled[x] # None

\* The service checks that the rule exists, unless it is new, and the name.
Lookup(r) ==
  /\ pc[r] = "lookup"
  /\ LET found == job[r].op = "create" \/ enabled[job[r].rule] # None IN
       \/ found /\ Goto(r, "write") /\ UNCHANGED <<job, seen, loading>>
       \/ (~found \/ NameTaken(r)) /\ Finish(r)
  /\ UNCHANGED <<table, cache, writes, fresh, history>>

\* The rule is written, and loads under way are overtaken.
Written(r) ==
  /\ pc[r] = "write"
  /\ overtaken' = overtaken \cup Loading
  /\ Goto(r, "invalidate")
  /\ UNCHANGED <<cache, job, seen, loading, writes, fresh, doubtful>>

\* A new rule is enabled: FALSE gives way to the column's default.
Create(r) ==
  /\ job[r].op = "create"
  /\ Written(r)
  /\ enabled' = [enabled EXCEPT ![job[r].rule] = TRUE]
  /\ UNCHANGED conditions

\* Another request took the name meanwhile: the unique index refuses the row.
SaveFails(r) ==
  /\ pc[r] = "write" /\ NameTaken(r)
  /\ Finish(r)
  /\ UNCHANGED <<table, cache, writes, fresh, history>>

\* Save, which inserts the row when it is gone, as Create does.
Update(r) ==
  /\ job[r].op = "update"
  /\ Written(r)
  /\ LET x == job[r].rule IN
       enabled' = [enabled EXCEPT ![x] = job[r].enabled \/ enabled[x] = None]
  /\ UNCHANGED conditions

Delete(r) ==
  /\ job[r].op = "delete"
  /\ Written(r)
  /\ enabled' = [enabled EXCEPT ![job[r].rule] = None]
  /\ conditions' = [conditions EXCEPT ![job[r].rule] = {}]

AddConditions(r) ==
  /\ job[r].op = "add"
  /\ Written(r)
  /\ conditions' = [conditions EXCEPT ![job[r].rule] = @ \cup job[r].conditions]
  /\ UNCHANGED enabled

UpdateConditions(r) ==
  /\ job[r].op = "replace"
  /\ Written(r)
  /\ conditions' = [conditions EXCEPT ![job[r].rule] = job[r].conditions]
  /\ UNCHANGED enabled

\* Mutant: the cache is not invalidated.
RemoveConditionsOnly(r) ==
  /\ job[r].op = "clear" /\ pc[r] = "write"
  /\ conditions' = [conditions EXCEPT ![job[r].rule] = {}]
  /\ overtaken' = overtaken \cup Loading
  /\ Finish(r)
  /\ UNCHANGED <<enabled, cache, writes, fresh, doubtful>>

RemoveConditions(r) ==
  /\ job[r].op = "clear"
  /\ Written(r)
  /\ conditions' = [conditions EXCEPT ![job[r].rule] = {}]
  /\ UNCHANGED enabled

InvalidateCache(r) ==
  /\ pc[r] = "invalidate"
  /\ Finish(r)
  /\ cache' = None /\ doubtful' = FALSE
  /\ UNCHANGED <<table, writes, fresh, overtaken>>

\* The request fails although the rule is written.
InvalidateFails(r) ==
  /\ RedisFails /\ pc[r] = "invalidate"
  /\ Finish(r)
  /\ doubtful' = (cache # None)
  /\ UNCHANGED <<table, cache, writes, fresh, overtaken>>

Evaluate(r) ==
  \/ BeginEvaluate(r) \/ Get(r) \/ GetActiveRules(r) \/ GetConditions(r)
  \/ Set(r) \/ SetFails(r) \/ GetAgain(r)

Write(r) ==
  \/ \E x \in Rules :
       \/ \E op \in {"create", "update"}, e \in BOOLEAN :
            BeginWrite(r, [NoJob EXCEPT !.op = op, !.rule = x, !.enabled = e])
       \/ \E op \in {"delete", "clear"} : BeginWrite(r, [NoJob EXCEPT !.op = op, !.rule = x])
       \/ \E op \in {"add", "replace"}, C \in SUBSET Conditions \ {{}} :
            BeginWrite(r, [NoJob EXCEPT !.op = op, !.rule = x, !.conditions = C])
  \/ GetRule(r) \/ Lookup(r) \/ Create(r) \/ SaveFails(r) \/ Update(r) \/ Delete(r)
  \/ AddConditions(r) \/ UpdateConditions(r) \/ RemoveConditions(r)
  \/ InvalidateCache(r) \/ InvalidateFails(r)

Next == Expire \/ \E r \in Requests : Evaluate(r) \/ Write(r)

Spec == Init /\ [][Next]_vars

-----------------------------------------------------------------------------
(* Properties.                                                             *)

Current == [x \in Active |-> conditions[x]]

Invalidating == \E r \in Requests : pc[r] = "invalidate"

\* The cache holds the enabled rules and all their conditions as they are,
\* except between a write and its invalidation, and except when a write
\* overtook the load that filled it or Redis failed to invalidate it.
CurrentUnlessRaced ==
  cache # None /\ ~doubtful /\ ~Invalidating => cache = Current
=============================================================================
