----------------------------- MODULE PluginManager -----------------------------
(***************************************************************************)
(* One plugin of one application, as the manager of internal/plugin keeps  *)
(* it: manager.go, the instances of types/base.go and types/state.go, the  *)
(* table plugin_configs, and the handlers of api/v1/plugin.go.  The plugin *)
(* is email_verify, built on the base with its states; the TOTP plugin has *)
(* none, and nothing of it ever fails.                                     *)
(*                                                                         *)
(* An application has a map of instances, made when it is first needed.    *)
(* An action is one access to what requests share - the maps, the row, the *)
(* state of an instance in a map - and the local code after it.  A new     *)
(* instance is loaded and started before anyone else sees it.              *)
(***************************************************************************)
EXTENDS FiniteSets, Naturals

CONSTANTS Requests,      \* request goroutines
          Good,          \* configurations that load
          Bad,           \* configurations that do not: a validator or OnLoad refuses
          MaxInstances,  \* bound on the instances made since the process started
          MaxMaps        \* bound on the maps made for the application

ASSUME PluginAssumption ==
  /\ Good \cap Bad = {}
  /\ MaxInstances \in Nat /\ MaxMaps \in Nat

VARIABLES
  row,            \* the configuration in plugin_configs, if there is a row
  maps, home,     \* the maps made, and the application's
  slot,           \* map -> the instance it holds, 0 for none
  born, inst,     \* the instances made, and what each is
  pc, loc,        \* where a request stands, and its locals
  broken,         \* history: instances a request failed on after it stopped them
  raced           \* history: a change overlapped another request

shared == <<row, maps, home, slot, born, inst>>
vars   == <<shared, pc, loc, broken, raced>>

Configs   == Good \cup Bad
Instances == 1..MaxInstances
Maps      == 1..MaxMaps
States    == {"Uninitialized", "Initialized", "Running", "Stopped", "Error"}

Instance   == [state : States, config : SUBSET Configs]
NoInstance == [state |-> "Uninitialized", config |-> {}]

Ops == {"none", "use", "install", "uninstall", "update"}

\* config: what is to be loaded, of the request or of the row; lazy: it is for
\* GetPlugin; want: the configuration an update saves after it; got, map: the
\* instance at work on, and the map it goes to.
Local == [op : Ops, config : SUBSET Configs, want : SUBSET Configs, lazy : BOOLEAN,
          map : 0..MaxMaps, got : 0..MaxInstances]
NoLocal == [op |-> "none", config |-> {}, want |-> {}, lazy |-> FALSE, map |-> 0, got |-> 0]

Stopping == {"stopped", "unloadOld", "drop", "unload", "deleteRow", "dropSlot"}
Labels   == Stopping \cup {"idle", "lookup", "readRow", "findMap", "makeMap", "saveNew",
                           "store", "stop", "save"}

TypeOK ==
  /\ row \subseteq Configs /\ Cardinality(row) <= 1
  /\ maps \in 0..MaxMaps /\ home \in 0..maps
  /\ slot \in [Maps -> 0..born]
  /\ born \in 0..MaxInstances /\ inst \in [Instances -> Instance]
  /\ \A i \in Instances : i > born => inst[i] = NoInstance
  /\ pc \in [Requests -> Labels] /\ loc \in [Requests -> Local]
  /\ broken \subseteq Instances /\ raced \in BOOLEAN

NoMemory ==
  /\ maps = 0 /\ home = 0 /\ slot = [m \in Maps |-> 0]
  /\ born = 0 /\ inst = [i \in Instances |-> NoInstance]
  /\ pc = [r \in Requests |-> "idle"] /\ loc = [r \in Requests |-> NoLocal]
  /\ broken = {} /\ raced = FALSE

\* InitPlugins asks for the rows of the application "", of which there is none.
Init == row = {} /\ NoMemory

-----------------------------------------------------------------------------
(* Requests.                                                               *)

Live == IF home = 0 THEN 0 ELSE slot[home]

Goto(r, label) == pc' = [pc EXCEPT ![r] = label]
Keep(r, mine)  == loc' = [loc EXCEPT ![r] = mine]
Step(r, label) == Goto(r, label) /\ UNCHANGED loc
Finish(r)      == Goto(r, "idle") /\ Keep(r, NoLocal)
Same           == UNCHANGED <<broken, raced>>

\* r changes a map or the row while another is past what it looked up.
Changing(r) ==
  /\ raced' = (raced \/ \E q \in Requests \ {r} : pc[q] \notin {"idle", "lookup", "stop"})
  /\ UNCHANGED broken

\* An access to the database or a hook fails.
Fail(r) ==
  /\ pc[r] # "idle"
  /\ Finish(r)
  /\ broken' = IF pc[r] \in Stopping \ {"stopped"} THEN broken \cup ({loc[r].got} \ {0}) ELSE broken
  /\ UNCHANGED <<shared, raced>>

\* The process stops, and starts with nothing but the row.
Restart ==
  /\ row' = row /\ maps' = 0 /\ home' = 0
  /\ slot' = [m \in Maps |-> 0] /\ born' = 0
  /\ inst' = [i \in Instances |-> NoInstance]
  /\ pc' = [r \in Requests |-> "idle"] /\ loc' = [r \in Requests |-> NoLocal]
  /\ broken' = {} /\ raced' = FALSE

\* InstallPlugin creates at once; the handler of an update wants a row; an
\* execution, a list and a plugin's own routes get the plugin.
Begin(r, op, c) ==
  /\ pc[r] = "idle"
  /\ op = "update" => row # {}
  /\ op \in {"install", "update"} <=> c # {}
  /\ IF op = "install"
       THEN Goto(r, "findMap") /\ Keep(r, [NoLocal EXCEPT !.op = op, !.config = c])
       ELSE Goto(r, "lookup") /\ Keep(r, [NoLocal EXCEPT !.op = op, !.want = c])
  /\ UNCHANGED shared /\ Same

-----------------------------------------------------------------------------
(* GetPlugin: the instance in memory, or a new one of the row.             *)

\* Execute asks the state of what it got, and changes nothing here.
Found(r, i) ==
  IF loc[r].op = "use" THEN Finish(r)
  ELSE Goto(r, "stop") /\ Keep(r, [loc[r] EXCEPT !.got = i, !.config = {}, !.lazy = FALSE])

NotFound(r) ==
  \/ loc[r].op = "use" /\ Finish(r)
  \/ loc[r].op = "uninstall" /\ Step(r, "unload")
  \/ loc[r].op = "update" /\ Step(r, "save")

Lookup(r) ==
  /\ pc[r] = "lookup"
  /\ IF Live = 0 THEN Step(r, "readRow") ELSE Found(r, Live)
  /\ UNCHANGED shared /\ Same

\* createPlugin may fail all the same, when another request, for whichever
\* application, has unregistered the services of that plugin name before
\* Configure resolves them.
Creatable == row # {} /\ row \subseteq Good

ReadRow(r) ==
  /\ pc[r] = "readRow"
  /\ \/ NotFound(r)
     \/ /\ Creatable
        /\ Goto(r, "findMap") /\ Keep(r, [loc[r] EXCEPT !.config = row, !.lazy = TRUE])
  /\ UNCHANGED shared /\ Same

-----------------------------------------------------------------------------
(* LoadPlugin, and the way of GetPlugin's instance into the map.           *)

Started(c) == [state |-> "Running", config |-> c]

\* Load and Start of an instance nobody else has.
New(c) ==
  /\ born < MaxInstances /\ born' = born + 1
  /\ inst' = [inst EXCEPT ![born + 1] = Started(c)]

\* GetPlugin stores; LoadPlugin wants nothing there, and a row before it stores.
Enter(r, m) ==
  IF loc[r].lazy THEN
    New(loc[r].config) /\ slot' = [slot EXCEPT ![m] = born + 1] /\ Found(r, born + 1)
  ELSE IF slot[m] # 0 \/ loc[r].config \subseteq Bad THEN
    Finish(r) /\ UNCHANGED <<slot, born, inst>>
  ELSE
    /\ New(loc[r].config) /\ UNCHANGED slot
    /\ Goto(r, "saveNew") /\ Keep(r, [loc[r] EXCEPT !.map = m, !.got = born + 1])

FindMap(r) ==
  /\ pc[r] = "findMap"
  /\ IF home # 0 THEN Enter(r, home) ELSE Step(r, "makeMap") /\ UNCHANGED <<slot, born, inst>>
  /\ UNCHANGED <<row, maps, home>> /\ Changing(r)

\* Stored over a map that was made meanwhile.
MakeMap(r) ==
  /\ pc[r] = "makeMap" /\ maps < MaxMaps
  /\ maps' = maps + 1 /\ home' = maps + 1
  /\ Enter(r, maps + 1)
  /\ UNCHANGED row /\ Changing(r)

\* Mutant: a plain INSERT.
SaveConfigPlain(r, c, label) ==
  /\ row' = row \cup c
  /\ Goto(r, label) /\ Keep(r, [loc[r] EXCEPT !.config = c, !.want = {}])

\* Mutant: ON CONFLICT DO NOTHING.
SaveConfigOnce(r, c, label) ==
  /\ row' = IF row = {} THEN c ELSE row
  /\ Goto(r, label) /\ Keep(r, [loc[r] EXCEPT !.config = c, !.want = {}])

\* INSERT ... ON CONFLICT (app_id, name) DO UPDATE.  A database without a unique
\* index on these columns, which model/plugin.go does not declare, refuses it:
\* every save is a Fail then.
SaveConfig(r, c, label) ==
  /\ row' = c
  /\ Goto(r, label) /\ Keep(r, [loc[r] EXCEPT !.config = c, !.want = {}])

SaveNew(r) ==
  /\ pc[r] = "saveNew"
  /\ SaveConfig(r, loc[r].config, "store")
  /\ UNCHANGED <<maps, home, slot, born, inst>> /\ Changing(r)

Store(r) ==
  /\ pc[r] = "store"
  /\ slot' = [slot EXCEPT ![loc[r].map] = loc[r].got]
  /\ Finish(r)
  /\ UNCHANGED <<row, maps, home, born, inst>> /\ Changing(r)

-----------------------------------------------------------------------------
(* Stop and Unload of an instance that others may have too.                *)

\* isValidTransition.
Valid == {<<"Uninitialized", "Initialized">>, <<"Initialized", "Running">>,
          <<"Initialized", "Error">>, <<"Running", "Stopped">>, <<"Running", "Error">>,
          <<"Stopped", "Running">>, <<"Stopped", "Uninitialized">>, <<"Stopped", "Error">>,
          <<"Error", "Uninitialized">>}

\* Stop looks twice, before the hook and in SetState; both are errors alike.
Stop(r) ==
  /\ pc[r] = "stop"
  /\ IF inst[loc[r].got].state = "Running" THEN Step(r, "stopped") ELSE Finish(r)
  /\ UNCHANGED shared /\ Same

\* SetState stores what it found valid before, without a lock.
Stopped(r) ==
  /\ pc[r] = "stopped"
  /\ inst' = [inst EXCEPT ![loc[r].got].state = "Stopped"]
  /\ Step(r, IF loc[r].op = "update" THEN "unloadOld" ELSE "unload")
  /\ UNCHANGED <<row, maps, home, slot, born>> /\ Same

\* Mutant: Unload does not look whether the plugin is loaded.
UnloadedAnyway(i, b) ==
  /\ b = TRUE
  /\ inst' = [inst EXCEPT ![i].config = {}, ![i].state = "Uninitialized"]

\* Unload holds the lock of the instance: the configuration goes, then the
\* state, if the transition is valid.  b: whether it is.
Unloaded(i, b) ==
  /\ inst[i].state # "Uninitialized"
  /\ b = (<<inst[i].state, "Uninitialized">> \in Valid)
  /\ inst' = [inst EXCEPT ![i].config = {},
                          ![i].state = IF b THEN "Uninitialized" ELSE @]

-----------------------------------------------------------------------------
(* SavePluginConfig.                                                       *)

UnloadOld(r) ==
  /\ pc[r] = "unloadOld"
  /\ \/ Unloaded(loc[r].got, TRUE) /\ Step(r, "drop")
     \/ Unloaded(loc[r].got, FALSE) /\ Finish(r)
     \/ inst[loc[r].got].state = "Uninitialized" /\ Finish(r) /\ UNCHANGED inst
  /\ UNCHANGED <<row, maps, home, slot, born>> /\ Same

\* Mutant: the instance is left in the map.
DropNothing(r) ==
  /\ pc[r] = "drop"
  /\ Goto(r, "save") /\ Keep(r, [loc[r] EXCEPT !.got = 0])
  /\ UNCHANGED shared /\ Changing(r)

\* Whatever instance is there by now.
Drop(r) ==
  /\ pc[r] = "drop"
  /\ slot' = IF home = 0 THEN slot ELSE [slot EXCEPT ![home] = 0]
  /\ Goto(r, "save") /\ Keep(r, [loc[r] EXCEPT !.got = 0])
  /\ UNCHANGED <<row, maps, home, born, inst>> /\ Changing(r)

\* Before anyone knows whether the new configuration loads.
Save(r) ==
  /\ pc[r] = "save"
  /\ SaveConfig(r, loc[r].want, "findMap")
  /\ UNCHANGED <<maps, home, slot, born, inst>> /\ Changing(r)

-----------------------------------------------------------------------------
(* UnloadPlugin, of the instance that is in the map by now.                *)

Unload(r) ==
  /\ pc[r] = "unload"
  /\ IF Live = 0 THEN Finish(r) /\ UNCHANGED inst
     ELSE \/ /\ Unloaded(Live, TRUE)
             /\ Goto(r, "deleteRow") /\ Keep(r, [loc[r] EXCEPT !.map = home, !.got = Live])
          \/ Unloaded(Live, FALSE) /\ Finish(r)
          \/ inst[Live].state = "Uninitialized" /\ Finish(r) /\ UNCHANGED inst
  /\ UNCHANGED <<row, maps, home, slot, born>> /\ Same

DeleteRow(r) ==
  /\ pc[r] = "deleteRow"
  /\ row' = {}
  /\ Step(r, "dropSlot")
  /\ UNCHANGED <<maps, home, slot, born, inst>> /\ Changing(r)

DropSlot(r) ==
  /\ pc[r] = "dropSlot"
  /\ slot' = [slot EXCEPT ![loc[r].map] = 0]
  /\ Finish(r)
  /\ UNCHANGED <<row, maps, home, born, inst>> /\ Changing(r)

-----------------------------------------------------------------------------
Handle(r) ==
  \E op \in Ops \ {"none"}, c \in {{}} \cup {{x} : x \in Configs} : Begin(r, op, c)

Request(r) ==
  \/ Handle(r)
  \/ Lookup(r) \/ ReadRow(r) \/ FindMap(r) \/ MakeMap(r) \/ SaveNew(r) \/ Store(r)
  \/ Stop(r) \/ Stopped(r) \/ UnloadOld(r) \/ Drop(r) \/ Save(r)
  \/ Unload(r) \/ DeleteRow(r) \/ DropSlot(r)
  \/ Fail(r)

Next == (\E r \in Requests : Request(r)) \/ Restart

Spec == Init /\ [][Next]_vars

-----------------------------------------------------------------------------
(* Properties.                                                             *)

ValidTransition ==
  \A i \in 1..born : i <= born' =>
    \/ inst'[i].state = inst[i].state
    \/ <<inst[i].state, inst'[i].state>> \in Valid
    \/ /\ inst[i].state = "Uninitialized" /\ inst'[i].state = "Stopped"
       /\ \E r \in Requests : Stopped(r) /\ loc[r].got = i

\* Instances change their states as isValidTransition allows, except for a Stop
\* that looked before another request's Stop and Unload, and stores after them.
\* (Load and Start of a new instance are one step here.)
TransitionsValid == [][ValidTransition]_vars

\* A plugin that is stopped or unloaded, and so refuses to execute and to be
\* uninstalled until the process restarts, stays in the map only when a request
\* failed after it had stopped it: no order of requests leaves one behind.
StuckOnlyByFailure ==
  Live # 0 /\ inst[Live].state # "Running" =>
    \/ Live \in broken
    \/ \E r \in Requests : pc[r] \in Stopping /\ loc[r].got = Live

\* The instance in memory is one of the row's configuration and knows its
\* application, unless requests overlapped, one failed half-way or is under way.
LiveIsTheRows ==
  ~ raced /\ Live # 0 =>
    \/ inst[Live].config = row
    \/ Live \in broken
    \/ \E r \in Requests : pc[r] \in Stopping
=============================================================================
