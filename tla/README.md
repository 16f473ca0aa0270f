# Lauth in TLA+

Lauth is an identity service written in Go: accounts, JWT sessions, an OAuth 2.0 / OpenID
Connect server, verification plugins (email, TOTP), roles, permissions, a rule engine, an
audit trail, files and user profiles. It serves HTTP with gin, one goroutine per request,
and keeps its state in PostgreSQL (through gorm), Redis and MongoDB. Almost every operation
is a sequence of independent reads and writes to those stores, with no lock and, with few
exceptions, no transaction around them. What can go wrong is therefore mostly an order of
commands of two requests, or one step of several that fails; neither is covered by a test
(the repository has no Go tests). This directory models those sequences, checks them with
TLC, and proves the central facts about them with TLAPS.

## Inventory

| Component | State | Operations | Hard behaviour | What makes it correct |
|---|---|---|---|---|
| Token service (`internal/service/token.go`, `auth_token.go`) | Redis `refresh_token:<user>` (one slot per user), `revoked_token:<token>`; signed claims | issue, validate, refresh (rotate), revoke, logout | check-then-set on the slot; TTLs; Redis errors and lost replies; rotation before the user check | a revoked or rotated token never works again; one live refresh token per user; a logout ends the session |
| Super administrators (`super_admin.go`) | table `super_admins` (unique index on the user; foreign keys are disabled) | add, remove, startup initialisation, access check | count-then-delete; two instances starting | an instance serves with an administrator; the last one is not removed |
| User accounts (`user.go`, repository, api) | table `users`, Mongo profile | create, update, change password, first change, delete | read-modify-write through a repository that treats two cases; deletion across two stores | the last accepted password works; a disabled user stays out |
| Authorization codes and OAuth clients (`authorization.go`, `oauth_client.go`) | tables `authorization_codes`, `oauth_clients`, `oauth_client_secrets` | authorize, exchange a code, client CRUD, secrets | code exchange is read-check-issue-delete; expiry races | a code is exchanged once, by its client, before it expires |
| Rule engine (`pkg/engine`, `service/rule.go`) | tables `rules`, `rule_conditions`; Redis `rules:<app>` | evaluate, rule and condition CRUD | cache fill in flight while a writer invalidates; typed comparison of strings and JSON values | the verdict is that of the rules in force; the highest priority decides |
| Audit log (`internal/audit`, audit middleware) | hash chain in memory, one open file per app, index file | write, rotate, verify, read, statistics | one chain over the files of many apps; restarts; midnight; same-second rotation | what was written is readable and verifies; tampering shows |
| Audit stream (`internal/audit/websocket.go`) | client set, broadcast channel of 100, RW lock | add, remove, broadcast, deliver | lock upgrade while delivering; a blocked queue blocks requests | every audited request ends; delivery goes on |
| Verification sessions (`verification_*.go`) | tables `verification_sessions`, `plugin_status` | create session, update status, validate, clear | sessions inherited, replaced, expired, cleared in the middle; one pseudo-user for all registrations | a login passes only with its own completed verifications |
| Accounts flow (`auth_account.go`, `auth_validation.go`) | the previous components | register, login, validate token and rule | several services in a row, errors in the middle | token only after verification |
| Plugin base and state (`plugin/types`) | state machine, lock | load, start, stop, execute, unload | unlocked check-then-set of the state | only legal state changes; no execution of an unloaded plugin |
| Plugin manager (`plugin/manager.go`, `plugin_config.go`) | two maps, table `plugin_configs` | install, uninstall, load, unload, get, execute | lazy load by two requests; uninstall against lazy load | one instance per app and plugin; an uninstalled plugin is gone |
| Code and link managers (`plugin/verification`) | in-memory maps, user configuration rows | send, verify, valid; read-modify-write of user configuration | resend against verify, expiry, lost update | a code works once, before it expires |
| Email and TOTP plugins | the above and user configuration | execute per operation | exemption rules, drift windows, mail | verification needed unless exempt |
| Roles and permissions (`role.go`, `permission.go`) | five tables | CRUD, assignment, checks | deletes across join tables; duplicate assignment | a right exists only through a live role |
| Profiles and files (`profile.go`, `file.go`) | Mongo documents, disk | CRUD, upload, delete | check-then-create; file and document written separately | one profile per user; no orphan |
| Apps (`app.go`) | table `apps` | CRUD | cascade | – |
| Login locations (`login_location.go`, `ip_location.go`) | table, offline database | record, list | – | – |
| OIDC documents (`oidc.go`, `pkg/crypto`) | RSA keys | discovery, JWKS, userinfo | – | – |
| HTTP layer, boot, configuration, logging, container | wiring | – | start order | – |

All components are called by the HTTP handlers; the accounts flow calls verification, plugins,
profiles, locations and the token service; the OAuth server calls the token service; the audit
middleware wraps every request and feeds the log and the stream; the rule engine shares Redis
with the token service but no key.

## Plan

The modules, in order of what matters most to a service that issues tokens. All are written
and checked, and every invariant and action property a run checks is proved as a theorem for
all values of the constants; what stays with TLC is listed under "What is proved".

| # | Modules | What | State |
|---|---|---|---|
| 1 | `TokenLifecycle`, `TokenService`, `TokenServiceProofs`, `MCTokenService` | abstract token lifecycle; the service over Redis; refinement and invariants | checked and proved |
| 2 | `SuperAdmin`, `SuperAdminProofs`, `MCSuperAdmin` | administrators, start of several instances | checked; safety proved |
| 3 | `AuthorizationServer`, `AuthorizationServerProofs`, `MCAuthorizationServer` | authorization codes, clients, secrets | checked and proved |
| 4 | `AuditLogs`, `AuditTrail`, `AuditTrailProofs`, `MCAuditTrail` | audit files | checked and proved |
| 5 | `AuditStream`, `MCAuditStream`; theorems in `AuditTrailProofs` | live stream | checked; safety proved |
| 6 | `Verification`, `VerificationProofs`, `MCVerification` | sessions and statuses under registration and login | checked and proved |
| 7 | `UserAccount`, `FileStore`, `MCUserAccount`, `UserAccountProofs` | accounts and profiles over two stores; files on disk and their records | checked and proved |
| 8 | `AccessControl`, `RuleCache`, `RuleEngine`, `MCAccessControl`, `AccessControlProofs` | roles and permissions over join tables; rules and their cached copy; evaluation | checked and proved |
| 9 | `PluginManager`, `EmailCodes`, `UserConfigs`, `MCPluginManager`, `PluginManagerProofs` | a plugin of an application; its codes and links; what it keeps of a user | checked and proved |

Compositions: `TokenService` implements `TokenLifecycle`; a login of `Verification` ends with
one action, `IssueToken`, where `TokenService` begins; `UserAccount` composes accounts and
profiles, `RuleCache` the rules, the conditions, the cache and the requests around them.
`MCUserAccount`, `MCAccessControl` and `MCPluginManager` put components side by side that share
no state: a variable `focus`, chosen at the start and kept, says of which of them a behaviour is.
That gives each of them every interleaving of its own and none of the product, and lets one
run ask one question of a group ("do two stores agree", "is an answer right", "does a plugin
keep its word"). The places where such components do meet are an action of each:
`EmailCodes.Replace` is `PluginManager.Store`, and the installed plugins of `Verification` are
the live instances of `PluginManager`.

Runs: one passing run per group of components that checks its invariants, action properties
and, where the code's scheduling justifies fairness, liveness, on the smallest instance in which
two actors meet; and three runs that show where the code does not do what its own comments or
documents say.

## How to run

    tlc -workers 2 -config token_service.cfg MCTokenService.tla      # any .cfg with its MC module
    tlapm TokenServiceProofs.tla                                     # and each other *Proofs.tla

`PROJECT.json` lists components, runs, the mutants each property was tried against, the map
from definitions to source lines, findings, hazards and theorems. A mutant is a definition of
the same module, marked `Mutant:` in its comment, that replaces a modelled action by a
plausibly wrong one; the property named with it must then fail. Mutants are never part of `Next`.

## Conventions

* One action is one Redis command, SQL statement, file operation or lock operation together
  with the local code up to the next one. A request is a process with a program counter `pc`
  and the local variables it carries from one command to the next.
* `RedisError`, `DbError`, `RequestFails`, `AppendFails` and the like end an operation as the
  code's error paths do. Where a reply may be lost after the command was applied, the effect
  is there and the caller sees an error.
* Time is a bounded counter `now` or `clock`; what is compared with it is what the code compares.
* History variables, marked as such, record what a property needs and never guard an action,
  except that an id once given out is not given out again (ids are UUIDs).
* Repositories that find nothing return `nil, nil`; `Save` of gorm inserts the row when the
  UPDATE matched none; `Create` replaces the zero value of a column with a default. These
  three habits of the persistence layer are modelled wherever they matter.

## What is proved

Each proof module EXTENDS the module it is about (the MC module where several components are
side by side), states an inductive invariant in named parts, proves a lemma for each action and
derives the properties from it. The constants are arbitrary, as the named assumptions of the
modules allow; the bounds are too, so the theorems hold for histories of any length. The sections
below say what each invariant adds to the property and why it takes that.

Every property of a passing run has its theorem but two, the liveness properties
`StartCompletes` and `StreamFlows`: the prover does not reason about fairness and ENABLED, so
these stay with TLC, as do the three properties that the code violates. Where a component is
taken as an instance (`C!`, `E!`, `F!`, `U!`), the theorem is about its specification all the
same.

Where a definition could not be reasoned about as it was first written, it was given another
form of the same meaning, never another meaning: alternatives of an action as disjuncts (`NotFound` of
PluginManager), the action under a box named (`ValidTransition`), what a condition says apart
from whether it says anything (`Says` of RuleEngine), and `GaplessStream` by the place each log
has among those due, because what a recursive filter of a sequence returns takes an induction
over data, which the prover does not do.

## TokenService and TokenLifecycle

`TokenService` has the clock, the claims of signed pairs (`owner`, `iat`), Redis
(`slot`/`slotUntil` for `refresh_token:<user>`, `revokedUntil` for `revoked_token:<token>`) and
for each request its place, operation, token and new pair. Actions are the commands of
`GenerateTokenPair` (`SignPair`, `Store`), `ValidateToken` (`Accepts`), `RefreshToken`
(`BeginRefresh`/`BeginGrant`, `Revalidate`, `CompareSlot`, `Store`), `authTokenService.RefreshToken`
around it (`Recheck`, `LoadUser`) and `Logout` (`BeginLogout`, `RevokeCheck`, `RevokeSet`,
`GetSlot`, `DelSlot`). A command fails by `RedisError`, with or without having been applied.

`TokenLifecycle` is what a client may rely on: tokens go from "none" to "live" to "dead" and
never back, and recording a pair for a user kills the user's live refresh token. The
refinement maps a stored token to "live" when some call would honour it.

Run `token_service` (2 users, 2 pairs, 2 requests, expiries 1 and 2, 3 ticks, Redis errors;
491,173 states): `RevokedNeverAccepted`, `LogoutEndsItsToken`, `NoResurrection` and the
refinement hold. Two pairs are enough for a rotation and for two requests that compete for a
slot with a pair each; 3 ticks outlive both tokens and every key.
What a logout does not do: a refresh that has compared the slot before may store a new pair
after it, and the session goes on with that pair. `LogoutEndsItsToken` speaks of the token that
was logged out only. And `Logout` returns success over any Redis error of its refresh part
(`auth_token.go:91`): an error before the revocation entry is written leaves the token alive, and
the property says that this is the only way (`swallowed`), that an error after it leaves nothing
behind, and that another logout of the token ends it. Two refreshes with one token may both pass
`CompareSlot` and both store a pair: the token buys two pairs, of which the slot keeps the later;
`OneSession` is what is left of "one token, one pair".

Proved, for any users, pairs, requests, expiries and with or without Redis errors, from
`TokenServiceAssumption` (`NoUser` and `NoPair` are no users and pairs, the expiries and the
bound on the clock are naturals): `Invariance`, `TypeCorrect`, `RevocationIsFinal`,
`LogoutIsEffective`, `NoTokenReturns`, `Refinement`, and the two halves of what the life cycle
means here: `DeadForGood` (a recorded token no call would honour is never honoured again) and
`OneSession` (two recorded refresh tokens of one user are never both honoured), the second
proved from `TokenLifecycle` alone and carried over by the refinement. The inductive invariant
`IInv` adds to
type correctness that no pair is issued in the future and everything delivered was stored
(`ClaimsInv`); that a revocation entry outlives its token, which is why a late revocation
still holds (`RevocationInv`); that a slot holds a stored pair of its own user (`SlotInv`);
that a signed pair that waits to be stored is known to one request and was never stored,
without which an old pair could come back to the slot (`RequestInv`); and that whatever a
logout ended is revoked, expired, or left over by an ignored error (`EndedInv`).

Not modelled: two tokens are distinct only because their claims differ in nanoseconds
(`SignPair` takes a pair never signed before); a Redis command that is retried late by the
client library after another one was issued.

## SuperAdmin

Tables `super_admins` (`admins`), `users`, `apps` as far as the start touches them; requests
that add (`AddLookup`, `AddCheck`, `AddInsert`) and remove (`RemoveCheck`, `RemoveCount`,
`RemoveDelete`); instances that run `CheckAndInitSuperAdmin` statement by statement, exit on an
error, crash and restart. `Begin` is the middleware. Foreign keys are disabled
(`pkg/database/postgres.go:44`), so deleting a user leaves its administrator row.

Run `super_admin` (2 user ids, 2 requests, 2 instances, 2 crashes, a page of 1 user; 662,858
states): `LastGoesOnlyInARace`, `ServesWithAdmin` and, under fairness, `StartCompletes`. Two
requests and two rows are the race of two removals, which empties the table (`super_admin.go:92`
counts, `:101` deletes) and which `LastGoesOnlyInARace` excepts; it is proved for any number of
requests. Fairness: the statements of a start return, and the supervisor restarts a process that
went down; requests and crashes have none.

`StartCompletes` has two premises. Requests come to rest, because two that add and remove for ever
could undo every start. And an administrator is there, or no more users than `PageSize`: the
start looks for the user "admin" among the first 100 of the list, in no order
(`super_admin.go:162`, `repository/user.go:91`), so with more users it may not find the one an
interrupted start left, fails on its unique name, and may fail so at every start. The run has
more users than its page of one. CHECK_DEADLOCK is off because nothing more can happen once a race
has emptied the table and the bounds on ids and crashes are used up.

Proved, for any users, requests, instances and crashes, from `SuperAdminAssumption`:
`Invariance` (types, `TargetInv`, and `CountInv`: whoever is about to delete has counted two
rows), `TypeCorrect`, `LastOnlyInARace`, `ServiceNeedsAdmin`.

Not modelled: a user called "admin" of another application.

## AuthorizationServer

Tables of clients, secrets and codes; `Authorize` (`BeginAuthorize`, `GetClient`, `CreateCode`),
the exchange (`BeginExchange`, `GetClient`, `CheckSecret`, `GetCode`, `Issue`, `LoadUser`,
`DeleteCode`), and the administration of clients and secrets, each read and each write its own
action; expiry by `Tick`.

Run `oauth_codes` (2 clients, 1 secret, 1 code, 2 requests, 1 tick, updates of one client;
1,880,464 states):
`IssuedAsAuthorized` relates each pair issued to the code row, the client row and the secret
as they were when the user authorised, although all three may change or go while the exchange
runs. `AsAdministered`: each client's status, grant types, scopes and redirect URIs are what its
creation and the updates since have asked for, in the order of their saves; an update writes
every column of the row it read before (`oauth_client.go:185`), so that one which read another
row than it replaces may undo what others asked for or bring a deleted client back. That is the one
exception (`contended`), and the property says that it does not reach any other client, and that
no column is lost without it. One update of the run disables a client and moves it to another
URI, the other takes its grant and widens its scopes: columns the authorisation and the exchange
check, and each leaves out those of the other. One secret and two
clients make the confusion of clients possible; two requests make every stale read possible. Run `code_used_once`: `handleAuthorizationCodeGrant` deletes by the
row's id from a repository that deletes by code, so a code buys pairs until it expires.

Proved, for any clients, secrets, codes, requests and lifetimes, from
`AuthorizationServerAssumption` (what stands for "none" is no row): `TypeCorrect`,
`TokensAsAuthorized` (`IssuedAsAuthorized`), `AdministeredAsAsked` (`AsAdministered`). A request
issues tokens on rows it read long before, so `IInv` says what it still knows when they have
changed or gone: `TableInv` ties the rows to the history (a code row is what was granted, a
secret row names its owner), and `RequestInv` says for each place of an exchange which facts of
the history the request has established. History never changes; so neither does what is known.

Left out: the refresh grant (TokenService), the contents of ID tokens, last-used stamps, the name
of a client.

## AuditTrail

The writer's mutex, chain, open files, sizes and counts; the files; `index.json`; the reader's
cached index. Each step of `Write` is an action because it may fail or the process may die
after it: `AddLog`, `Open`, `AppendLog`, `UpdateIndex`, `Rotate` and their failures, among them
a torn line, which swallows the next record. A hash is the id and the encoding of the log it
was computed from (hashing is taken to be injective). `Encode` and `Decode` are what
`encoding/json` does to text that is not UTF-8. `Edit` is somebody with access to the directory:
it takes out a line, puts one in, or both; the new line is a copy of a record that can be read, one
with another text and its old hash, or one made up with a hash of its own, because the chain has no
key (`hash_chain.go:24`).

Run `audit_trail` (2 applications, 2 requests, 3 logs, 2 seconds, files of 2 records, 1 edit,
text in UTF-8; 1,849,078 states): `ConsecutiveVerifies`, `ValidMeansAsWritten`, `CountNeverAhead`.
Three logs and files of two make a rotation and a file with two records next to one of another
application. `ValidMeansAsWritten` is what a chain without a key can give: where a file verifies, a
record of the writer's stands first or right behind another of the writer's, with nothing of their
file missing between them. Records may be forged behind the last of them, and a whole file may be,
and `VerifyLogFile` accepts it. Text that is not UTF-8 is in the model and in the theorems, not in
this run. Run `files_verify`: a file verifies only while no other application writes.

Proved, for any applications, requests, logs, files, restarts and edits, from
`AuditTrailAssumption`: `NeverAhead` (`CountNeverAhead`), `WholeFileVerifies`
(`ConsecutiveVerifies`), `ValidIsAsWritten` (`ValidMeansAsWritten`). Two orders meet: that of the
chain, which a restart forgets, and that of a file's records. `IInv` ties them together by the ids of
the logs: no id is chained or written twice (`ChainInv`, `DistinctInv`); a record that names another of
its file as its predecessor stands right behind it (`FollowInv`); a file is in the order of the
chain (`OrderInv`); what the holder of the lock is about to write is the chain's last and in no file
(`HolderInv`); a line is a record of the writer, or its hash does not fit it, or it is none that the
writer can have made (`DiskInv`), and then no record of the writer's names it as its predecessor;
no counter is ahead of what was written, the one about to be raised included (`CountInv`).

Not modelled: the 64 KiB limit of the scanner, two queries that
write the reader's map at once (a data race that ends the process, as `Restart` does),
filters, and the check of names in `VerifyLogFile`.

## AuditStream

`AuditLogs` declares what this module and `AuditTrail` have in common, the constants of a log; they
share no state, and the proofs about both extend both.

The broadcast channel, the dispatcher, the RWMutex with Go's rule that a waiting writer
(`announced`) keeps new readers out, connections with their goroutines, and peers that stall
or leave. `MakeLog` and `Broadcast` are the end of an audited request.

Run `audit_stream` (2 connections, 2 applications, 1 request, a channel of 1, 3 logs;
441,078 states): `GaplessStream`, and under fairness `StreamFlows`. With a channel of one, three
logs are one in hand, one queued, one waiting. Fairness: goroutines are scheduled (weak);
senders of a full channel are served in turn, and a peer that keeps coming back takes the
data (strong). Peers need not come back: that is a premise of `StreamFlows`. Run
`stream_after_leave`: when a client leaves and a write to it fails, the dispatcher waits for the
write lock while it holds the read lock, for ever.

Proved, for any connections, requests, applications, faults of peers and any channel, from no
assumption: `StreamIsGapless` (`GaplessStream`). The invariant adds to the types that the
dispatcher holds the read lock exactly while it visits or removes, and visits only clients of the
log's application (`ReadingInv`), so that nobody joins or leaves in the middle of a delivery; and
that a connection is a client once, and has got nothing before (`ClientInv`). The theorems are in
`AuditTrailProofs`.

Of the two liveness properties what is safety is proved, from the same invariant and the module's
assumption. `StuckForGood`: from the moment the dispatcher asks for the write lock nothing is
broadcast or sent, nobody comes or goes, and requests get past Broadcast only while the channel
has room; so what `stream_after_leave` shows once is the end of the stream in every instance.
`NoOtherCircle`: at any other time who is next in line for the write lock is a connection
(`AnnouncedInv`), kept from it only by a dispatcher on its round, which needs no lock to end it.
That it does end is fairness, and `StreamFlows`.

## RuleEngine

The evaluation as pure operators (`CompareValues`, `Compares`, `Contains`, `Holds`,
`EvaluateRule`) and the loop over the rules in the order they were loaded (`GetActiveRules`
chooses any order by falling priority; conditions come in any order, and the first one that
fails or errs ends the evaluation). The value of a condition is always a string, the data are
JSON values of every kind.

Run `access_control`, where a behaviour is one of the engine (strings "1", "12", "[1]", numbers,
lists, other kinds and none in two fields; two rules with up to two conditions):
`AnswerIsMeaning`, and `OneSideOfTheValue`: all operators that compare agree on whether a string is
below, at or above the value of a condition; data of another kind are on no side, so that `gte` and
`lte` hold of them whatever they are; and of data that are absent nothing holds. `Contains` and
`NotContains` are each a loop of its own, as in the code. Two fields and two rules make the order in which
conditions fail and rules of one priority come matter; "1" and "12" order differently as text
and as numbers, and one is part of the other.

Proved (`AccessControlProofs`), for any fields, data, strings and relations between them, from
`EngineAssumption` (the sets of rules are finite, priorities are integers):
`AnswersAreTheMeaning` (`AnswerIsMeaning`), `OneSide` (`OneSideOfTheValue`, from the assumption that
the order of strings is a strict total one). `EngineInv`: the rules are sorted by priority, and those
the loop has passed over do not hold; the rule that decides is therefore of the highest priority of
those that do.

## RuleCache

The tables `rules` and `rule_conditions` of one application and the cached copy in Redis;
evaluations (`Get`, `GetActiveRules`, one `GetConditions` per rule, `Set`, `GetAgain`) and the six
changes, each with its lookup, its write and its invalidation, any Redis command failing.

Run `access_control`, where a behaviour is one of the cache (2 rules, 1 condition, 2 requests, 4
changes): `CurrentUnlessRaced` — out of date only between a write and its invalidation, after a
write overtook the load that filled it (`overtaken`), or when Redis failed. Two rules are needed
for a load that reads the conditions of one before and of the other after a change.

Proved (`AccessControlProofs`), for any rules, conditions and requests, from `RulesAssumption`:
`CacheIsCurrent` (`CurrentUnlessRaced`). What it needs besides is `LoadInv`: a load no write has
overtaken has read the enabled rules, and of those it has come to the conditions, as they are.

## Verification

Registration and login of one application as far as the verification plugins are concerned.
Tables: `verification_sessions` (`sessions`), `plugin_status` (`status`: for a user id, an action
and a plugin, the stamp of the newest completed row; duplicates are always deleted together and
every row there is says "completed"), `users` (`accounts`), and the users' choice of optional
plugins (`asked`). A login or registration runs `CreateSession` (`ListRecent`, `Inherit`,
`FindExisting`, `DropExisting`, `OpenSession`), `GetRequiredPlugins` (`ReadNeed`),
`ValidatePluginStatus` (`FindSession`, `LoadSession`, `NoSession`, `ReadStatus`, then
`AskForPlugins` or `Pass`), and after it passed `CreateAccount`, `Reload`, `Resave` (registration),
`IssueToken`, and `ClearVerification` (`FindOwn` to `Cleared`). `BeginExecute`, `Execute`, `Reread`
and `Mark` are the handler `ExecutePlugin`; `Fail` is an error of any of these statements.
Stamps order rows in time; `Age` lets half an hour pass for the oldest row, which expires a
session and ends the inheritance of a status. A mandatory plugin stands for email, an optional
one for TOTP; which are installed is chosen at the start and kept.

Run `verification` (2 request goroutines used again and again, 1 account, 1 newcomer, 1
mandatory and 1 optional plugin, both or none installed, 5 rows inserted; 1,221,615 states):

* `NeverUnverified`: in no order of two requests does anyone pass before each mandatory plugin
  was executed for the user id at least once;
* `VerificationSpent`: unless requests of one user id overlap, an execution serves one login:
  the inheritance in `CreateSession` never brings back what `ClearVerification` removed;
* `OwnSessionFound`: a request fails to find the session it has just opened only because of
  another request of the same user id, or, for a registration, of any login.

Five rows are enough for a login that is told to verify, an execution, a login that passes and
two more sessions after it; two goroutines for every race of two requests; 5 is also what TLC
can do in minutes. CHECK_DEADLOCK is off because a behaviour stops when its rows are used up.
`NeverUnverified` speaks of the user id and not of the action because the stronger statement is
false: the session a registration opened is written back under the new account's id (`Resave`);
a login of that account whose own session a concurrent clearing deleted finds it, and passes on
statuses of the action "register".

Proved, for any accounts, newcomers, plugins and requests, from `VerificationAssumption`:
`NoneUnverified` (`NeverUnverified`), `EachVerificationOnce` (`VerificationSpent`),
`FindsItsSession` (`OwnSessionFound`). Requests work on copies of session rows that may have been
deleted or moved since. `IInv` therefore says of rows and copies alike that an id is given out
once, and that a row changes its user once, from "pending", after its request has passed
(`CopyInv`); that nobody else moves or opens the session of its owner (`OwnerInv`); for whom a
request works and whose rows it has read (`RoleInv`, `SeenInv`); that what counts as completed
was executed (`EverInv`); that whoever shares rows with a request is known to have disturbed
it (`DisturbInv`); and what holds of a request nobody disturbed: its session is there and the
newest (`OwnInv`), and what counts for it has been earned and not spent (`SpentInv`).

Not modelled: installing and uninstalling while requests run
(PluginManager), the super administrator's first login, which skips all this, the exemptions
the email plugin records, which no login asks for because that plugin is mandatory (UserConfigs).

## UserAccount

The accounts that one user name has had, one after another (`row`, at most one at a time: the
index is unique), and their profiles (`docs`). Registration (`BeginRegister`, `Create`), login as
far as it writes (`BeginSignIn`, `Touch`), `UpdateUser`, `UpdatePassword`, `FirstChangePassword`
and `DeleteUser`, and the profile service. The repository's `Update` is two statements (`Existing`,
`Save`) and gorm's `Save` is up to two more: an UPDATE, and an INSERT if it matched nothing
(`Insert`). A password column holds the hash of a password or, because `UpdateUser` passes the
hash it read through the hook that hashes, the hash of a hash (`BeforeUpdate`); such a row signs
nobody in.

Run `user_account` (2 requests, up to 3 accounts and profiles together, at most 2 of each, 2
passwords; or, of FileStore, 1 name, 2 uploads, 2 seconds; 1,388,415 states):

* `ReplacedPasswordDead`: a password begins to sign in only by a statement of a request that was
  given it. No overlap of updates, changes, deletions and registrations brings an old one back,
  although three of them write the column;
* `RevivedOnlyByOverlap`: a deleted account is back only when its deletion fell between the
  statements of one update;
* `WritesOnlyAsked`: what is written whole takes nothing back, unless it changed since it was read;
* `DeletedWhole`: a deletion nobody overlapped, in which nothing failed, leaves neither the
  account nor a profile, provided no two creations of the profile ever overlapped: they leave
  two profiles, of which the deletion removes one.

Two accounts of one name are needed for a row written over a successor, two profiles for a
double creation, two passwords for a replaced one.

Proved (`UserAccountProofs`), for any passwords, accounts, profiles and requests, from
`UserAssumption`: `ReplacedStaysDead`, `RevivalNeedsOverlap`, `WholeWritesAreOfWhatIsThere`,
`DeletionIsWhole`, `TypeCorrect`. A request writes back what it has read, and what makes that sound is
in the invariant: a copy of the row or of a document is what the table has, or is marked stale
by whoever changed it (`WriteInv`, `DocInv`), and a deletion nobody overlapped is alone with its
account and has read the account's only profile (`DeleteInv`).

Not modelled: other columns than password and last login (`UpdateUser` never persists nickname,
email, phone or status, see below), listing, and the owner check of the handlers.

## FileStore

The upload directory as paths and inodes (`disk`, `content`) and the records. `UploadFile` is
`BeginUpload`, `Open` (which empties a file that is there), `Copy`, `Insert` or `InsertFails` and
`Undo`; `DeleteFile` is `BeginDelete`, `Remove`, `DeleteRecord`; `UpdateFile` and
`UpdateCustomData` write records. A path is a second and a name, so two uploads can share it.

`FilesMatchRecords`: a record's file is there and holds what the record was made for, and a file
without a record belongs to an upload under way - unless two uploads shared the path, a deletion
is half done, or a request failed there. Two uploads of one name within and after one second
are every way in which paths coincide.

Proved (`UserAccountProofs`), for any names, uploads and requests, from `FilesAssumption`:
`FilesAndRecordsAgree` (`FilesMatchRecords`). An entry, a record and the copies requests have of
it belong to one upload as long as its path was given once (`PathsInv`); what an upload has
done before its record is there (`UploadInv`); and an entry without a record has an excuse,
because a deletion removes the entry first (`StrayInv`).

## AccessControl

Roles, permissions, grants (`role_permissions`) and the memberships of one user (`user_roles`),
without foreign keys; every operation of both services statement by statement, and the two
that answer what the user may do, `Ask` with `ReadRole` per role (`GetUserPermissions`) and with
`FindRole` before each (`HasPermission`, which ends at the first role that has the permission,
`FoundOne`, and answers yes to a super administrator before it reads anything: the user here is
none). Deleting a role or a permission is a transaction and so
one action; `SaveRole` and `SavePerm` insert a row that was deleted meanwhile. The unique index
on the permission's code, which no handler sets, admits one permission made by a request.

Run `access_control` (2 requests, 2 roles, 1 permission with a code and 1 made by a request; with
the two modules above 772,588 states):

* `GoneRoleIsBare`: a deleted role has no grants and no members, unless something was added to it
  between the question whether it is there and the insertion;
* `AnswerIsOfAMoment`: an answer put together by several statements is the user's rights before or
  after the change between them, and one that ends early has found nothing else; it takes two
  changes to mix.

Two roles are needed for an answer of two statements; two permissions for a change that gives
one right and takes another.

Proved (`AccessControlProofs`), for any roles, permissions and requests, from
`AccessControlAssumption`: `GoneIsBare` (`GoneRoleIsBare`), `AnswersAreOfAMoment`
(`AnswerIsOfAMoment`). `AskingInv` is what makes an answer of several statements one of a moment: a
question during which nothing changed has found the rights of the roles it has been through, and
one during which one thing changed comes, with the roles still to do, to the rights before or to
those after. `AddingInv`: the role somebody adds to is there, or was deleted under them.

Not modelled: several users (a membership of one says nothing of another), the fields of a
permission, applications other than one.

## PluginManager

One plugin of one application: the configuration row, the maps and instances in memory, and
the state of each instance. `GetPlugin` is `Lookup`, `ReadRow`, `FindMap`, `MakeMap`; installing
adds `SaveNew` and `Store`; an update is `Stop`, `Stopped`, `UnloadOld`, `Drop`, `Save` and a load; an
uninstall `Stop`, `Stopped`, `Unload`, `DeleteRow`, `DropSlot`. `sync.Map` operations, the check and the
store of a state, and the statements are each an action, because none of them is under a lock
that spans two of them. `Fail` is any error, `Restart` the loss of everything but the row.

Run `plugin_manager` (2 requests, 2 configurations that load and 1 that does not, 2 instances, 2
maps; with the two modules below 563,906 states):

* `TransitionsValid`: the states change as `isValidTransition` allows, although `SetState` checks
  and stores without a lock (`state.go:61`), with one exception: a `Stop` that looked before
  another request's `Stop` and `Unload`, and stores after them;
* `StuckOnlyByFailure`: a plugin that is stopped or unloaded stays in the map, where it refuses
  to execute and to be uninstalled until a restart, only after a request failed half-way;
* `LiveIsTheRows`: what is in memory is what the row says, unless requests overlapped or failed.

Two instances and two maps are enough for every race of two requests: each makes at most one.

Proved (`PluginManagerProofs`), for any configurations, requests, instances and maps, from
`PluginAssumption` and `BoundsAssumption`: `TransitionsAreValid`, `NoneLeftBehind`
(`StuckOnlyByFailure`), `MemoryIsTheRow` (`LiveIsTheRows`). The invariant: what a request holds on
to, by its place (`HoldsInv`); an instance is in one map or with the request that made it
(`PlaceInv`); an instance somebody has stopped does not run again (`WornInv`), so that a `Stop`
that comes late finds it stopped or unloaded; somebody is at work on a stopped or unloaded instance in the map, or
failed there (`StuckInv`); and what a request may conclude from what it has read while no change
overlapped another request (`KnowsInv`, `RowInv`). `RunningStays`, of the same invariant: a running
instance is never lost - stored over, dropped, or left behind in a map that is stored over - unless
a change overlaps another request.

Not modelled: two plugins, and two applications. The service `app_id` is registered under the
plugin's name alone, so an instance can be configured with another application's id
(`manager.go:133`); `Load` and `Start` of a new instance are one step.

## EmailCodes

The codes and links of one address in each instance of the plugin. In code mode the mail is
sent under the manager's lock and the code stored afterwards (`BeginCode`, `Mailed`); in link mode
the link is stored first and mailed without a lock (`BeginLink`, `Mailed`). A mail may be lost with
or without an error, or arrive although an error was reported; `Expire`, and `Replace` by a new
instance, drop what was stored.

`MailedCodeVerifies`: when no mail is under way, the code or link that reached the mailbox last
is the one that verifies, or there is a reason: it was used, it expired, its instance was replaced,
the sender reported an error for it, or a later one was made that did not arrive. Three sends and
two requests let one overtake another.

Proved (`PluginManagerProofs`), for any requests, instances and sends: `MailboxVerifies`
(`MailedCodeVerifies`). The invariant adds that a link on its way to the mailbox verifies as well,
and that the lock of an instance is held by the one request that mails its code (`CodesInv`).

## UserConfigs

The rows in which TOTP and the email plugin keep what they know of one user, each read, changed
and written back whole. TOTP: `BeginSetup`, `SaveSetup`, `Show`, `ShowParams`, `BeginDisable`,
`SaveDisable`; email: `BeginTrust`, `SaveTrust` (`OnVerificationSuccess`), and `Needs`
(`NeedsVerification`).

* `ChangesOnlyByItsCode`: TOTP that is on goes off, or gets another secret, only by a code of its
  secret, unless the request was overtaken by another one or its read failed, which passes for
  "not enabled" (`totp.go:657`);
* `ShownIsStored`: once no request is under way, the secret that is wanted is the one that was
  shown last, however setups overlapped. The plugin's own route reads the row again for its answer
  (`totp.go:469`); the route that executes any plugin answers with the parameters, in which the
  secret is the request's own (`totp.go:584`, `api/v1/plugin.go:244`), and is the exception when
  another request has written the row in between, as is a setup that failed;
* `TrustIsEarned`: addresses and devices are forgotten only by a verification that another one
  overtook, and spare a verification only to who verified from them.

Two secrets, two addresses and two requests make every lost update possible.

Proved (`PluginManagerProofs`), for any requests, secrets, addresses and devices:
`OnlyItsCodeChanges`, `StoredWasShown`, `EarnedAndKept`. The invariant says what a request that
was not overtaken knows of the row it is about to write (`ReadInv`), that the secret wanted was
shown or is about to be (`ShownInv`), and that whatever a row or a request holds as trusted has
been verified from (`EarnedInv`).

The email plugin is a required one, and `GetRequiredPlugins` asks optional plugins only; the other
caller (`verification_status.go:58`) drops the answer. So `Needs` is what the plugin answers
whoever asks, and no login depends on it yet.

## Disagreements seen while modelling that have no run

Each is what the model does, translated from the code, against what a comment or document says.

* `super_admin.go:92-101`: two removals that run together leave no administrator, although
  `:18` says the last one cannot be deleted.
* `super_admin.go:58`: "check whether the user exists" does not: the lookup returns `nil, nil`,
  and a row is inserted for a user who never existed.
* `super_admin.go:170`: "find the administrator user" looks among 100 users, listed in no order.
* `auth_token.go:91`: an error when the refresh token is revoked is dropped, and the logout succeeds.
* `oauth_client.go:185`: an update that read the client before it was deleted inserts it again.
* `hash_chain.go:24`: "integrity" (README.md:62) is that of a chain without a key: what is put at the
  end of a file, with hashes of its own, verifies.
* `totp.go:584`: the secret that the executing route shows is the request's own, not the stored one.
* `hash_chain.go:31`: a log with a text that is not UTF-8 does not verify when read back.
* `reader.go:175`: the index read first is kept, so the total of `GetLogCount` stops growing.
* `reader.go:77`: nothing adds to `LogIndex.Files`, so a query finds today's logs only.
* `websocket.go:107`: the configured `write_wait` is never used; a client that stops reading
  stops the stream.
* `engine.go:187`: a load that began before a change caches the old rules after the change
  invalidated the cache, for 24 hours.
* `parser.go:345`: a number of the request and the condition's string always tie, so `gte` and
  `lte` hold whatever the number.
* `repository/rule.go:47`: a rule created disabled is enabled (the column's default).
* `repository/rule.go:76`: an update that read a rule before its deletion brings it back.
* `auth_account.go:220`: "verified, or nothing to verify, create the user": all registrations of an
  application share the user id "pending", so the one who passes need not be the one who verified.
* `verification_session.go:60`: a status is inherited for 30 minutes, but the validation counts
  older ones just the same.
* `api/v1/plugin.go:235`: every operation that needs a session completes the plugin's status, so
  sending a code by email counts as having verified it (`types/base.go:491`).
* `repository/user.go:79`: `UpdateUser` sets nickname, email, phone and status, and the repository
  writes the password column only; and that with the hash of the hash it read
  (`service/user.go:93`): the user cannot sign in any more.
* `service/user.go:151`: "the first-login flag is reset" is logged; it is never written.
* `repository/plugin_config.go:79`: the save names the conflict target `(app_id, name)`, on which
  the model (`model/plugin.go:43`) declares no unique index; PostgreSQL refuses such a statement,
  so no install and no update completes on a database made by `AutoMigrate`. The model allows both.
* `manager.go:474`: "get the plugin configurations of all applications" asks for the application "".
* `manager.go:554`: an update saves the new configuration before it is known to load.
* `engine/parser.go:211`: `in` and `not_in`, "in the list" (`model/rule.go:28`), always fail: the value
  of a condition is a string, never a list.
* `types/exemption.go:196`: the policy's lists of addresses and devices are `[]string` and are looked
  for as `[]interface{}`: they match nothing.
* `email.go:273`: a configuration without the optional `link_config` dereferences nil.
* `email.go:805`, `verification_plugin.go:209`: the email plugin is asked whether the id of a status
  row has a valid code, not the address, and in link mode asks the code manager.
* `email/sender.go:28`: without an SMTP service codes are logged and reported as sent.
* `link_manager.go:56`: a link that cannot be mailed has already replaced the one in the mailbox.
* `service/file.go:98`: two uploads of one name in one second are two records of one file.

## Not modelled

* Applications (`app.go`): rows that are read, changed and saved one by one. They are independent
  of each other; a stale save of one behaves as that of a client in AuthorizationServer.
* Login locations: rows that are added and listed, and a database that is only read.
* OpenID discovery, JWKS and keys: documents computed from the configuration.
* Templates, mail formats, QR codes, logging, configuration, wiring, developer tools: output, or
  no state.
* `internal/plugin/user`, `UserConfigManager.UpdateConfig`, `ValidateClient`,
  `CreateSessionWithIdentifier` and `DeleteExpired`: nothing calls them.
* The questions TOTP answers at login (`NeedsVerification`, `verifyTOTP`): reads without effect on
  state; what they read is in UserConfigs, what follows from the answer in Verification.
* The first login of a super administrator, which skips verification.

Lengths of strings, cryptography and the wire formats are abstracted throughout. Parts that are
"partly" modelled say in `PROJECT.json` what is left out.
