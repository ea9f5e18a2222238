# A formal model of enterprise-data-mcp

TLA+ specifications of the read-only data server under `src/enterprise_data_mcp`
of the Demo Agent under `src/enterprise_data_mcp_demo` and of the end-to-end
helper `scripts/compose_e2e.py`, the TLC instances that check them, and TLAPS
proofs of every invariant and every action property that the instances check.
File names and line numbers below are relative to the repository.

## 1. The system

An MCP client (or the Demo Agent) asks a host process for one of three things:
the datasets it may use, the schema of one of them, or the rows of a query.
The host runs a use case, which writes an audit row before it does anything,
consults the policy and the MySQL catalog, validates the request, compiles it
to one SELECT, and closes the audit row before it hands the envelope out.

```
 model -> DemoAgent --\                         /-> YamlPolicyAdapter
                       > host -> MCP handler -> use case -> MysqlCatalogAdapter
 any MCP client ------/   |                     |  \-> rules -> MysqlQueryAdapter
              HttpSecurityMiddleware            \-> SqliteAuditAdapter (file)
              InflightLimiter                        AuditMigrator (at boot)
```

| Component | State it keeps | Operations | Hard behaviour | What makes it correct | Module |
|---|---|---|---|---|---|
| `SqliteAuditAdapter` (`adapters/audit/sqlite_audit_adapter.py`) | the table `audit_events` in a file that host processes may share; `_recovery_ok` | `start`, `finish`, `recover_stale_started`, `readiness_ok` | each method has its own connection; threads and processes interleave at SQLite's write lock; busy timeout; death before a commit | an id is opened once and closed once, from STARTED only; what a method returned is on disk; recovery spares young rows | `SqliteAudit`, `AuditLedger` |
| Use cases (`application/query_service.py`, `catalog_service.py`) | none of their own: locals of one execution, spans and counters of its telemetry | `ExecuteReadQuery`, `ListAuthorizedDatasets`, `GetAuthorizedSchema` | every port may raise, telemetry included; a failed `finish` discards a result; a recovery may overtake a slow call | the envelope and the audit row never disagree; no port before the row; every call ends | `UseCases` |
| `AuditMigrator` (`adapters/audit/migrator.py`, `migrations/*.sql`) | `schema_migrations`, the table and its index | `apply_upgrade`, `apply_rollback` | `executescript` commits statement by statement; several processes boot on one file; death in between | nobody is ready on half a schema; no upgrade costs rows | `AuditMigrator` |
| Rules, plan, SQL compiler (`domain/rules.py`, `query_service.py:356`, `sql_compiler.py`) | none | `validate_query_request`, `_to_query_plan`, `compile_query_plan` | the same names are checked in two layers; aliases share the name space of columns | an accepted request reads granted columns only, and fails to compile only for a column the adapter's list does not have; parameters fit placeholders | `QueryRules` |
| `MysqlQueryAdapter`, `MysqlCatalogAdapter` | a connection per call | `execute`, `get_field_snapshot` | timeouts, the limit + 1 probe, DDL between a snapshot and a statement | a result is a window of the matches; a call fails on a column only if it went | `QueryPath`, `PolicyCatalog` |
| Demo Agent and its model and tool ports (`agent.py`, `query_schema.py`, `model_port.py`, `mcp_tooling.py`) | none | `handle`, `complete`, `call_query_data` | a model that answers anything; a tool call whose answer is lost; checks requests by rules of its own | it quotes only what the server sent | `QueryPath`, `QueryRules` |
| HTTP and SSE hosts (`hosts/`) | `InflightLimiter._current`, `LegacySessionLimiter._last_touch`, running requests | start, stop, middleware, `/healthz`, `/readyz`, MCP routes | requests end by response, exception or cancellation, in any order, or with the process | no slot leaks | `HttpHost`, `HostSettings` |
| stdio host, MCP handlers, codec | none | start-up, one call, one conversion | — | — | doors of `UseCases` and `QueryPath` |
| `YamlPolicyAdapter` (`adapters/policy/`) | the policies of the file read at boot | `from_yaml_path`, `list_dataset_policies` | two forms of a file with different checks; the file changes under a running host | grants are those the file writes | `PolicyFile`, `PolicyCatalog` |
| Observability adapters | span stacks, metric registry | `start_span`, `end_span`, `record_*` | spans are keyed by trace | spans and counts fit the outcome | part of `UseCases` |
| Bootstrap, settings | none | read the environment, build a container | order of migration and policy at boot | a host that is not configured does not serve | parts of `AuditMigrator`, `PolicyCatalog`, `HostSettings` |
| `scripts/compose_e2e.py` | whether this run started the database container | up with retries, two probes, down, restore | two runs share one container and its port; docker fails; the test's timeout | who takes the database down puts it back; no failure without a cause; every run ends | `ComposeRuns` |
| `scripts/quality_gate.py`, `perf_baseline.py`, `secret_scan.py`; CLI; Docker seed | none | — | — | — | not modelled |

`PROJECT.json` lists the same components with their sources, and every hazard
found in the code at its line.

## 2. The modules

**`AuditLedger`** is the abstract promise of the audit trail: each call id goes
from absent to STARTED to one terminal status.  `Open`, `Close` and `Reap` are
its only steps.

**`SqliteAudit`** is the adapter.  A method is cut where another connection can
get in between.  `rows` is the committed table, `staged` the table as the
holder of the write lock (`writer`) sees it, `step` the place of each thread in
the method it is in, or what the method returned.  `SelectExisting` /
`InsertStarted` / `InsertDuplicate` / `Commit` are `start`; `UpdateStarted` /
`UpdateMissed` / `Commit` are `finish`; `SweepStale` / `Commit` are
`recover_stale_started`, with `cut` for its cutoff.  `Fail` is an exception at
any statement, by a lock that outlasts the busy timeout or by the disk; the
connection is then closed, which rolls back.  `Crash` ends all threads of a
process.  Time is `age`, the ticks since an execution took its `started_at`;
ages above `Stale` look alike to the code and saturate.
Of the row, the status and the execution that wrote it are kept.

**`UseCases`** EXTENDS `SqliteAudit` and adds the three `execute` methods: `pc`
runs through audit start, policy, catalog, rules, query, audit finish and
telemetry; the answers of the ports are choices.  An exception of a port leaves
`execute` (`Raise`): the row stays STARTED and the span open, as in the code.
Telemetry may raise as well: `start_span` before there is a row (`SpanRaises`), and
`_emit_query_telemetry` after the row is closed (`EmitRaises`), before the request is
counted, after that, or after the span has ended.  Only the `end_span` of
`_audit_unavailable` is in a `try` of its own.
`answer` is the envelope, `openSpans` and `counted` what telemetry holds.

**`AuditMigrator`** models both migrations statement by statement, the racing
boots of several processes and a ready host that writes rows.  `versions` are the
rows of `schema_migrations`; `rolledBack` is a history variable for one invariant.

**`HostSettings`** is the environment of an HTTP or SSE host and the checks of
`settings.py` on it.  **`HttpHost`** starts a host from such an environment, stops
and restarts it, and models the middleware in front of both HTTP hosts; origins,
body limit and slots are those of the environment it was started with.  The event
loop makes the checks up to `try_acquire` one step (`Refuse`, `Saturated`,
`Admit`).  The inner application sends its response (`AppResponds`) and returns
later (`AppReturns`), so a client may have its answer while the slot is still held;
or it is left by an exception, a cancellation or a closed stream (`Leave`), before
or after the response.  `release()` is in a `finally` around the application, so it
is part of `AppReturns` and of `Leave`.

**`QueryRules`** holds the pure part: `Verdict` (`validate_query_request` with
its checks in order, each an operator of its own), `PlanOf` (`_to_query_plan`),
`Compiles`, `ColumnsRead`, `PlaceholdersOf`, `ParamsOf` (`compile_query_plan`),
`DemoVerdict` and `DemoArgs` (the agent's check).  A name is a member of `Names`;
`SafeNames` are those the identifier pattern accepts; a value is a record of its
kind, the rank of its spelling and the rank of what it means, which is all the
checks look at.  `Fields` (what the policy grants and the view has) and `Columns`
(the query adapter's own list) are independent constants, as nothing in the code
ties one to the other.  The compiler's check of the physical table is left out: the
catalog adapter has refused such a dataset before.  `Text`, `Scalar`, `Null` and `Absent` stand for wrongly shaped
parts.

**`QueryPath`** takes one request from either door through policy, catalog,
rules, plan, compiler and MySQL to the envelope and the agent's answer.  At the
agent's door the model may ask for the tool with any arguments, refuse
(`ModelRefuses`) or fail, and the tool call may be lost on its way there or back
(`AgentRaises`).

**`PolicyFile`** says which policy files load and what they grant.  A document is
a sequence of entries in the form of a mapping or a list; `Entries` drops all but
the last of equal keys of a mapping, as `yaml.safe_load` does.
**`PolicyCatalog`** puts the loaded policy and the columns of the view together:
`file`, `host` (what was read at boot) and `view` change under the client's
`call`, which is cut where it reads the database: a listing once for each dataset
(`AskCatalog`), a query for its snapshot (`BeginQuery`) and for its statement
(`ExecuteQuery`).  The call keeps the fields a schema shows (`shown`), so that they
can be compared with the file.  `fieldOffers`, `datasetOffers`, `everVisible` and
`alwaysVisible` are history variables for the properties.

**`ComposeRuns`** models several runs of `run_full_e2e` on one machine.  `db` is
the shared container, `place` where each run is; every docker command and every
look at the port is a step.  `phase` tells the first `ensure_mysql_up` from the
one in the `finally`.  A docker command may fail or not even start (`UpRaises`,
which leaves `compose_up` at once), the container may stop, and the timeout of the
test may fire anywhere.  `disturbed`, `early` and `faulted`
are history variables.

`MC*.tla` give the constants of the instances.  `SqliteAuditProofs`,
`UseCasesProofs`, `AuditMigratorProofs`, `HttpHostProofs`, `QueryPathProofs`,
`PolicyCatalogProofs` and `ComposeRunsProofs` hold the theorems about the module of
the same name; `UseCasesProofs` stands on `SqliteAuditProofs`.  Operators marked `MUTANT` are plausible
mistakes in the definition below them; no specification uses them.  They
show that each property would notice.

## 3. The runs

| Run | Instance | What it shows |
|---|---|---|
| `audit_store` | two executions of one id in two processes, one recovery thread, disk errors, one death | the adapter implements `AuditLedger`; what returned is on disk; recovery spares rows that are not stale |
| `use_cases_own_ids` | a query and a schema call with their own ids, recovery, disk errors, one death | `AnswerMatchesLedger` and five more |
| `use_cases_recovering` | a listing and a query with one id, recovery called again and again, one death | at most one of them is answered or counted, every call ends, no row stays STARTED |
| `use_cases_as_shipped` | a query and a schema call with their own ids, no recovery thread, one death | **violated**: nothing closes the row of a call that died or raised |
| `migrator` | three processes, one of an operator, disk errors, two deaths | ready means a complete schema; upgrades keep rows; migrations end |
| `migrator_crash` | one process, one death | **violated**: a death between two statements of a script, or before the version row, parts the version row from the table; no method repairs the file |
| `host_slots` | three connections, hosts of one slot or two, restarts, 22 environments of which two are good, 20 kinds of request | only a good environment serves; the counter is right after any mix of endings and restarts; saturation by plain requests ends |
| `host_sessions` | the same with a session limit of one | **violated**: nothing limits SSE sessions |
| `query_path` | about 7,100 requests that vary a good detail and a good aggregate query, with granted fields inside and outside the adapter's list, up to 4 matches with limits up to 2, models and tool calls that fail | nine properties of the way of a query |
| `query_between` | the same | **violated**: the order of two instants is that of their spelling |
| `policy_catalog` | some hundred policy files around good ones in both forms, edits, boots, DDL, two datasets, three columns | a host grants what its file writes and nothing else; a listing is right for each dataset at some moment; every field a schema shows is granted; what a schema showed can be queried until it is withdrawn |
| `compose_runs` | two runs, three attempts each, docker failures, one timeout for each run | the database is back after the last run; a failure has a cause; every run ends |

**Bounds.**  Two executions are enough for every race of `start`, `finish` and
recovery over one row, since a row is the only thing executions share besides
the lock, and a recovery thread is the third party.  `Stale` is one tick where
the boundary "exactly stale" matters and zero where only the end does.  One
death per run lets every step be the one it strikes; the migrator has two, so
that a second boot can die over the leftovers of the first.  Three connections
for two slots make the limiter full, empty and in between.  Limits up to 2 and
four matches cover fewer rows than the limit, as many, one more (the probe row)
and more than that; every list of a request has an instance that is empty,
good, too long, wrongly shaped and badly named.  The lists have the lengths 1 or
2 as maxima instead of the code's, which the rules use only as bounds.  In
`policy_catalog`, files of up to two entries have every pair of a good entry and
one with a single fault, the views are none, one, the other and all columns, and
the two datasets make a listing that DDL can hit in between; one name is also a
sensitive word.  Two runs of the compose helper are enough for every conflict over
one container, and the attempts are the three of the code.

Bounds of the models themselves: `MaxCrashes`, `MaxMatches`; in `HttpHost` one
known body length (`Lengths`); in `PolicyCatalog` the files an operator may write
(`Edits`) and the projections of a client (`Projections`); in `ComposeRuns` the
container stops by itself only while nothing else has failed (`Stops`), and the
timeout of a test fires once for a run, as it does in pytest.

**Fairness.**  A begun execution is a running thread, so its own steps and the
adapter methods it calls are weakly fair (`FairSpec` of `UseCases`), as is the
clock; nobody has to begin a call, and no process has to die.  `RecoveringSpec`
adds a deployment that keeps calling `recover_stale_started`; no host of the
repository does, which is the finding of `use_cases_as_shipped`.  That run and `compose_runs`
are the only ones without deadlock checking: with every call done and the clock
saturated, or with every run over, there is nothing left to do.  In `AuditMigrator` the statements and the
busy timeout of a started migration are fair; a failing disk is not.
In `HttpHost` the middleware, the answers of the inner application and its returns are fair;
no client has to close its stream, and no operator has to start a host.
In `ComposeRuns` the steps of a run that has begun are fair, each command ends
well or badly, and a container that docker created boots unless it is stopped; no
failure and no timeout is fair.

**What the violations say.**  (1) `recover_stale_started` exists and is tested,
but no host calls it.  (2) A process that dies between two statements of a
migration's script, or between the script and the version row, leaves a file that every later `apply_upgrade` fails on and
`apply_rollback` does not touch.  (3) The SSE host builds a session limiter and
never opens a session in it.  (4) `BETWEEN` on instants goes by spelling.

Met while modelling and not given a run:

- Signed and signalling spellings of NaN (`-nan`, `sNaN`) pass the check for
  non-finite numbers (`rules.py:461`); as a BETWEEN bound they raise.
- Two first boots on one file make the slower one fail (same cause as 2).
- A saturated host answers 503 to `/healthz`, which its docstring calls liveness
  only; `/readyz` reports constants.
- The agent's check refuses the key `operation`, which the server takes.
- `ACCESS_POLICY_PATH`, documented in `README.md:122` and `.env.example:7`, is
  read by no code, nor are `AUDIT_STALE_STARTED_SECONDS` and
  `MYSQL_WORKER_LIMIT`; the hosts load the default policy file.
- A repeated key in a policy mapping silently replaces the first one, where the
  list form refuses repeated names.  Capabilities of a policy are parsed and
  never looked at; its `default_limit` and `max_limit` are validated and dropped,
  and the use case enforces constants of its own.
- One dataset over a table that the catalog adapter does not know makes the
  listing of all datasets fail.
- A field that the policy grants and the schema shows, but that is not in the query
  adapter's own list (`query_adapter.py:24`), is accepted by the rules and then
  raises in the compiler with the audit row open.  `AcceptedCompiles` says that
  this is the only cause for which the compiler refuses an accepted request, and
  `PromisesKept` excepts such fields.
- An exception of the telemetry after `finish` reaches a caller whose query has run
  and whose row is SUCCEEDED.
- `run_full_e2e` reports `cleaned_up` although `docker compose down` failed
  (`check=False`); a start that fails half way is never taken down; a run that
  finds the port of a starting server open takes it for a ready database; the
  timeout of the test inside the `finally` leaves the database down.
- The list and schema use cases start a span and end it on no path, and a port's
  exception leaves a query's span open, so `OtelTraceAdapter._stacks` grows with
  them; `AnsweredQueriesEndTheirSpan` is therefore about queries.
- When the model's second turn refuses after a query that succeeded, the answer
  carries the refusal beside a row count.

## 4. What is proved

Every theorem holds for all values of the constants that the named assumptions
allow.  In each module one invariant is inductive, the lemmas show for every action
that it is kept, and the properties of the runs follow from it.  The candidates
were checked by TLC on the instances first.

| Module | Inductive invariant | Theorems, with the property each states |
|---|---|---|
| `SqliteAuditProofs` | `AuditInv` | `AuditTypeCorrect`; `StartIsDurable` (`StartedIsDurable`), `FinishIsDurable` (`FinishedIsDurable`), `FreshRowsSurviveRecovery` (`FreshRowsSurvive`), `RowsCloseOnce` (`ClosedOnce` of `AuditLedger`), `SqliteImplementsLedger` (`ImplementsLedger`) |
| `UseCasesProofs` | `CallInv` | `UseCasesImplementStore`, `UseCasesKeepLedger` (`ImplementsLedger`); `CallTypeCorrect`; `AnswersAreOnRecord` (`AnswerMatchesLedger`), `AuditComesFirst` (`NoPortBeforeAudit`), `OneAnswer` (`OneAnswerPerCallId`), `UnavailableLeavesNothing` (`UnavailableIsNotRecorded`), `InTimeCallsKeepTheirRow` (`OnlyStaleCallsFail`), `SpansEnd` (`AnsweredQueriesEndTheirSpan`), `CountersAreCovered` (`MetricsNeverExceedLedger`) |
| `AuditMigratorProofs` | `MigratorInv` | `MigratorTypeCorrect`; `ReadyOnWholeSchema` (`ReadyMeansSchema`), `UpgradesKeepEntries` (`UpgradeKeepsEntries`) |
| `HttpHostProofs` | `HostInv` | `HostTypeCorrect`; `NoSlotLeaks` (`SlotsMatchRequests`) |
| `QueryPathProofs` | `PathInv` | `QueryTypeCorrect`; `AcceptedRequestsCompile`, `StatementsReadGrantedColumns` (`OnlyGrantedColumns`), `ParametersFitTheStatement` (`BindsMatchStatement`), `WritesNeverReachMySql`, `ResultsAreWindows`, `LimitFaultIsAlone`, `AnswersAreQuotes`, `AgentRequestsAreInLimits` |
| `PolicyCatalogProofs` | `CatalogInv` | `CatalogTypeCorrect`; `LoadedAsWritten` (`GrantsAreWritten`), `OnlyGrantedIsShown` (`NothingUngranted`), `ListingsAreBracketed` (`ListingIsBracketed`), `OffersAreKept` (`PromisesKept`) |
| `ComposeRunsProofs` | `RunsInv` | `RunsTypeCorrect`; `DatabaseIsPutBack` (`NotStarved`), `FailuresHaveCauses` (`FailsOnlyForCause`) |

**Audit store.**  `FinishedIsDurable` is not inductive: whether a commit may publish
`staged` depends on what happened to `rows` since the statement.  `AuditInv` adds
that the write lock is held by exactly the thread with a statement to commit, that
`rows` does not move under it, and that `staged` is therefore one insertion, one
compare-and-set or one sweep away from `rows`.  A commit is then an `Open`, a
`Close` or a `Reap` of the ledger, and everything else a stutter.

**Use cases.**  `StoreSteps` shows that an execution calls the adapter by its
protocol, so the composed system is a run of the adapter (`UseCasesImplementStore`)
and `AuditInv` may be used in it.  `CallInv` adds where an execution can be in
which adapter method (`PlaceInv`, `TargetInv`), and the idea the properties share:
an execution has *won* when its finish returned normally, and only the commit of
its own compare-and-set makes it win.  From that, at most one execution of a call id
has won (`OneWinner`), what won is on disk with its status (`OutcomeInv`), and a row
of an id that is not shared was closed by an execution that won, died or was left by
an exception (`SoleInv`), which is why AUDIT_UNAVAILABLE leaves nothing behind.  The metric is
bounded by an injection of the counted executions into the rows of their outcome.

**Migrator.**  `ReadyMeansSchema` needs the order of the statements: while nobody
has rolled back, the table, its index and the version row only ever appear, and
each process has seen or made what precedes its place (`SchemaGrows`).

**Host.**  The counter is compared with the number of requests inside, which a
restart sets to zero; so the invariant also says that a host that does not run has
nobody at its door.

**Way of a query.**  Lemmas say what `Verdict(p) = "accepted"` implies part by part;
`AcceptedPlanCompiles` (whose extra hypothesis is that the plan reads columns of the
adapter's list only), `CompiledReadsColumns`, `AcceptedReadsFields`, `AcceptedBinds`, `AcceptedLimit`,
`LimitAlone` and `AgentArgs` are what the path needs of them.  `PathInv` says what is
known at each place (a validated request was accepted, a result belongs to its
plan, a code to its request).  `AcceptedBinds` is about two lists put together
filter by filter, so it needs induction over the length of the list.  It is made by
hand: `CountUp` is induction over a set of numbers, from the least element of the
set of those it fails for; `FlattenExists` builds the function by which
`FlattenSeq` is defined; `PlaceholdersAddUp` compares the two recursions.

**Policy and catalog.**  `LoadedPolicies` and `LoadedGrants` are about `Loads` and
`PoliciesOf` alone: a document that loads grants each dataset once, in the mapping
form because the last of equal keys counts and in the list form because equal names
are refused.  `CatalogInv` says that a running host has the policies of such a
document, that every offer to the client rests on a visible field now, what a
call that has passed a check was granted, and that a listing under way has listed
or has still to ask for what was always visible.  That ids are unique is needed
everywhere: an offer for a dataset and the next call for it must mean one policy.

**Compose helper.**  `NotStarved` is about the end, so `DownInv` says for every
moment who will start a database that is down: nobody has begun to use it, or the
run that took it down is about to start it again.  `FailsOnlyForCause` needs
`ServedInv`: while a run has no excuse, the database it goes on to use is healthy.

**Assumptions.**  The named `ASSUME`s, which TLC evaluates for every instance.
Threads, processes and ids are typed (`ClientsAssumption`, `OperationAssumption`,
`MigratorAssumption`), bounds are numbers (`BoundsAssumption`), and executions,
connections and runs can be counted (`FiniteAssumption`, `HostAssumption`,
`ComposeAssumption`).  Granted fields are names, and the adapter's list, a constant of
the code, has plain identifiers only (`FieldsAssumption`; nothing is assumed about
how the two relate), `1 <= DefaultLimit <= MaxLimit` (`LimitsAssumption`),
wrongly shaped parts are no names (`ShapesAssumption`), and requests are of the JSON
shapes of `Payload`, where a value that is not an array is one literal
(`RequestsAssumption`).  The origins of an environment are blank or a set of sites
(`HostAssumption`).  `CatalogAssumption` types files and views; a client's query
names at least one field (`{} \notin Projections`), which `required_for_detail`
(`domain/rules.py:150`) makes sure of for the detail queries modelled there.  Of
SQLite it is assumed that there is one writer at a time and that a commit which
raises has left the file as it was.

**Only model-checked.**  The liveness properties `EveryCallEnds`,
`NoRowStaysStarted`, `MigrationsEnd`, `SaturationEnds` and `EveryRunEnds`: the prover
has neither fairness nor ENABLED.  And what the four runs find violated.

## 5. Not modelled

- Text of statements and messages, cell, type and JSON conversion, exporters,
  argument parsing and transports: I/O and layout without state that outlives a
  call.  Two real defects live there: `queried_at_utc` never moves, and an alias
  equal to a `group_by` field loses a column in the codec.
- `quality_gate.py`, `perf_baseline.py`, `secret_scan.py`: one process that runs
  commands one after another and reads files; nothing interleaves and nothing is kept.
- The demo container of `bootstrap/container.py`: its ports give canned answers.
- The stdio host: one call of `FastMCP.run`; its calls are those of `UseCases`.
- `LegacySessionLimiter.try_open`, `touch` and `close`: no host calls them, so a
  model of them would not be a model of the program.  What the SSE host does without
  them is the run `host_sessions`.
- The audit columns other than status, id and created_at, the histogram and the
  attributes of spans: written once and read by nothing in the code.

## 6. What could come next

The modules planned at first are written, and the safety properties of the runs are
proved.  What would be worth adding, in this order:

1. More about the pure operators: that the verdict on a request does not depend on
   fields it does not look at, and what `DemoArgs` changes of it, so that the
   two doors of `query_data` are shown to agree on every request that both take.
2. The safety half of the liveness properties: bounds on what a run may still do
   (attempts and places of `ComposeRuns`, statements of a migration) as decreasing
   measures, which leave only fairness to TLC.
3. An abstract specification of the limiter (a counting semaphore) that `HttpHost`
   implements, with the refinement proved.

Hazards without a property, and why, are in `PROJECT.json`: constants that nothing
could make vary (`/readyz`), layout that the models leave out (the codec, the
narrative of an answer), and behaviour the code does nothing against and promises
nothing about (an unnoticed `docker compose down` failure, a port that opens before
the server answers, a listing that one unknown table makes fail).
