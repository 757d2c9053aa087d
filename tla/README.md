# Formal models of the Stitch platform

TLA+ specifications of the backend (`src/backend`), the worker (`src/worker`) and the
administrators' application (`src/frontend/apps/stitch-admin`)
of the Stitch waste-management platform, checked with TLC on small instances and,
where marked, proved with TLAPS for every instance. Paths below are relative to
`src/`; `modules/` stands for `backend/modules/`, `admin/` for
`frontend/apps/stitch-admin/src/`.

## 1. The system

A modular monolith in FastAPI over PostgreSQL (READ COMMITTED), one bounded context
per directory of `modules/`, plus a Celery worker and several React frontends, of which
`stitch-admin` is the one that reaches every context. Contexts meet in three ways: integration events stored in an outbox table, direct
queries of each other's tables, and adapters that call another context's service.
The commercial pipeline is

    lead -> opportunity -> quotation -> contract -> service plan
         -> collection requirements -> routes, service orders -> manifest, invoice

| Component | State it keeps | Operations | Talks to | What is hard, and what makes it correct |
|---|---|---|---|---|
| Service plan (`service_plan/`) | plan row with status and version, schedule rows | create, update_schedules, publish, suspend, reactivate, terminate, pause, remove | contract events in, outbox out | optimistic lock with a version that not every write increments; two-statement load; schedules rewritten from a copy. The lifecycle, and what was planned, must survive races |
| Outbox (`core/infrastructure`) and worker (`worker/src`) | event rows: status, attempts, worker | save, lock_batch, mark_*, release_lock, retry, cleanup | every context, the handlers | concurrent polls, crashes between claim and outcome, retries. At least once, exclusive claims, bounded failures, nothing stranded but by a crash |
| Requirement synchronisation (`routing/application/handlers`) | one requirement row per schedule, with version | handle(Published), handle(Suspended) | service plan events | duplicates, concurrent deliveries, failures in mid-payload. One row per origin, no lost update, all or nothing |
| Quotations (`quotations/`) | quotation, items, price snapshots | create, add_item, calculate, submit, approve, reject, expire | pricing and catalog through gateways | no version, no lock. Prices and items stand; what a submission offers |
| Contracts (`contracts/`) | contract, versions, items | create, send_for_signature, activate | quotation listener, outbox | no version; redelivered approvals; two ways to activate |
| Logistics (`logistics/`) | service orders | dispatch, PATCH status, daily generation | routing, contracts, scheduler | a dispatch reads, commits a route, then writes the orders; PATCH writes any status. Orders stay on the route of the last dispatch that wrote them |
| Routes and planner (`routing/`) | routes, stops, resources | create, plan, start, complete, assign | fleet, logistics | a stored route cannot be read back (section 5) |
| Fleet (`fleet/`) | vehicles, drivers and their status | register, activate, deactivate | routing | |
| Billing (`billing/`) | invoices | monthly run | service orders | cannot run as the code stands (section 5) |
| Compliance (`compliance/`) | waste manifests | create, change status | service orders | check-then-insert |
| Commercial (`commercial/`) | leads, companies, opportunities | register, qualify, match, create and update company, change stage | itself, through one unit of work | a nested commit in a conversion called atomic; no version, no unique document. A converted lead has its opportunity; life cycles |
| Pricing (`pricing/`) | price tables, items, rules | create, update, toggle, add item, create rule, calculate | quotations | edits race with no lock; rules do not commute. The parts of a price add up, the most specific table is used, one item per service |
| stitch-admin: query cache and screens (`admin/pages`, `admin/shared/api`, react-query) | cached answers, requests in flight, pending commands, the screen | open pages and dialogs, press buttons, refetch, invalidate | the HTTP API of every context | answers that cross writes, aborted requests, handlers that die with their dialog, keys that match nothing. The user sees what he wrote; no screen hangs |
| stitch-admin: forms that fill themselves (`CustomerForm`, `AddCompanyModal`, `DestinationModal`) | fields, lookups in flight, locks | type, look up, pick, close, reopen, submit | BrasilAPI, ViaCEP, Nominatim | answers that land on another form, chains of lookups nobody cancels. Fields agree with their source; every lock is lifted |
| stitch-admin: session (`admin/shared/api/axios.ts`, `AuthProvider`) | tokens, tenant | log in, log out, 401 | identity | section 5: hardly a guarantee to state |
| Catalog, identity, tenant, audit, dashboard, facilities, gateway, other frontends, infrastructure | CRUD, views | | | no protocol between actors |

## 2. Modules

| Module | Models |
|---|---|
| `ServicePlan` / `MCServicePlan` / `ServicePlanProofs` | one service plan and the sessions working on it |
| `AtLeastOnce` | abstract: what an outbox promises |
| `Outbox` / `MCOutbox` / `OutboxProofs` | the outbox table, its repository, the workers; implements `AtLeastOnce` |
| `AtomicUpsert` | abstract: what Routing promises about its requirements |
| `RequirementSync` / `MCRequirementSync` / `RequirementSyncProofs` | Routing's consumer of service plan events; implements `AtomicUpsert` |
| `Quotation` / `MCQuotation` / `QuotationProofs` | one quotation and the requests working on it |
| `Commercial` / `MCCommercial` / `CommercialProofs` | leads, companies, opportunities and the requests working on them |
| `Pricing` / `MCPricing` / `PricingProofs` | price tables and rules, their administration, the calculation of a price |
| `Dispatch` / `MCDispatch` / `DispatchProofs` | service orders, the dispatches that put them on routes, PATCH |
| `QueryCache` | react-query as stitch-admin configures it, for any screens and commands |
| `AdminApi` | the generated client: the key of each query, what each mutation changes |
| `AdminScreens` / `MCAdminScreens` | each page, dialog and button of stitch-admin, over `QueryCache` |
| `LookupForms` / `MCLookupForms` | the forms that fill themselves in from public services |
| `AdminProofs` | proofs about `QueryCache`, `AdminScreens` and `LookupForms` |

Definitions carry the source's names in TLA+ spelling (`lock_batch` is split into
`SelectBatch` and `CommitBatch`, `update_schedules` is `UpdateSchedules`). A
definition whose comment begins with "Mutant of" or "A mutant" is not part of a specification: it
is a plausible bug, listed in `PROJECT.json`, that the named property detects.

### ServicePlan

A request is `LoadRow`, `LoadSchedules` (the relationship is `lazy="selectin"`, a second
SELECT that may see a later commit), then one command that ends in `Save`, or
`LockConflict`, or `Fail`. `Save` is one step: the UPDATE with its version guard takes
the row lock, and a competing UPDATE waits for the commit and re-evaluates its WHERE
clause; DELETE and INSERT of the schedules follow under that lock. (With the delete
going by plan id, no session can reach it without having won the UPDATE.)
The session's `row.version` is `_original_version`. Points and recurrences are
members of small sets, because the aggregate only asks whether they are missing
and whether the address is blank. `terminate`, `pause_schedule` and `remove_schedule` are
public methods of the aggregate without a service command yet; they are modelled as
requests like the others, since the lock has to protect them when they are wired.
`outbox` records the integration events really stored; `publish()` and `suspend()` build
the coroutine of the outbox write and never await it, so `DiscardedOutboxSave`
changes nothing.

### Outbox

The row has status, attempts and worker. `claimed` holds the row locks of the
transaction `lock_batch()` has open between its SELECT and its UPDATE; `batch` and
`outcome` are the worker's memory, lost in a `Crash`. `SelectBatch` returns any set of
the right size, as the statement has no ORDER BY. `delivered` and `failures` are history:
which events a handler took, and how often it failed since `attempts` was last reset.
The worker's task, `process_outbox()`, is a stub: Celery beat runs it every two seconds and it touches no row, so that a
stored event in fact stays PENDING. Its docstring announces the loop (lock, dispatch, mark) that is to call the
repository; that loop is `WorkerStep`, external to the code. The safety properties are about the repository's SQL under
every interleaving of such loops with crashes, releases and administrators; none says that an event *is* delivered. Only `outbox_crash` assumes that
the loop runs (`LoopRuns`), as the document it refutes does. `Stranded` are the rows nobody holds and nothing will take out of their
status: PROCESSING, and in no worker's batch. `StrandedByCrashes` bounds them by a batch for each crash. Crash, releases and retries have budgets. `heartbeat()` only writes
`locked_at`, which no code reads, and `exists()` and `find_by_event_id()` only read.
Each event has a generated id used once, so `Save` takes only new ones.

### RequirementSync

`Deliver` hands over an owed event nobody is handling; `Redeliver` is any delivery beyond
it, after or during another. The handler runs inside its caller's
transaction. For each schedule in the payload's order: `GetByOrigin`, then `Insert`,
`Skip`, `Update`, `LockConflict` or `Reject`. Sessions are created with autoflush off
(`backend/database/session.py`), hence a new row waits in `inserts` for the flush at `Commit`, where the unique constraint may refuse it
(`InsertConflict`); an UPDATE locks its row until the transaction ends, so sessions may
wait (`WaitsFor`), and PostgreSQL breaks a cycle (`DeadlockVictim`). `Off` is a schedule
that is paused, removed or not planned, `Unusable` one on which the handler
raises: `BIWEEKLY`, which Service Plan offers and Routing's `Frequency` does not know, or a
missing latitude. `AtomicUpsert` is the promise: a publication is applied in one step, over the rows of that step, or not at all;
only a schedule it does not want may be left alone, which happens when the delivery looked for its row before another
one created it (`Skip` after a stale `GetByOrigin`). Who calls the handler is not in the repository; what is assumed is at-least-once
delivery and a transaction per delivery.

### Quotation

`get_quotation_by_id()` runs three SELECTs (row, items, snapshots: selectin loading) and
`save_quotation()` merges the copy into the tables. Nothing locks or versions the row. `Save`
takes the reads of the merge, `Commit` is flush and COMMIT. SQLAlchemy's identity map
refers to loaded rows weakly: the row `session.get()` returns may be the loaded one or be
read again, hence the choice in `Save`; the flush writes the status only if it
differs from that row's. `PriceItem` is one call of the pricing engine, whose answer
`ChangeTariff` may change at any time. `disturbed` is history: sessions during whose
request another one committed.

### Commercial

Every command is load, act, `update()`, commit. `update()` runs a second SELECT, which the
identity map may answer with the row first loaded; hence the choice of `row` in `Update`,
and `Flushed` writes a column only if it differs from that row. `match_to_company()` is
`LoadLead`, then `FindCompany` or `CheckDocument` and `CommitCompany` (the nested commit of
`create_company()`, after which the session goes on in a new transaction), `Convert` and
`CommitConversion`. `origin` and the `lead` of an opportunity row are history. A lead is in
`Reachable` if it has an e-mail address or a phone number, which no command changes. `Disqualify` is a method
no service calls yet. `convert()` accepts a CONVERTED lead, which then has a second opportunity.
Documents may be duplicated under races and by `update_company()`, and life cycles
broken by stale copies, as nothing locks a row; hence the properties about requests that run
alone (`EndsAlone`). What holds in every race is `ConvertedHasOpportunity`, because the
lead and its opportunity are flushed by one commit.

### Pricing

One service in one unit of measure. An edit is `LoadTable`, then `UpdateTable`, `ToggleTable`
or `AddItem`, each of which saves and commits; the fields written depend on whether
`session.get()` finds the loaded row in the identity map (`Save`). A calculation is
`ReadTables`, `ReadRules`, one `ApplyRule` per rule, `Answer`. The database's order is left
open wherever the statement has none: among tables of the same scope, among duplicate items, among rules of
equal priority. An invalid period stored by `UpdateTable` makes the table impossible to
load (`Valid` in `LoadTable` and `ReadTables`), as rebuilding the aggregate runs the constructor's
validation. Simplified: a table and its items are read in one step; between the second
read of a saved row and its flush nobody else commits; one calculation at a time
(`Calculating`), as calculations share nothing that they write. Amounts are integers in a unit in
which the instance's percentages are exact, where the code has Decimal. SERVICE rules of the one service behave as GLOBAL
ones; CONTRACT rules can be stored and nothing selects them.

### Dispatch

A request is a dispatch without resources (`dispatch`), one with a vehicle and a driver
(`assign`, which is what the dispatch wizard always sends) or a PATCH. `Read` is the SELECT with the
checks, `CreateRoute` the nested use case with its own commit, `CommitOrders` the last loop and commit;
`mark_as_scheduled()` judges the status again, but on the values first read, as sessions have
`expire_on_commit=False`, and so adds no guard. `Scheduled` says which columns the UPDATE writes: those that
differ from the session's copy. `AssignResources` reads the route back, which raises (section 5): the
request ends with an empty committed route. `turns`, `turn` and `alone` are history. Orders start PENDING, as `ServiceOrder.create` makes them.
Workflow type and destination are columns PATCH also writes, which no code reads.

### QueryCache, AdminApi, AdminScreens

`QueryCache` is written for any screens, queries and commands. The server's answer to a query is
abstracted to a version. Per query there is the version shown, the request (`idle`, `asked`, `answered` and on its way)
and whether the last one failed; the screen decides which queries have observers. The rules of react-query
that matter here: opening a screen asks for everything it observes, since answers are stale at once
(`admin/main.tsx` sets no `staleTime`); leaving it aborts requests nobody else waits for, because the
generated functions pass the abort signal on; `refetch()` cancels a request in flight and asks anew, or joins the
first load of a query without data; `invalidateQueries()` refetches what matches the key and is observed.
`Modal` keeps its children mounted while it is closed, so the queries of `AddRouteModal` and `OfferingForm` are observed by their
pages; dialogs that are rendered only when open, or set `enabled`, observe theirs while they are open.
A command is `Issue`, `Apply` (the server commits), `Acknowledge` (its success handler runs where it still can)
or `Refused`, which also stands for a reply that was lost after the commit. A button is disabled while its request is
pending; three controls are not (converting a lead, dragging an opportunity, toggling a destination) and are two commands each in
`Handlers`. Simplified: a button pressed, left with its page and found enabled again on return waits for
its first request.

`AdminApi` has a definition per hook of `admin/shared/api/generated`: a query is its key, a mutation the
set of queries the server answers differently afterwards. `AdminScreens` gives each page and dialog the queries it
observes, and each button the data it needs, what it writes, and what its handler invalidates, refetches, leads to
and neglects. One member stands for all members of a list; one query is followed per behaviour (`EachKey`), since queries meet only
in the screen and the buttons and every property is about one query.

`ReadYourWrites` excepts what the code is known not to do, and nothing else (`Behind`): an answer read before
the write that a refresh joins or cannot reach (`Late`); a write acknowledged after the user left the page of its
button, or whose handler died with its dialog (`AttachButton`); and `neglects`, the list of leads on the page of the
sales wizard, which that wizard never refreshes. `SubmitAddRoute` and the dispatch wizard neglect the drivers likewise.
Pages read with `fetch()` instead of react-query (service orders, MTRs) are not in it; they read tokens under keys
nobody writes (section 5).

### LookupForms

A field's content is abstracted to the place it describes, or to `Typed`. The details of a company are one field, since an
answer replaces them all, blanks included; only the destination form's contact phone is a field of its own, as it is
set when the answer has a phone and kept otherwise (`LandDestination`). The company form
and the destination dialog have one lookup, the lead form a chain of three: CNPJ, CEP, coordinates. `Soiled` and `With` mark the
lookups under way whose form was touched meanwhile, and `stray` the fields that do not claim to follow
their source: those the user typed, those a failed lookup left, those written by a lookup that overlapped another or
an opening, and the phone an answer left standing. A lookup is touched when the field it *reads* is. `FilledFromSource` is about all others, and excuses a field only while a lookup is under way that will overwrite
it (`Landing`). The excuses are what the code lets happen: the chained lookups ignore the
lock that the fields' own `onBlur` respects, so two may overlap and the older answer win; and the destination dialog, which is
never unmounted, takes an answer asked for one destination into the form of another, and keeps the phone of
the company searched before when the next one has none (`DestinationModal.tsx:117-119`).

## 3. Runs

Each passing run is exhaustive; sizes are distinct states.

| Run | Instance | States | Shows |
|---|---|---|---|
| `service_plan` | 2 sessions, up to 2 schedules, a good and a blank point, 5 payloads, version <= 5 | 375,859 | `LockCoversStatus`, `LifecycleRespected`, `OperatedPlanIsExecutable`, `PlanningFrozenAfterDraft` |
| `service_plan_events` | the same | violation | `PublicationReachesOutbox` fails |
| `outbox` | 2 workers, 3 events, batches of 2, 2 attempts, one release, retry, crash | 401,083 | `BatchesOwned`, `ClaimsExclusive`, `FailuresBounded`, refinement `DeliversAtLeastOnce`, `StrandedByCrashes` |
| `outbox_crash` | the same with 1 event | violation | `WorkResumesAfterCrash` fails |
| `requirement_sync` | 2 sessions, 2 schedules, 3 publications and a suspension, 2 duplicates, 1 failure | 469,785 | `OnePerOrigin`, `SoleEventReflected`, refinement `AppliesAtomically`, `LoneDeliveryApplies` |
| `quotation` | 2 sessions, 2 items, 2 prices | 280,560 | `PricesStand`, `ItemsKept`, `LoneRequestFollowsLifecycle`, `LoneSubmissionFullyPriced` |
| `commercial` | 2 sessions, 1 lead, 2 companies, 2 opportunities, 2 documents, 3 stages | 502,869 | `ConvertedHasOpportunity`, `LoneRequestFollowsLifecycle`, `LoneCreationIsNew` |
| `commercial_conversion` | the same | violation | `ConversionIsAtomic` fails |
| `pricing` | 2 sessions, 2 tables, 2 items, 4 forms (one invalid), 3 rules, 5 contexts | 1,097,686 | `Balanced`, `RulesCompound`, `MostSpecificTable`, `LoneItemIsOnly` |
| `dispatch` | 2 orders, 3 requests | 112,856 | `RouteIsLatest`, `LoneDispatchTakesOpenOrders` |
| `admin_screens` | every page, dialog and button; each of the queries in turn; 2 commands, 2 changes of screen, 1 write of another client | 479,148 | `ReadYourWrites`, `NothingHangs`, liveness `Settles` |
| `lookup_forms` | 3 forms, 2 places, 2 stored destinations, 8 steps of the user | 427,658 | `FilledFromSource`, `SearchShown`, liveness `LookupsEnd` |

Why these bounds are enough. Every race in these components is between one
transaction and what others committed meanwhile, and sessions start over when they
end, so two sessions can put any number of commits into a third party's window one
after the other. A version bound of 5 admits publish, suspend, reactivate, suspend
within one stale request. Two schedules distinguish "one ready" from "all
ready" and give payloads an order to disagree on, and each of the two publications of `requirement_sync` wants off what the other
creates; three events with batches of two make a poll leave
one behind; two attempts reach RETRYING and DEAD_LETTER; four row ids are more than two
sessions can hold in pending inserts for two schedules. Two prices tell a
stored snapshot from a new one. Two companies and two documents suffice for a
duplicate, three stages for a change, a closing and a reopening. The three rules of
`pricing` do not commute: a discount of 150 % makes the price negative before an absolute
discount and a surcharge of equal priority, so that a discount counts as a surcharge and the
reverse. Three requests are two dispatches of the same orders beside a PATCH or a third dispatch, and two orders let them overlap
in part. In `admin_screens` a stale answer takes one command, one change of screen beside
the handler's own and one request per query; two of each let a second command and a detour through
another page happen inside the first. Two places tell an old answer from a new one, and eight steps are: open, type, ask, type, ask,
close, open anew, type. In `pricing`, the forms and contexts make tables of each scope apply together, begin
too late and be named by the caller. `commercial`, `pricing` and `dispatch` use symmetry of ids, which is sound as their
properties are safety properties and no id is distinguished.

Bounds that are not of the code: `MaxVersion`, `MaxReleases`, `MaxRetries`, `MaxCrashes`,
`MaxFailures`, `MaxDuplicates`, `MaxCommands`, `MaxMoves`, `MaxElsewhere`, `MaxActs`. In `ServicePlan` and `Quotation` a request may always fail
or be repeated, so deadlock is checked. `Outbox` and `RequirementSync` stop when every
event is settled and the budgets are spent, `Pricing` when every id is used and no table can
be loaded any more, `Dispatch` when every request has ended, `QueryCache` and `LookupForms` when the user has spent
his steps; there `CHECK_DEADLOCK` is `FALSE`.

Fairness. The passing runs check liveness of `QueryCache` and `LookupForms` only. There a request is answered or fails, and a promise that was
settled runs its continuation: that is what the browser, its network stack and react-query's retry give. Nothing is
assumed of the user, whose steps are bounded, nor of other clients. `Settles` would fail under a polling
interval, which no query of stitch-admin sets. The lookups have no timeout of their own: that a `fetch()` ends is the browser's.
`LoopRuns`, weak fairness of each worker's loop, is no promise of the code, whose loop is a stub. It is in the specification of
`outbox_crash` alone, where it makes the counterexample more than a loop that has stopped: even a worker that does all it
can never resumes a row left PROCESSING. No passing run uses it.

## 4. Theorems

The proofs hold for any sets of sessions, workers, events, schedules, items and prices,
and any bounds, from the named assumptions in the modules (None is not a
point, a price and so on; limits are natural numbers; a payload has one entry for each schedule).

- **ServicePlanProofs.** `LockCoversStatus` is not inductive: a session that loaded the row
  might hold a *later* version. `NoRowAhead` excludes it; `AbsentPlanUntouched` covers
  creation. Planning and readiness need `CopyCurrentAfterDraft`: once the plan is no
  longer a draft, a session that would win the version check holds the
  planning in the table. It is true although the two SELECTs are not atomic, because a
  schedule can be replanned only while DRAFT, and leaving DRAFT takes a new
  version; it is *not* true of pause and remove, which is why the property
  speaks of planning. `KeepingSave` and `BumpingSave` treat the saves that keep
  and that increment the version; the theorems on the lifecycle and on frozen planning
  come from the same step lemma.
- **OutboxProofs.** `FailuresBounded` is strengthened to `FailureCount`: rows that can
  be claimed and events whose handler is still to be called have room for one more failure. `OutcomesHeld`,
  `SuccessDelivered` and `NeverExpired` (no code writes EXPIRED, which `cleanup()`
  would delete undelivered) give the refinement: a step of `Outbox` is a step of
  `AtLeastOnce` or a stutter under the mapping of `Promise`. `OnlyCrashesStrand` needs that a worker holds no more than a batch
  (`BatchLimit`); then a crash strands what its worker held (`CrashStrandsBatch`) and every other step nothing
  (`StepStrandsNothing`). It counts rows, hence the assumption that `Events` is finite.
- **QuotationProofs.** For a session that nobody disturbed, `CopyCurrent` relates its
  copy to the tables and `SaveFollows` says where it may move them. `PricesStand` rests
  on the primary key of snapshots (`SnapshotConflict`) and `SeenStored`.

- **PricingProofs.** `PricesCompound` proves `RulesCompound`: at every step of a calculation the rules applied so far are
  compounded, by descending priority, on the base price, and no rule still waiting outranks one of them. `Calculated` ties the
  running price to the fold, which `Compound` defines as a recursive function; `CompoundMore` unfolds it once.
  It needs induction over the number of rules applied. The library's induction theorem takes an operator, so
  `NaturalsByInduction` states it for *sets* of numbers, from the library's theorem on minimal elements. `Balanced` needs only types beside itself: the base is the product of a
  stored price and a quantity, a rule applied to any amount gives an amount
  (`ApplyIsAmount`), and the engine books each difference in full on exactly one side
  (`DifferenceIsBooked`). `FlushIsForm` shows that mixing columns of a copy and a row still gives a row.
  `LoneItemIsOnly` rests on `ItemsKnown`: a session nobody disturbed knows all items of its table. `MostSpecificTable`
  is a fact about `BestTables` alone (`BestIsMostSpecific`), by cases on customer and region.
- **RequirementSyncProofs.** `OnePerOrigin` and `UpdatesFollowVersions` need to know how rows, reads, locks and inserts
  fit together: no two transactions have updated the same row (`Apart`), so that what is committed of a row somebody has
  updated is still what that UPDATE replaced (`WritesSound`); a row read is the committed one or older, and the same if
  their versions agree (`ReadBefore`); no write is for a schedule still to be handled (`WorkSound`), because a payload has
  one entry for each (`PayloadAssumption`). `SoleEventReflected` and `LoneDeliveryApplies` follow from `Progress`: in
  the table as a commit would make it (`After`), every schedule already dealt with is as the payload wants it. It holds of
  a delivery nobody disturbed, and of every delivery of the only publication applied so far unless the
  constraint will refuse it (`SoleSound`), for what the other deliveries commit is what this one wants too
  (`ProgressSurvives`).
  `ImplementsAtomicUpsert` needs more than `WritesSound`: what an open transaction holds for each schedule dealt with (`Holds`) is
  a revision, with the contents the payload wants, of the row that is *still* the committed one, because the row lock keeps
  it so (`LockedStays`); or a row to create; or nothing. `CommitUpserts` then reads off each case what the commit does to the rows of
  that schedule, `CommitElsewhere` that it does nothing to others. `UpdatesFollowVersions` is a consequence of the
  refinement and proved by itself.
- **CommercialProofs.** `RequestSound` says what a request holds at each point, and that a CONVERTED copy is only about to be
  written where an opportunity is about to be inserted; with it `ConvertedHasOpportunity` is inductive, since companies and
  opportunities are never taken back (`TablesGrow`). `Accurate` says that what an undisturbed request decided on is still so, and
  gives the properties of lone requests. `ContinueKeeps` and `CommitKeeps` treat steps in memory and ends of requests.

- **DispatchProofs.** `RouteIsLatest` needs that only a finished dispatch has had its turn and that a
  dispatch which may write has committed its route; `LoneIsCurrent` keeps the judgement of a
  dispatch nobody disturbed true until it writes. `NoTurnKeeps` treats all steps that leave routes alone.
- **AdminProofs**, the cache. `NothingHangs` is inductive with `ServerHolds` and `AnswersReal` (an answer on its way has data).
  `EnteringMounted` is the heart: a query that rests on the screen entered had rested on the screen left.
  `WritesAreRead` proves `ReadYourWrites` for any tables that satisfy `HandlersRefresh`, a condition on handlers
  alone: on every screen where it runs on its own page, a handler refreshes what its command writes and the screen
  observes, but for what it neglects. It is what to keep true when a screen is added. It is no assumption of `QueryCache`, so that
  `admin_screens` finds a handler that breaks it by its effect.
- **AdminProofs**, the screens. `AdminHandlersRefresh` proves that condition of the handlers in the tables of `AdminScreens`. A handler
  concerns only the screens of its page (`PagesOfScreens`), so that `RefreshesPages` reduces it to comparing, page by page,
  the keys written, observed and invalidated. `AdminShowsWrites` puts the two together: `ReadYourWrites` on stitch-admin as it
  is, for any number of commands, moves and foreign writes. The hypothesis `AdminTables` says only
  that the constants of `QueryCache` are those tables.
- **AdminProofs**, the forms. `SearchShown` and `FilledFromSource` need that lookups under way are numbered apart (two may be alike but
  for their number), read and write fields of the form shown (`FieldsBelong`), that at most one company is looked up at a time
  (`LoneCompany`), and that a lookup nobody soiled was asked for what its source field still holds (`CleanIsCurrent`). With it, an answer that
  lands makes its field follow its source again, and one that soils the next lookup leaves a field that is stray
  or about to be overwritten (`FieldsFollow`). `CompanyAloneKeeps` and `CompanyChainedKeeps` treat the company whose answer starts no
  other lookup and the one that brings a CEP.

Model-checked only: `Settles` and `LookupsEnd`, as liveness and ENABLED are out of the prover's reach. Every
safety property of the passing runs is stated by a theorem. RECURSIVE operators are out of reach too; no module uses them.

## 5. Where code and documentation disagree

Numbers 2, 3 and 5 are runs that TLC finds violated.

1. `service_plan/domain/entities/service_plan.py:81-82` says the version check "correctly
   detects concurrent edits even for update_schedules()". Two edits of a draft load the same
   version, neither increments it, and the second overwrites the first. The integration test
   that claims to prove it (`test_optimistic_locking_integration.py:105`) lets the
   other session publish, which does increment it.
2. `service_plan_service.py:104` and `:125` never await the outbox write, against
   `backend/docs/architecture/boundary_checklists/contract_checklist.md:14`
   (`contract_service.py:133` does the same).
3. `docs/deployment/disaster_recovery.md:8` promises that a restarted worker resumes where it
   stopped; rows left PROCESSING are never selected again.
4. `quotation.py:156` requires every item of a submission to be priced; a concurrent
   `add_item()` gets round it.
5. `lead_service.py:77` says "All operations execute atomically"; `create_company()` commits
   in the middle (`company_service.py:38`), and a retry is then refused because the document exists.
6. `docs/business/pricing/aggregate-design.md:15` wants a table's end after its beginning;
   `update_price_table()` does not validate, and afterwards the table can be neither
   loaded nor repaired, and `list_price_tables()` raises for its tenant.

Noted while reading, without a run (1, 4 and 6 above likewise): `process_outbox()` (`worker/src/tasks/outbox_processor.py:8-19`) announces
a polling loop and does nothing, so stored events stay PENDING; `integration_events.py:41-42` says Routing should pause
on a suspension, whose handler is a placeholder; `publish()` "validates all active schedules are ready"
(`service_plan.py:9`) but asks for one (`:203`); "version is incremented on every state-mutating
operation" (`:10`) but not by update, pause or remove; `cleanup(older_than_days)` ignores
the age; `QuotationService.approve` collects the approval's events and drops them (a TODO), so the
pipeline from quotation to contract is not connected; without a lock the
statuses of two racing quotation requests may overwrite each other, so the quotation's
lifecycle is stated for requests that run alone; the engine assumes that "DB invariants prevent
overlapping dates" (`price_calculation_engine.py:88`) where there is no such constraint; two publications of a plan
that are delivered for the first time side by side may each skip what the other creates
(`service_plan_published_handler.py:141`), and leave requirements that neither of them wants together.

Paths that raise before they reach the behaviour worth modelling, as the code stands, and
are therefore left out or modelled at their interface:

- `pricing_gateway_impl.py:36` reads `applied_rule_ids`; the result has `applied_rules_ids`. `Quotation`
  models the port that the service calls.
- The gateway instantiates the abstract `OutboxRepository` for service plan and contract
  routes; the provider of the contract service leaves out `event_factory`; `ActivateContractHandler` calls a
  repository method that does not exist; nothing but tests subscribes `quotation_approved_listener` or
  `contract_activated_handler`. So no contract is stored or activated through the API. Were it connected, each delivery of
  QuotationApproved would create another contract and each ContractActivated another plan,
  `contract_service.py:133` would lose the event, and `contract_repository.py:196` would let a late
  send_for_signature() undo an activation.
- The daily order generation passes `destination_id`, which `ServiceOrder.create` does not
  take, and reads `contract.service_schedule`, which does not exist. Its check for an order of the day and its
  insertion are not atomic, and every replica of the API runs it.
- `Invoice` leaves the abstract property `version` unimplemented, so billing creates none; nothing marks
  an order as billed.
- `SQLAlchemyRoutingRepository._to_domain` (16-36) builds a `Route` without its status, so no stored route can be read:
  listing, planning, starting and assigning fail once there is one, and a dispatch with resources leaves an
  empty route and a 500. `POST /routing/routes` lacks the tenant dependency and always answers 400;
  `routing_optimizer` selects from a class that is not mapped.

In stitch-admin:

- Five forms invalidate `listXApiV1...Get`, the name of the operation and the key of no query (`CustomerForm.tsx:129`, `OfferingForm.tsx:46`,
  `EditOfferingModal.tsx:44`, the attribute and the unit forms). The refetch of the page that hosts them hides it.
- `EditOfferingModal` can be closed while its request is pending; its handler then never runs.
  `AddRouteModal` and the dispatch wizard never refresh the drivers, the sales wizard nothing.
- A write acknowledged after its user left the page leaves that page's data as it was until it is opened again.
- The lookups: two of the same kind may overlap and the older answer win; a failed geocoding keeps the old
  coordinates with the new address; saving does not wait for lookups; an answer may fill another destination's form; a second search
  there keeps the first company's phone when the second has none (`DestinationModal.tsx:117`), and one in the lead form
  the first company's CEP and address when the second has no CEP (`CustomerForm.tsx:47`).
- The sales wizard (`AtendimentoWizardPage.tsx`) reads `.id` of a response that has `quotation_id`, so every later
  step fails; it shows 1500 as the price and "Cotação Gerada com Sucesso", and ends with "Contrato gerado com
  ressalvas" and no contract.
- `AddQuotationModal` asks `/api/v1/logistics/distance` at the application's own origin without a token: the freight is never computed.
- Session: leaving by "Sair" keeps the tokens, `logout()` is never called, a 401 removes the tokens but not the
  tenant, a late 401 removes the tokens of a login made since (`axios.ts:41`), and the refresh token is never used. The pages of
  service orders and MTRs and the billing tab read the token under names nobody writes.

## 6. Plan

Done: the service plan, the outbox with its abstract specification, requirement
synchronisation with its abstract specification, quotations, commercial, pricing, dispatch, and the administrators' application with its query cache and its
self-filling forms; proofs of every safety property of these.

Next, in this order:

1. Abstract specifications of `Quotation` and `Dispatch` as requests that run one after the other, to say exactly what a
   race may leave behind, as `AtomicUpsert` does for deliveries.
2. `Contracts`, composed with `Outbox`, once the code can store a contract: activation through the unit of work, redelivered
   approvals and activations; abstract specification: a plan for every active contract.

### Not modelled

- **Contracts, routes and planner, fleet, billing, daily generation.** As section 5 lists, these paths raise before
  they change state, so a model of their protocols would be of a program that does not exist. Compliance is one unguarded
  check-then-insert, of which there is nothing to check but that it fails.
- **Session of stitch-admin.** There is no property to state that the code means to keep; section 5 lists what it does.
- **Catalog, identity, tenant, audit, dashboard, facilities, the gateway.** CRUD, views or I/O without a protocol between
  actors; their answers take part in `AdminScreens`.
- **The other frontends, shared visual components, infrastructure.** Views, styling and deployment files.
