# QueryMind, in TLA+

QueryMind answers questions in natural language about a user's database: it asks an AI
provider for SQL, validates it, runs it and shows the rows. This directory models its
stateful core in TLA+, checks the models with TLC on small instances, and proves the
most important results with TLAPS for every value of the constants. Every definition is
translated from the code under `src/`; `PROJECT.json` names its lines.

## 1. The system

```
 browser (querymind_ui) --HTTP--> gateway (NestJS, querymind-gateway) --HTTP--> querymind-service (FastAPI, 4 workers)
                                    | users (PostgreSQL), counters (Redis)         |            |             |
                                    | circuit breaker in memory                 PostgreSQL    Redis       RabbitMQ --> rabbitmq_consumer.py
                                                                              connections,   sessions,        |
                                                                              query_history  schema and       v
                                                                                             SQL caches    PostgreSQL, Redis
```

| Component | State | Operations | What makes it correct |
|---|---|---|---|
| Circuit breaker and client (gateway) | `state`, `failureCount`, `lastFailureTime` per process | `canExecute`, `recordSuccess`, `recordFailure` around each call | fields agree; no call while it cools down; it recovers |
| History pipeline | `_channel`; queues; deliveries; rows of `query_history` | publish, fallback, deliver, persist, acknowledge | no answered query lost without a cause; duplicates bounded |
| Schema cache | `schema:{session}:{table}` and `schema:{session}:__index__` in Redis | look up, introspect, write key by key, refresh, expire | what a reader gets, the database has said; staleness ends |
| Ask endpoint | `query_cache:{sha}` in Redis; a request's schema and SQL | look up, generate, cache, validate, execute | an invented table that validation sees is never executed; failures have a cause and pass |
| Connections | rows of `connections`; `user_connections:{user}` in Redis | list, add, soft delete | the list agrees with the table |
| Sessions | `session:{id}` in Redis, one hour | connect, schema views, close | a closed session serves nothing |
| Accounts and tokens (gateway) | rows of `users`; signed tokens; the user object a request holds between awaits | register, log in, refresh, update, soft-delete | one row per address; a token's user exists; a server error has a cause; access ends |
| Proxy controller, pipe, guard (gateway) | none but the breaker's | check, forward with the user's id, reply | bad requests do not cut off good ones; every request ends |
| Life of the gateway process | open connections; the server | SIGTERM, close, forced exit, restart | it ends when told to |
| Sign-in (UI) | `authStore`, token storage, forms under way | log in, register, sign out, refresh at start | tokens are those of the user shown; forms come back |
| Query page (UI) | `queryStore`, the page's loading flag, the pager | open a session, ask, re-run, turn the page, leave, reload | the session is the page's; questions do not race; loading ends |
| Dashboard (UI) | list, modal, deletions and saves under way | fetch, test, save, delete | the url saved is the one tested; the cards differ from the service only as the list did |
| Rate limit (gateway), reachability probe, Celery application | see section 6 | | |

The components interact by HTTP (browser, gateway, service), by messages (service to
consumer), and by shared Redis keys and tables (all worker processes and the consumer).
There are no locks: every `await` is a point at which another request of any process may
run. The pages of the browser are concurrent in the same way: a request outlives the page
that sent it, and its answer is written into a store that all pages share. What is hard is
therefore interleaving (several requests on one cache), stale state (caches with a time to
live next to a database that changes), partial failure (exceptions caught in the middle of
a handler), redelivery, and answers that come late.
`PROJECT.json` lists each hazard at its line.

## 2. Modules

| Module | Models | Proofs |
|---|---|---|
| `BreakerContract` | what callers rely on: failures in a row and the pause after the last one, without the three states | |
| `CircuitBreaker` | `circuit-breaker.service.ts` and `executeWithResilience` of `querymind.client.ts`; implements `BreakerContract` | `GatewayProofs` |
| `QueryHistory` | `rabbitmq_client.py`, the broker (external), `rabbitmq_consumer.py`, `_async_persist` | `QueryHistoryProofs` |
| `SchemaContract` | what those who ask for a schema rely on: descriptions read since they asked, or cached ones the database once had; no keys, no order of reads and writes | |
| `SchemaCache` | `introspect_and_cache`, `get_cached_schema`, `refresh_schema`, the consumer's introspection, expiry, the deletions of `close_session`; implements `SchemaContract` | `SchemaCacheProofs` |
| `AskQuery` | `/query/ask` from the cached schema through `generate_sql`, `validate_sql` to `execute_query` | `AskQueryProofs` |
| `Sessions` | `connect_session`, `close_session`, `_get_connection_string_for_session`, expiry, the consumer's late introspection | `SessionsProofs` |
| `Accounts` | `users.service.ts`, `auth.service.ts`, `auth.controller.ts`, the unique index of the migration | `AccountsProofs` |
| `Gateway` | guard, ValidationPipe, `proxy.controller.ts`, the client and its breaker (it extends `CircuitBreaker`), replies, and the end of the process in `main.ts` | `GatewayProofs` |
| `SignIn` | `LoginPage`, `RegisterPage`, `authStore`, the refresh of `App` | `BrowserProofs` |
| `QueryPage` | `QueryPage`, `queryStore`, the buttons of `QueryInput` and `HistoryPanel`, the pager of `ResultsPanel` | `BrowserProofs` |
| `Dashboard` | `DashboardPage`, `AddConnectionModal`, `ConnectionCard`, the user's connections in the service | `BrowserProofs` |
| `ConnectionCatalog` | `get_connections_for_user`, `add_connection`, `soft_delete_connection`, the commit in `get_db` | `ConnectionCatalogProofs` |

`MC<module>` gives a module its small sets; `MCBrowser` does so for `SignIn`, `QueryPage` and
`Dashboard`. Definitions marked *mutant* are changes to
the code that the properties must notice; they are no part of the specifications.
The definitions of `CircuitBreaker`, `SignIn`, `QueryPage` and `Dashboard` bear the
component's name where others would clash (`SignInInit`, `QueryPageTypeOK`), so that
`Gateway` can extend the breaker and one module of proofs all three parts of the browser.

### Correspondence

* A process or request is a function value (`pc[w]`, `phase[r]`). An action is the code
  between two `await`s, all of it; the branch taken at an `await`'s result is the next
  value of `pc`. Where several lines between two `await`s only compute, they belong to the
  action that ends at the next `await`.
* `Tasks` are slots for concurrent requests of all processes. A slot whose request is over
  returns to its initial local state, so a behaviour has any number of requests though
  only `|Tasks|` at once. `Calls` of the breaker work the same way; the requests of
  `QueryHistory` happen once each, because they name their message and their rows.
* `Abandon` is an exception at an `await` (Redis, database, provider) or a crash of the
  process: what was written stays, the rest of the handler does not happen.
* In the browser an action is a callback up to its next `await`; a component that is
  unmounted loses its own state, the store keeps its, and the request goes on.
* Keys with a time to live may expire at any moment after they are set. That includes
  every real schedule of expiries and more (no clock is modelled), so an invariant that
  holds is real; each counterexample kept as a finding needs only an order of expiries
  that the times to live of the code produce.

### Abstractions

* **CircuitBreaker**: the clock is `age`, the ticks since the last failure, saturated at
  `ResetTimeout`; the failure count is saturated at `Threshold`. The code compares both
  only with these bounds. Each call remembers (`probing`) whether it was admitted in
  `HALF_OPEN`; only the property about test requests reads it.
* **QueryHistory**: a record is its request. A handler whose delivery was taken back goes
  on as an *orphan*. `swallowed` remembers requests whose failed write was caught.
  `Prefetch` is per consumer of a queue, as RabbitMQ applies it. A publish may fail with the
  broker up as well as down, and the service may end at any moment, orderly or not.
* **SchemaCache**: a table has one of a few `Forms`. An introspection is no snapshot: it lists
  the tables, then asks for each table's columns and after that for its keys (primary and
  foreign keys, indexes, rows: the queries after the columns count as one), and each query
  sees the database as it is by then. So a description is a pair of forms, a task may gather
  a schema the database never had, and it fails when a listed table is gone. `entry`
  distinguishes a key that expired from one never written, `since` remembers how long the
  database's history was when a task began. The schema that `/connections/add` caches under
  the *user's* id to count tables is another instance of the same module, whose tasks are all
  of the kind of the consumer's.
* **AskQuery**: SQL is a pair: the tables `validate_sql` sees (one bare name after each `FROM`
  and `JOIN`) and those the database looks for. They differ for comma lists, for quoted and
  for schema-qualified names. SQL that validation refuses for other reasons sees `Bad`, SQL
  only the database refuses reads `Wrong`; a name that validation takes for a table and that
  is none (a `WITH` name, the column of an `EXTRACT`) counts as a bad answer of the provider.
  The cached schema is the set of listed tables still cached; its keys are read in one step
  and written in one, as `SchemaCache` has the steps between. The conversation history is left
  out: its key is read at `query.py:57` and written nowhere. `ever` and `disturbed` are
  history variables.
* **Sessions**: `connect_session` draws a fresh id; its check of the connection is left
  implicit, as `db.get` also finds deleted rows and the user's own rows stay. What a question does
  after resolving its session is one step, the caching of the schema (`AskQuery` and
  `SchemaCache` have the rest). `ended` and `late` are history variables.
* **ConnectionCatalog**: lists are sets. An empty cached list is a miss, as in the code.
  The serialisers of `ConnectionResponse` make a cached list equal to what was read.
* **Accounts**: addresses are those the DTOs leave (trimmed, lower case), a password is
  right or wrong. TypeORM's `save` of a loaded user writes the columns that differ from the
  row, `deleted_at` included, so an update that overtakes a deletion undoes it. `save`
  selects the row again before it updates it; both are one step (`Save`), because what a write
  in between leaves is what the two writes leave one after the other in one of the orders. No
  route calls `softDeleteUser`; as an operation of the service it may happen at any time.
  `rival` is a history variable.
* **Gateway**: a request is its route, whether its fields are right, missing or foreign to
  `ForwardRequestDto`, and whether its token is good. The service answers what it serves
  with 2xx and the rest with 4xx, unless it is down, slow or failing (a timeout, any 5xx);
  `Served` says what it serves today. `troubled` is a history variable. `Gateway` extends `CircuitBreaker`, so
  the breaker's actions are the ones checked and proved there.
* **SignIn**: tokens are the account they were issued for. Whether tokens are about to
  expire is decided in `lib/api`, which is missing from the repository, and left open.
* **QueryPage**: a session is its connection, a result the number of its pages. A re-run
  only fails, because the service has no `/query/execute`. The entries of the history are
  left out, and so is a change of route from one query page to another that keeps the
  component: no link of the UI leads from one to another, only a jump in the browser's
  history does.
* **Dashboard**: the connections of the service change by this page's requests and by
  `ChangedElsewhere`. The list a page is answered may come from Redis and be out of date;
  `gap` is by how much the latest one was. A card whose `table_names` is missing makes
  rendering throw; React then removes the whole page (`blank`).

## 3. Runs

Each run of `PROJECT.json` and its bounds; every bound is a constant or a set in an `MC`
module.

| Run | Instance | Shows |
|---|---|---|
| `breaker` | 3 concurrent calls, threshold 3, pause of 2 ticks | fields agree (`Consistent`), no call goes through while the breaker cools down (`FailFast`), it implements `BreakerContract`, it recovers (`Recovery`) |
| `breaker_probe` | same | violated: "allow one test request through" |
| `history` | 2 requests of 2 queries and an opening of a session, prefetch 1, 2 faults | answered queries are accounted for, rows bounded by faults, nothing waits for ever; an opening leaves a row only by its fallback |
| `schema` | 2 tables that come and go, 2 tasks, 1 change | the index is backed by tables; every answer is one of `SchemaContract` |
| `schema_fresh` | 1 table of 2 forms, 2 tasks, 1 change | a refresh answers what the database has said since it was asked, in the order it was read; a stale schema does not stay |
| `ask` | 1 question, 2 requests, 2 tables, 1 change, 7 texts of SQL | tables that validation sees are real; failures have causes; bad SQL does not stay in the way |
| `ask_phantom` | same | violated: the table exists before execution |
| `sessions` | 2 sessions, 2 requests | an ended session serves no later question; every session and its schema are released |
| `catalog` | 2 connections, 3 requests | the list agrees with the table serially, and in the end always |
| `accounts` | 2 users, 2 addresses, 2 requests | addresses unique, tokens of rows, errors with causes, only an update under way undoes a deletion, access to a deleted user ends |
| `browser` | one of: sign-in with 2 accounts and 3 forms under way; query page with 2 connections, 2 openings, 2 requests, results of up to 4 pages; dashboard with 2 connections, 2 urls, a save | store and storage agree, tokens are the shown user's, forms come back; the page's session is its own, questions do not race, the pager stays on the result, loading ends; the saved url is the tested one, the cards differ from the service only as the latest list did |
| `gateway` | 2 requests at a time on 3 kinds of route, threshold 2, pause of 1 tick | refused requests never open the breaker; requests and the process end |

Why the bounds suffice. The races are between two tasks: one that has read and not yet
written, and one that writes in between; two slots, used again and again, hold every such
pair. With three calls and a threshold of three the breaker opens while no call is left
over, re-opens from `HALF_OPEN`, and is closed by answers of calls admitted before it
opened.

The schema cache with all of its reads is too large for one instance, so there are two.
Partial schemas and interleaved writes need two tables and two tasks (`schema`; that
tables come and go is a change to a reader, as the code compares nothing). What one query
sees and the next does not is already mixed in the description of one table with two
forms, and staleness is an entry behind the database and a task that may still write one:
one table and two tasks (`schema_fresh`). The texts of `ask` are one of each sort: all
tables seen, some or none seen, a wrong column, no `SELECT`.

The parts of the browser have no variable in common and no property is about two of them;
what holds of each part on its own holds of all their interleavings, so a behaviour of
`browser` moves one part only. A dashboard with three connections and two saves is left to
the proofs.

Two queries and a prefetch of one make a message wait for another's acknowledgement
(`MaxRequests` lets any two of the three requests happen); two faults are a redelivery
that fails again. A race on an address needs two requests and a second address to change
to; what a third request adds, the reused slots already do. A late answer in the browser
needs one request of a page that is gone and one of the page shown; two slots hold both,
three where a form can be on its way from each page and be sent again. The routes of the
`gateway` run are one of each kind: served, refused by the DTO, refused by the service. A
threshold of two lets one failure be forgiven.

In `accounts`, `browser` and `gateway` history variables (`rival`, `late`, `overlap`,
`crossed`, `newer`, `edited`, `astray`, `gap`, `troubled`) name the exceptions of a
property. Each is a real defect listed in section 5, or a change made elsewhere: the
property says that nothing else breaks it. `gap` is not a flag but a set, so `CardsAgree`
says that even then the cards are wrong about those connections only.

The type invariants of `Gateway`, `Dashboard`, `SchemaCache`, `QueryHistory` and `Sessions`
are proved (section 4) and therefore in no run; the other modules' are both run and proved.
Symmetry is used in `schema` only, which checks safety.

`CHECK_DEADLOCK FALSE` stands only in the history run: the requests are finitely many,
and when all are over and recorded the model may stop.

### Fairness

Safety properties are checked and proved without fairness. The liveness properties use
weak fairness of

* the steps of a call or request that has begun: `asyncio` and Node run every ready task,
  and the HTTP clients, drivers and `statement_timeout` bound each wait (in `AskQuery`
  *or a failure*, since the property assumes that failures stop in the end);
* in the browser, the answers of requests: the browser reports an error when there is none;
* in the gateway, the steps of a request (axios gives up after 30 s) and the timer of the
  forced exit; nothing makes clients close their connections;
* time (`Tick`) and the expiry of keys and tokens: Redis and
  the JWT library take nothing past its time;
* the broker's delivery of ready messages, and the restart of the broker and of the
  consumer, which `docker-compose.yml` demands (`restart: unless-stopped`).

Nothing makes a client send a request, the broker fail, a message expire in the broker,
or the service restart; `Recovery` assumes that calls go on and succeed, `EventuallyServed` that the question is
asked again and again and that changes, failures and refreshes end, `EventuallyAgrees`
that the table stops changing.

## 4. Proofs

All proofs hold for every value of the constants under the named assumptions of each
module (for instance that a threshold is positive, that stand-ins are no elements of the
sets they extend).

* **CircuitBreaker.** `Consistent` (CLOSED means fewer failures than the threshold; OPEN
  means that many and a time of the last failure) is inductive with the types and carries
  the rest: `FailsFast`, since a call is admitted in OPEN only after the pause, and
  `BreakerImplementsContract`, a refinement step by step with the states mapped to the
  count and the time.
* **Gateway.** A step of the gateway is a step of the breaker, or leaves it alone, or ends
  or starts the process (`StepOfBreaker`); so `FieldsAgreeInGateway` and `GatewayFailsFast`
  follow from the lemmas of the breaker alone. It does not implement `BreakerContract`,
  since a new process has forgotten the failures; `GatewayKeepsContract` says that this is
  the only exception. `TypeOK` needs `Consistent`. `SoundRequestsAreServed` needs
  `Admitted` (the controller only has requests that passed guard and pipe) and
  `Untroubled`: without trouble the breaker is CLOSED, has counted nothing, and no call
  under way will fail.
* **QueryHistory.** `NoSilentLoss` strengthens `AccountedFor` by `Settled`: a message
  whose handler has finished or that was acknowledged is recorded or was swallowed, so
  acknowledgement loses nothing. `DuplicatesBounded` needs a potential: the rows of a
  request plus what can still write one (its handler in the service, its message, its
  orphans) never exceed one plus the faults. Each fault creates at most one more writer.
  `OpeningsOnlyFallBack` from `OpeningsBlank`: an opening has no row before its fallback is
  over, and handlers only write rows of queries.
* **SchemaCache.** `IndexIsBacked` from `WritesTablesFirst`: a task in its write phase has
  cached each table it will list and no longer has to do. The rest from `Genuine`: each cached
  description is one the database once had, columns no later than keys, and a task in the
  middle of its introspection `Gathers` what was so from some moment on, its list of tables at
  that moment and each description after it. `RefreshAnswersRecentSchema` is the end of that;
  it does not say that there was a moment with that schema, because there need not be one.
  `CacheImplementsContract` maps a task to idle, busy or answered and hides keys, index and
  what is gathered: the step in which a task gets its answer is the contract's, every other
  query, write and expiry a stutter.
* **AskQuery.** `SeenInventionsAreStopped` from `KnownTables`: every schema held or cached was
  read from the database. The content of the SQL cache is unconstrained in it, which is the
  point: the verdict is taken again on recalled SQL. About the tables that validation does not
  see nothing is claimed (run `ask_phantom`). `FailuresHaveReasons` from `Calm`:
  as long as nothing has disturbed it, every cache and request agrees with the database.
  `HasQuestion` and `HasSql` are what the types need.
* **ConnectionCatalog.** `ListAgreesSerially` from `Serial`: one request at a time, and the
  list is out of step only between the commit of an insertion and its deletion.
* **Sessions.** `EndedSessionsServeNothing` from `EndIsFinal`: an ended session has no key,
  and only requests on ended sessions are late. A new key never belongs to an ended session
  because ids are drawn once, which needs `HasSession` (whatever has a session has a drawn one).
* **Accounts.** Types with `KnowsRows`: whoever works on a user or holds a token knows a row,
  and rows are never removed; `TokensAreOfRows` is a part of it. `AddressesAreUnique` is
  inductive with the types, as only the two saves write addresses. `ErrorsHaveCauses` needs
  `HasLooked`: a request no write has overtaken still finds its address free of users that are not deleted.
  `OnlyOverlapUndeletes` from `UpdatesAreOlder`: an update still holding a user as not deleted
  read it before the deletion.
* **QueryPage.** `SessionIsOfPage` from `OwnOpening`: a page waits only for an opening of its
  own connection, the only one under way unless one was left from before. `QuestionsDoNotRace`
  and `PagerStaysOnResult` are inductive with the types. (Proving the last one showed what a
  bound of three pages had hidden from TLC: turned back once, the pager can still stand
  beyond a much shorter result. The property and the run's bound of four pages take account of it.)
* **SignIn.** `TokensAreOwn` from `OwnRefresh`: unless somebody signed in or out since
  it was sent, the refresh under way is for the tokens that are stored.
* **Dashboard.** `SavedUrlsAreTested` from `UnderTest`: the url under test is the one in the
  field, unless it was edited. `CardsAreConnections` from `InStep`, which accounts for every
  difference between cards and service: a card without a connection is of a deletion that is
  done and not yet answered, a connection without a card is of such a save, and a list on its
  way misses at most what is being saved; whatever else differs is in `gap`, because the list
  was answered with it.

Liveness itself is beyond the prover; what it rests on besides fairness is not. For five of
the liveness properties a theorem states the safety half, for any number of requests: what
feeds the bad state only shrinks, and each step that renews the bad state uses some of it up.

| Theorem | Property of a run | What shrinks |
|---|---|---|
| `RequestsNearTheirEnd` | `Terminates` | the distance of a request to its end, at most four |
| `DeletionDriesUp` | `AccessEnds` | requests that can still sign tokens for a deleted user |
| `EndedSessionsDryUp` | `EventuallyReleased` | requests that can still cache, or send a message for, the schema of an ended session |
| `StaleListsDryUp` | `EventuallyAgrees` | requests about to cache an outdated list |
| `StaleSchemasDryUp` | `EventuallyFresh` | requests whose reading is outdated, and the tables each still has to cache |

Only model-checked: the liveness properties (`Recovery`, `EventuallyRecorded`,
`EventuallyFresh`, `EventuallyServed`, `EventuallyReleased`, `EventuallyAgrees`, `AccessEnds`,
`FormComesBack`, `Settles`, `Terminates`), because fairness and ENABLED are beyond the
prover, and the two violations. Every other property of a run is a theorem.

## 5. What the models found

Two runs TLC must find violated; `PROJECT.json` quotes the texts they contradict:

* `breaker_probe`: `HALF_OPEN` admits every call, not one test request;
* `ask_phantom`: the root README and the step list of `query_service.py` promise that tables
  exist before execution. `validate_sql` looks at one bare name after each `FROM` and `JOIN`,
  so with `FROM users, ghost` or `FROM "ghost"` the database is the first to notice.

The exceptions that properties name are defects as well. They are reachable in the models:

* service: an introspection that straddles a change of the schema answers and caches a mixture
  the database never had, or fails (`Recent` in `SchemaContract` allows it); table keys of a
  schema expire before the index that lists them, readers take the
  rest for the whole schema, and questions about the missing tables fail (`OnlyDisturbancesFail`
  names it); an introspection that began before a schema change overwrites a later refresh
  (hence `EventuallyFresh`, not more); `soft_delete_connection` invalidates the list before
  the deletion is committed, and a list request in between caches the deleted connection
  again for 300 s (`SerialListAgrees` holds only without overlap, and the dashboard shows it:
  `gap`); `publish` writes a row
  of query history for *any* queue when it falls back, so opening a session without a broker
  adds an empty query to the history (`OpeningsFallBack`), and the schema is not introspected;
* gateway: two registrations of one address end in a 500 instead of a 409, as does any use
  of a deleted user's address (`rival` and `deleted` in `ErrorHasCause`); an update that
  overtakes a deletion undoes it (`UndeletedByOverlap`); 4xx answers of the service count as its failures
  (`troubled` in `SoundIsServed`);
* browser: the answer of the refresh at start overwrites the tokens of whoever has signed in
  since (`late` in `OwnTokens`); after a registration the store is logged in without user and
  tokens, as `RegisterPage` does not look into the envelope; with overlapping openings a page
  can show a session of another connection (`overlap` in `SessionOfPage`), and a failing one
  takes away the page that is shown by then; a re-run over a question ends the loading of
  both (`crossed`); a newer result leaves the pager beyond its last page (`newer`); the answer
  to a test marks the url edited meanwhile as tested (`edited`); the answer to a saved
  connection lacks `table_names`, so rendering throws and the page goes blank (`blank`).

Seen while reading, without a property: the retry loop of `querymind.client.ts` is commented out
though `querymind.client.spec.ts` expects retries; an answered query can end without a row
when a failed write is caught (the root README promises a complete audit trail;
`AccountedFor` states what does hold); `publish` is awaited before the answer, though its
comment calls it non-blocking; `close_session` deletes `schema:{id}`, a key nobody of the
ask path writes; a session can be opened on a deleted connection; `logger` is undefined in
`sessions.py`, so its error branch raises; `/connections/add` counts the tables of whichever
connection of the user was introspected last; the conversation history is never written;
the route `"/ {session_id}/schema"` contains a space; `softDeleteUser` and `RateLimitGuard`
are not used; a failed `/connections/test_connection` answers 200, and the modal of the UI
takes any answer for a passed test. The service's SIGTERM handler replaces the server's own
and only sets an event nobody awaits.

Between the parts: `ForwardRequestDto` has no `url`, `type` or `sql`, so the UI's test, add
and re-run, and a question that carries a type, are refused with 400; the gateway sends
the user of a deletion in the body, and no user for a session's schema, while the service
wants it in the query: 422, which the client turns into 503; the service has no
`/query/execute` and the gateway no `DELETE` for history. In the UI, `getHistory` asks for the
session of the render in which the opening began, so it loads the history of the session
before; items from the service have no `id`, so deleting one filters out all of them;
`clearSession` is never called; the password rule of `RegisterPage` differs from the
gateway's; `types/index.ts` declares `expires_at` on tokens, which the gateway does not send.

## 6. Not modelled, and why

* Rate limit guard: no module provides or installs it.
* Reachability probe: threads that replace and restore `socket.getaddrinfo`. It is listed as a
  hazard; what can be lost is a preference of IPv4, which nothing else here depends on.
* The service's end on SIGTERM: without a handler that acts there is nothing to interleave.
* The entries of the history panel: no handler decides anything by them.
* The patterns of `validate_sql` and pagination, `build_rag_schema_context`, the sanitizers: pure functions
  on strings, represented by what they let through where a module needs them.
* The content of prompts and answers of AI providers, parsing and rendering, styles, logging,
  migrations but for the table of users, configuration, health checks, the Celery worker
  (nothing sends it a task), and the client module `lib/api` of the UI, which is missing
  from the repository.

Worth doing next: the safety halves of `EventuallyRecorded`, `EventuallyServed`, `FormComesBack`
and `Settles`; `AskQuery` over `SchemaContract` in place of its own cache of sets; the gateway's
contract of the service by `AskQuery` itself.
