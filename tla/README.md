# TLA+ models of the enterprise digitalisation platform

The repository is a Python platform of some twenty "agents" (FastAPI routers and
libraries) that run in one application: documents are ingested and asked about,
chat requests go through a gateway with keys and budgets, an orchestrator plans
and runs workers, a map shows markers and analyses, customs data is collected and
turned into campaigns, and so on.  This directory models the parts that keep
state, wait, fail or overlap, and the computations whose boundary cases are hard
to see in a test.

1. [Inventory](#1-inventory)
2. [Modules and the code they model](#2-modules-and-the-code-they-model)
3. [Runs](#3-runs)
4. [Fairness](#4-fairness)
5. [Proofs](#5-proofs)
6. [Where the code departs from its documents](#6-where-the-code-departs-from-its-documents)
7. [Not modelled](#7-not-modelled)
8. [Plan](#8-plan)

Line numbers refer to `src/agents/` unless another path is given.

## 1. Inventory

The application runs as an asyncio event loop per process.  The image starts four
worker processes (`src/deploy/Dockerfile:54`) that are restarted when they die
(`src/deploy/docker-compose.prod.yml:37`) and replaced after 10000 requests;
what is "in memory" below is therefore kept once per process and lost with it.

| component | state | operations | hard about it | must hold |
|---|---|---|---|---|
| **ingestion: uploads, queue, worker, pipeline** (`ingestion_agent/router.py`, `tasks.py`, `pipeline.py`) | queue and worker (memory), `ingest_tasks`, `raw_documents`, object store, vector store | asynchronous and synchronous upload, worker loop, `ingest_file`, `ingest_excel` | a row, an object and a vector are written by separate awaits that may fail; a crash between any two; a full queue; a database session carried through it all; a queue and a worker in each process, over one database | a completed task is searchable; no vector without rows, no row without bytes; a task handed over once; the ways in which one is forgotten are known |
| **question answering and its cache** (`ingestion_agent/query.py`, `cache.py`) | answers in a bounded map with expiry, or in Redis with the map behind it | ask: look up, search, store | asks of one key overlap; Redis fails before or after it acted; three structures of the map must agree | no answer older than its life; what is evicted is what was used longest ago |
| **orchestrator** (`orchestrator/langgraph`) | state of one run of the graph | plan, work, detect, resolve, respond | an LLM that answers anything or never finishes; failing workers; a limit of the engine beside the own one | every part of a request is served once; the graph ends; conflicts are settled by the rules |
| **gateway: API keys and quotas** (`observability_agent/api_keys.py`, `auth_middleware.py`) | keys, request and token trackers (memory) | create, change, delete, validate, check quotas | window boundaries; quotas changed while windows run; keys deleted under requests | no minute admits more than the quota allows; no tracker outlives its key |
| **gateway: chat endpoint, routing, fallbacks** (`router_agent`) | the chain of one request | foolproof check, rules of `routing_policy.yaml`, attempts | overlapping rules; attempts that fail or hang, cut at three; sort by price with ties | a request is always answered; confidential text stays local |
| **token usage and budget** (`observability_agent/token_tracker.py`, `budget.py`) | ring of 50000 calls, budgets, ring of events (memory) | record, set, read, evaluate | spending summed from a ring; many readers, each of which may emit | events neither repeated nor lost |
| **tenants and virtual keys** (`router_agent/tenant`) | tenants and keys (memory), keys at the LiteLLM proxy | create, patch, rotate, delete | requests overlap at every call to the proxy; the answer of a call is lost | what is reported revoked is dead; nothing revoked or deleted comes back; store and proxy agree |
| **map: markers** (`map_agent/marker_store.py`) | a JSON file, a cached list per worker | list, create, update, delete | four caches of one file; a save that fails half way; a worker killed in it | an acknowledged change is kept |
| **map: analyses and WebSocket** (`map_agent/tasks.py`, `websocket.py`) | status per task, connections per session (memory) | start, run, broadcast, connect, disconnect | broadcasts suspended at each send while the list they walk changes | every tab hears the outcome; an outcome is final |
| **map: what an analysis computes, contexts** (`map_agent/engine.py`, `langgraph_nodes.py`, `routes.py`) | demo entities and sessions' contexts (memory) | refuse, fetch, enrich, correlate, explain; get, add, remove, clear | entities that requests, answers and enrichment share; a sweep of old sessions by others' requests | an answer agrees with its own numbers; a context lasts as long as it is promised |
| **customs data** (`data_agent/customs_store.py`, `customs_router.py`) | SQLite file, one connection per process shared by threads | collect, upsert, query | read-add-write from threads and processes; one commit ends another's transaction; published before it is initialised | what was acknowledged is in the file; totals are the sum of what was collected |
| **campaigns** (`marketing_agent/customs_campaign_router.py`, `data_agent/push_service.py`) | buyers in the store, delivery log | list segments, screen, push | the segment is looked up again, twice, when it is pushed | what is pushed is what was shown |
| **intelligence data** (`data_agent/pipeline.py`, `cleaning.py`, `geo_guard.py`, `scrapers`) | datasets in memory | fetch page by page, clean, guard, list | pages of different sizes; items published meanwhile; masks and duplicates in a fixed order | reports account for what came; a phone or an identity card that stands alone in a text or title is masked |
| **reports** (`data_agent/scheduler.py`) | jobs, APScheduler's registry, delivery log (memory) | schedule, replace, remove, trigger, push | `trigger` holds the loop it waits for; ids reused; expressions that cannot be read | only scheduled jobs fire |
| **alerting** (`observability_agent/alerting.py`) | rules, last alerts, drift baseline, ring of spans (memory) | set and delete rules, evaluate, suppress | a state machine over a moving window | no alert repeated within its suppression, none missed |
| **RAG inspector** (`observability_agent/rag_inspector.py`) | rows of chunks, points in Qdrant | delete, re-index, beside uploads | two stores without a common transaction; overlapping calls; a stop in between; two kinds of upload that name their points differently | where rows and points are apart, it is known why |
| **accounts, desktop client** (`governance_agent/auth`, `client_agent/auth.py`) | table of users and API keys; token cache and its file | register, log in, refresh, call, log out | check-then-insert; a refresh that ends after a logout; lives counted from two moments | a registration is answered by what the table holds; a token that is handed out is alive, and its user's |
| **IM agent** (`im_agent`) | access token per platform (memory) | send, broadcast, refresh | concurrent sends share a token that ends | no message is sent with an ended token |
| **HR agent** (`hr_agent`) | reviews; layoff simulations in memory | match, assess, find redundancy; five confirmed steps | caps, strict thresholds and averages over nothing | scores agree with the records |
| **RAG agent** (`rag_agent`) | Qdrant collection, the current lexical engine | ingest in a thread, search, answer | the engine is published before it is filled; pages share ids; calls share a setting; collections share an engine | what is indexed is stored; agreement ranks first |
| **embedding models and collections** (`rag_agent/embeddings.py`, `ingestion_agent/store.py`, `analysis_agent/training_data.py`) | loaded models per process, sizes of collections | load, make, fill, replace a process | a size asked of a model that is not or half loaded, or that tells another than it has; processes with other models | a collection fits what its maker puts in, and what the examples are asked with |
| **chunking, column names** (`rag_agent/chunking.py`, `ingestion_agent/parsers`) | none | split, window, deduplicate headers | clamps and overlaps | no letter is lost |
| **analysis agent** (`analysis_agent`) | none between requests | question to statement, checks, execution, drill-down, pivot | keywords within keywords; a limit added as text | one statement that reads, within bounds; levels add up |
| audit log, traces, health, request metrics | rings in memory | append, read | none | |
| governance: decision log, evaluation | a log | append; command line | none | |
| pricing, business, compliance agents, Dify bridge | none between requests | pure computation | none | |
| shared SDK, contracts, prompts; frontend; deployment | configuration | | none | |

How they meet: the gateway's middleware stands before every endpoint; chat
requests reach the fallback chain, whose usage feeds the budget; the
orchestrator calls the other agents as tools and sees only what they return; the
ingestion worker writes what asks search; customs ingests change the buyers whose
segments a campaign pushes; the collection passes each item through the guard;
the RAG agent, the ingestion and the examples of the analysis agent each own a
collection whose size depends on which model was loaded when.  The tenant endpoints
talk to the LiteLLM proxy, which is also one of the adapters of the fallback chain, but
the code makes no connection between a tenant's keys and a chat request.

`PROJECT.json` lists every component with its sources and status, and the
hazards of the code at the lines where they bite.

## 2. Modules and the code they model

| module | what it is | extends | instance for TLC |
|---|---|---|---|
| `IngestTasks` | uploads, queue, worker, pipeline | | `MCIngestTasks` |
| `IngestContract` | what a task promises (abstract) | | refined by `IngestTasks` |
| `ConflictResolution` | detector, resolver, verdict as operators | | |
| `Orchestrator` | the graph | `ConflictResolution` | `MCOrchestrator` |
| `ApiKeys` | keys and quotas | | |
| `Gateway` | a chat request from the middleware to its answer, and the budget | `ApiKeys` | `MCGateway` |
| `TenantKeys` | tenants and the proxy | | `MCGateway` |
| `Accounts` | registration, tokens, the desktop client | | `MCGateway` |
| `ImMessages` | access tokens and messages of the chat platforms | | `MCGateway` |
| `Alerting` | alert rules over the ring of spans | | `MCGateway` |
| `MapMarkers` | marker file and caches | | alone, and in `MCMapAgent` |
| `MapTasks` | analyses and tabs | | `MCMapAgent` |
| `MapEngine` | what an analysis computes; contexts of sessions | | `MCMapAgent` |
| `QueryCache` | cache and ask | | `MCKnowledge` |
| `Rag` | ingest and hybrid search | | `MCKnowledge` |
| `Texts` | splitters and headers | `Filters` | `MCKnowledge` |
| `Analysis` | questions to statements, execution, drill-down | | `MCKnowledge` |
| `Inspector` | deletion over two stores | | `MCKnowledge` |
| `Embedding` | loading of models, sizes of collections | | `MCKnowledge` |
| `CustomsStore` | one SQLite file under threads and processes | | `MCBusiness` |
| `Campaign` | segments, screening, push | | `MCBusiness` |
| `Reports` | the report scheduler | | `MCBusiness` |
| `HR` | scores, redundancy, layoff simulation | | `MCBusiness` |
| `GeoGuard` | guard, quality and masks of an item | | `MCBusiness` |
| `Collection` | scrapers, cleaning, datasets | `GeoGuard`, `Filters` | `MCBusiness` |
| `Filters` | list comprehensions, joined lists, the matches of a pattern, sums and products as recursive functions | | where they are used |
| `Filters_proofs` | lemmas about these | `Filters`, `TLAPS` | |
| other `*_proofs` | theorems, one module per group of components | the components, `Filters_proofs`, `TLAPS` | |

The grain is that of the event loop: code between two awaits is one step, and
every await that another request, the worker or a crash can come between starts
a new one.  Where threads run (`CustomsStore`, `Reports`), a step is a statement of
the database or a call.  A call outside the process (database, object store, proxy,
Redis, Qdrant, a platform) that raises may or may not have taken effect: a commit or an upsert that raises has both outcomes.
Operators named "Mutant of ..." stand before the definition they are a broken
form of; no specification uses them.

Components that share no state share a run through a variable `focus` of the MC
module: it is chosen at the beginning and says whose behaviour is followed, while
the others keep their initial state.  This checks exactly the behaviours of each
part by itself; interleaving parts that read nothing of each other would multiply
their states and show nothing more.  The composition is of use only where state is
shared: there (`Gateway` with `ApiKeys`, `Collection` with `GeoGuard`, `Orchestrator`
with `ConflictResolution`, the two models and three collections within `Embedding`) one module builds on the other.

### Ingestion (`IngestTasks`, `IngestContract`)

A request is one call of an upload endpoint; `content` is the identity of its
bytes, which is what the hash sees, `pc` its place in the handler, in the
queue, or in the pipeline, and `host` the process that took it.  Every `Process` has its own
`alive`, `running` (the worker loop), `working` (its task) and `queue`, since each of the
server's processes starts an `IngestWorker` (`router_agent/main.py:272`); the stores, which they share, are `objects`,
`docs` (committed `raw_documents`), `indexed` (upserted vectors), `status` and
`hasRef` (columns of `ingest_tasks`).  `txn` says whether the database session of a
request has a transaction open: it matters because `session.begin()` raises on
a session with one (`tasks.py:195` and `:218`).

- `Receive`, `StoreUpload`, `InsertTask`, `Enqueue`: the handler of
  `POST /ingest/upload/async`.  `Enqueue` waits for a place in the queue.  When the commit of
  the row took effect and raised, the upload is answered with an error and nobody enqueues the row.
- `Dequeue`, `Claim`, `Fetch`, `Finish`, `RecordFailure`: `_loop` and `_process`.
  `Escape` is an exception that only `_loop` catches.  When the last commit took effect and raised,
  `RecordFailure` finds a completed task and makes it failed.
- `Parse`, `LookUp`, `PutBytes`, `CommitRows`, `Embed`, `Upsert`: the pipeline; `After`
  gives their order, which differs between `ingest_file` and `ingest_excel`.
- `Boot`, `Halt`: a process comes up, with or without its worker, and goes
  down; its queue, handlers and open transactions go with it.

`IngestContract` knows only a task's status, the rows and the vectors:
pending, processing, then completed or failed, rows before vectors, and completed only
when what has text is indexed; a completed task may be retracted to failed (`Retract`), which is
the one way out of a settled state.  `IngestTasks` implements it with
`stored <- docs` and `textual` the uploads whose content gives a chunk.
A chunk is not told apart from its document.

### Question answering (`QueryCache`)

`store`, `expires` and `older` are the two dictionaries of `MemoryCache` and the
order of its `OrderedDict`; `redis` is what Redis holds (external).  `degraded` is the
flag that the first failing call to Redis sets for good; it being TRUE from the start
is the configuration without Redis.  An ask goes from `Arrive` through
`RedisAnswers` or `RedisGetFails`, `Search` or `SearchFails`, to `RedisStores` or
`RedisSetFails`; on the map the look-up and the store are part of the step around
them, since nothing is awaited there.  An answer is told apart by the time it was put.
`since` is history: the keys used since a key was last used.

### Orchestrator (`Orchestrator`, `ConflictResolution`)

One run of the graph: `node` is what runs next, `plan` the names of the workers of the current plan, `outputs`
and `order` the `worker_outputs` with the order of a Python dict. `PlanByRules` is `_mock_plan` (the request
is the plan its keywords give), `PlanByLLM` takes any plan, the fallback to `router` that `_call_llm` gives
for the six classes of exceptions it catches (`supervisor.py:189`), or, for any other, ends the run with the
exception (`Raise`; no answer is given then). `ForceFinish` is the limit on the rounds, `Work` a worker that
returns any of the outcomes or fails, `Detect`, `Resolve`, `Respond` the chain behind. An output is a record
of the keys the rules look at. The rules themselves (which reports are made, who is believed, the verdict) are
operators of `ConflictResolution`.

### Gateway (`ApiKeys`, `Gateway`)

`ApiKeys`: `keys`, the deque of request times (`requests`), the token window
(`tokens`), the clock, and `log`, a history of what was admitted within the last window.
`Admit` and `Throttle` are validation and both quota checks in one step, since nothing is
awaited between them.  `Gateway` adds the chat request: `ArriveAnonymous` or
`ArriveWithKey`, `Block` (anti-foolproof), `Begin` (a model named by the client, or the
first rule by priority), then `AttemptFails` or `AttemptAnswers` along
`FallbackOrder`, and `Recorded` for the ring.  `SetBudget` and `ReadBudget` both
recalculate.  Prices and rules are those of the code and of `routing_policy.yaml`.

### Tenants (`TenantKeys`)

`tenant` and `key` are the store, `live` the keys the proxy accepts, `made` for whom
it generated them.  A request is an `op`: its first segment (`StartCreate`,
`StartDelete`, `StartRotate`) runs to the first await and takes the list of keys along;
each call to the proxy is the external step (`ProxyDeletes`, `ProxyGenerates`)
followed by what the handler does with the answer (`RevokeAnswered`, `PutKey`), or
by a failure before or after it took effect (`RevokeFails`, `GenerateFails`).
`Update` is PATCH.  `disturbed` is history: the tenants where something failed,
overlapped or was set by hand.

### Accounts and the desktop client (`Accounts`)

`users` and `userKeys` are the rows of the tables; a registration is `LookUp` and `InsertUser`, with the
unique columns deciding between two of them. `Present` and `FetchUser` are the dependency of a protected
endpoint, for tokens and API keys. The client has `cache`, `cacheFile` and requests that are asked
(`CallLogin`, `CallRefresh`), answered by the server (`AnswerClient`, `Refused`) and only later received
(`ReceiveLogin`, `ReceiveRefresh`): between these its user may `Logout` or restart it. `of` is whose tokens
the cache holds, beside the name it shows. `owner` (who logged in last and has not logged out) and `astray`
are history: a refresh was under way when the owner changed ("crossed"), or the file could not be written or
removed ("file").

### Messages (`ImMessages`)

`token` holds, per platform, when the cached token ends at the platform and when the adapter believes
it ends.  A send looks for a token, may fetch one, and posts; each takes up to `ImTimeout`.  Sends
of a broadcast share the cached token.  `arrived` is history.

### Alerts (`Alerting`)

`spans` is the ring the statistics are taken from, `rules` the rules that exist, `alerts` the list that
is cut at its length, `baseline` the rates of earlier evaluations.  `Evaluate` is
`evaluate_alerts` as a whole, the suppression included.

### Map agent (`MapMarkers`, `MapTasks`)

`MapMarkers`: `file`, a `cache` per worker, and the list a worker is `saving`.  A change is
two steps, before and after the point where `_save` can fail or the worker can be
killed; `create` and `update` change the cached objects in the first, `delete` does
not.  An update that finds nothing to change is answered 200 and saves nothing (`UpdateNothing`), also when
what it finds is what a failed save has left.  `kept` (what was last acknowledged), `doubtful` (changes that were not)
and `owed` (markers whose repeated update was acknowledged without a save) are history.
`MapTasks`: an analysis walks the list of connections once per message; `cast` is where it
is, by position, since the code iterates over the list that `disconnect` shortens.
`MapEngine`: an analysis is one step, since the pipeline awaits nothing, but the `demo` entities it
reads, enriches and answers with belong to the process; results refer to them, and so an answer may
change after it was given.  The coefficient is a fraction, so its thresholds are exact.  `contexts` and
`touched` are `_sessions` and `_session_timestamps`; every step that uses a session first sweeps those
not used for `SessionTTL`.

### RAG agent (`Rag`, `Texts`, `Embedding`)

`Rag`: `points` are the collections (external), of which an ingest names one (`into`); `engines` the lexical
index of each ingest, `engine` the one that is current, whatever collection it was made for; the vector leg
asks the default collection only. An upsert may take effect and raise. `BeginIngest` to `BuildIndex` are
`rag_ingest`, in a thread, with the engine published before it is filled; `BeginSearch` to the fusion are
`rag_search`. A chunk is told by its document's source and its number, as in `_generate_chunk_id`; a ranking
of a leg is any injective sequence of what it can find.

`Texts` walks over all texts of up to `MaxText` characters of three kinds (letters, line ends, ends of
sentences) and all rows of up to `MaxColumns` headers; the splitters are functions of these. A character is a
pair of its kind and its place, so that a letter lost and one given twice are both seen. The loops of the code
over pieces and units are recursive functions (`SplitUpto`, `MergeUpto`, `GatherUpto`); the recursion of
`_chunk_recursive` is as deep as the list of separators is long, and is written out, one operator for each
separator (`ByLines`, `BySentences`, `ByCharacters`, `ByWindows`).

`Embedding`: `model` says how far each of the two models of a process is loaded, `size` with what size each of
the three collections was made, `prepared` the two flags of the examples. `LoadOutcomes` are the ways the
first use of a model can end, the half loaded ONNX model included. `Told` is the size a model tells: an ONNX
model what its `config.json` says, or 512 when that names none (`OnnxDefault`), another that knows none 1024;
it need not be that of its vectors. `LookUp`, `MakeCollection` and `StoreVectors` are the awaits of Qdrant;
`Replace` is a process replaced by another, maybe of another environment.

### Inspector (`Inspector`)

`rows` and `held` are what the two stores have. An upload commits rows, then puts points (`CommitRows`,
`UpsertPoints`): a text names a point after the row of its chunk, an Excel row after its document (`PointOf`),
and a deletion looks for the ids of the rows. A deletion selects the chunks, deletes the points (a failure is
logged only) and deletes the rows; it may fail or be stopped before each. `Reindex` ends before it has changed
anything: `render_canonical_text` reads an attribute that no document has.

### Analysis agent (`Analysis`)

A question is a sequence of words; keywords are found as substrings, so a longer one contains a shorter one
(`Found`). The statement, from keywords or the model, is a record of what the safety check and the executor
look at. Beside it, `DrillDown` and `GoUp` walk the groups of a table (`facts`), and `GroupBy` and `Pivot`
aggregate another (`cube`): the code has two. A cell is a text or another value that is shown as one: groups
are made of what is shown, and rows selected by the value itself.

### Customs data (`CustomsStore`)

`trades`, `total` and `tables` are the committed file; `draft` and `lock` the transaction of each connection,
with SQLite's locks (shared, reserved, pending) between processes. The transaction belongs to the connection,
so a `CommitStore` of one thread commits what another has begun. `ReadBuyer` and `WriteBuyer` are the two
statements of an upsert. `OpenStore` publishes the singleton, `InitTables` makes its tables or fails. A page
that cannot be read loses the pages before it (`FetchPage`). `shipments` is history.

### Campaigns (`Campaign`)

`known` counts the shipments per buyer, which `Collected` changes at any time. A client lists segments with a
filter and a limit (`ListSegments`), picks one and asks for its push (`AskPush`); it is looked up with the
filter and, if that finds nothing, without it (`FindFiltered`, `FindAny`), decided and delivered. A request
has an `email`, which the gate looks at, and an `address`, to which is written. The frequency stands for the
four parts of a segment's key.

### Reports (`Reports`)

`jobs` maps an id to its current `ScheduledReport` object and `registry` to the object that APScheduler
(external) calls: they differ after an expression that could not be read. `Fire` runs in a thread,
`TriggerReport` in the caller's, which may be the loop itself (`loopHeld`).

### HR agent (`HR`)

`staff` is what the adapter returns. Risk, match, redundancy and layoff scores are operators over a
department, in integers (percent, twentieths and sixtieths, as their weights need; scores of reviews, which
are floats, in hundredths); `Appraise` adds a review. `flagged` is the tag `turnover_risk`. What the code
rounds to two decimals before it compares is compared with the number from which it rounds up (`Redundant`).
`plan` is the simulated layoff with the step it has reached.

### Collection (`GeoGuard`, `Collection`)

`GeoGuard` has the seven scores of the guard as operators over how often each signal was found, the quality of
an item, and the two masks on digits one by one (`CheckX` is the X an identity card may end in). Its
`AddSignal` walks over texts, one signal more at a time. `Collection`: a request is refused or fetched, from
an API page by page (`FetchApiPage`), from feeds, routes or pages, then cleaned item by item (`CleanItem`:
text and title are masked, metadata, `note`, is stored as it came) and stored as a dataset with its report.
`Publish` lets the source list a new item meanwhile. `CollectionSpec` has both walk side by side, since they
share nothing.

## 3. Runs

Every property of a passing run is refuted by at least one mutant of the code
(`PROJECT.json`, "mutants").  Sizes are distinct states.  A property whose name joins several
is their conjunction; each part is stated with a comment of its own in its module.

| run | instance | properties | states |
|---|---|---|---|
| `ingest_safety` | two processes, each with a worker that may not start and a queue of one place; two asynchronous uploads and a synchronous one; two contents, one without text; one crash; every call may fail, with or without effect | `TypeOK`, `CompletedIsSearchable`, `StoresAgree`, `HandedOver`, `NoPhantomInProcess`, `ImplementsContract` | 2581772 |
| `ingest_liveness` | two processes, two asynchronous uploads, one crash, failing calls, workers that start | `UploadsGoOn`, `ProcessingSettles` | 75892 |
| `orch_answers` | any request for up to five workers, or an LLM with any plan of two steps, one of the names unknown, that fails in a way that is caught or not; five outcomes, one failing; the default of ten rounds | `TypeOK`, `TopicsSettled`, `NodesBounded`, `CarriedOut` | 30466 |
| `gateway` | a key with quotas that change (one and three requests, one and two tokens), window of two ticks, three ticks; two chat requests, three deployments; a budget. Or a tenant, three keys, three overlapping requests; or three registrations of two names and two addresses, and a client with two requests; or two messages over one platform's token; or two alert rules | `QuotasHeld`, `RequestRateHeld`, `ChatServed`, `EventsSpaced`, `KeysAccounted`, `ForGood`, `AccountsSound`, `TokensReachAlive`, `OneYoungAlert` | 551169 |
| `map_agent` | two analyses of three messages, two tabs; or two workers, two markers, two notes; or two analyses over shared demo entities; or the contexts of two sessions | `ReachesAll`, `SettledForGood`, `OutcomeReaches`, `FileKeeps`, `AnalysesSound` | 486127 |
| `knowledge` | four asks, three of them at a time, three keys, a map of two places; or two ingests into two collections and a search; or all texts up to seven characters; or a small language of questions, statements, and tables of up to two rows; or three deletions that overlap each other and the uploads of a text and a sheet; or two processes in five environments with three collections | `TypeOK`, `AgeWithinTTL`, `EvictsLeastUsed`, `SearchSound`, `TextsSurvive`, `AnswersSound`, `DeletionsSound`, `VectorsSound` | 1873964 |
| `business` | three ingests in two processes with a connection each; or a client that lists and pushes over three buyers, one sanctioned, with four filters; or two report ids and an execution; or departments of up to three, and a veteran of ten reviews; or one request over two feeds; or texts to which up to three signals are added | `CountsSound`, `PushedWasShown`, `FiresOnlyScheduled`, `ScoresSound`, `SlumpRaisesRisk`, `CollectionSound` | 626283 |

Five more runs end in a counterexample on purpose: see section 6.

**What the properties are about.**  The ones that take several steps of several actors to get
wrong, and that we would look at first after a change of the code:

- `CompletedIsSearchable`: the early return for a duplicate leaves a transaction open, and only that keeps it
  from completing a task whose rows are another's.
- `HandedOver`: every way in which a pending row can be forgotten.
- `KeysAccounted`: store and proxy agree unless something failed, overlapped or was set by hand.
- `QuotasHeld`: what a fixed window of tokens really limits.
- `NoPhantomInProcess`: one worker per process is what deduplicates, and so only within a process.
- `ImplementsContract`: a task leaves a settled state in one way only, completed to failed.
- `AccountsSound`: the client counts a token's life from when the answer came, the server from when it
  gave it; margin and timeout make up for each other, through late answers, logouts and restarts from the file.
  Whose tokens the cache and its file hold, and what a registration is told while others are inserted.
- `ReachesAll`: a list that shrinks under its walker.  `FileKeeps`: three copies of the markers, failed saves
  and updates repeated after them.
- `AnalysesSound`: answers refer to entities that later requests change.
- `SearchSound`: the lexical index, replaced under searches, against the collection its ingest named; agreement of
  both legs comes first whatever the ranks.
- `DeletionsSound`: two stores, overlapping deletions and uploads, stops in between; it names what is left over, and why.
- `VectorsSound`: whoever makes a collection can use it, although the size is asked of a model in any state of
  loading; the property excepts a model that tells a wrong size and a missing library, and says what size is
  made then.
- `PushedWasShown`: the store changes between the listing, the two searches and the delivery.
- `CountsSound`: a commit of one thread ends the transaction of another, and yet what is acknowledged is in the file.
- `CollectionSound`: a dataset's report, its items, the listing, the pages and the masks agree, and the guard only weighs.

**Bounds and why they are enough.**

- *Ingestion.*  Two tasks are enough for one to wait while the other is processed
  and for a queue of one place to be full, and for two processes to work on one each; with the synchronous upload, which no worker
  serialises, every pair of roles occurs.  Two contents give
  equal and different bytes, with text and without.  `MaxHalts` 1: after a crash nothing
  of that process is left in memory, and the rows it leaves over nothing touches any more, so a second crash only
  takes away more of the same; `MaxHalts` counts the crashes of both processes.
  The theorems hold for any number of each.
- *Orchestrator.*  Five topics include two with different priorities, one
  without, the one only tried when nothing else matched, and one after it.
  `MaxIterations` is the code's default.  Outcomes contain conflicts in every field, equal and
  missing confidences, a zero and a negative number.
- *Gateway.* `Window` 2 with `MaxTime` 3 lets a window pass and another begin, and with token quotas of one
  and two and estimates up to two the burst at their boundary occurs; `TrackerMax` 3 is the largest quota, as
  10000 is in the code for quotas that are enforced at all. `Hour` 2 and `Day` 3 let one pass before the
  other; `BufferMax` 1 makes the ring forget. `Focus` explores requests past the middleware only in behaviours
  without keys: a request that was admitted no longer reads the keys, and the quota checks do not read the
  chain.
- *Tenants.*  Three requests are a create and two that overlap; three keys are
  the first and one per rotation.
- *Accounts.* Two names and two addresses give a conflict by name, by address, by both in one row and in two,
  and by none; two accounts take two registrations, the third overlaps or conflicts. `Margin` and `Timeout`
  are equal in the code and in the model; the lives are one longer than the margin and one longer than that,
  so a token is valid for a while, expires, and outlives nothing. `Focus` visits endpoints, with one key at
  most, while the client is idle, and follows registrations that are under way or refused in behaviours
  without the client: the two share the table of users, which the client reads only for whether its user is
  active.
- *Messages.*  `ImTimeout` 1 and `Buffer` 2 are the tightest the assumption allows; the code has 10 and 300 seconds.
- *Alerts.*  Two rules and a list of three alerts make it be cut; `Suppress` 2 over three seconds lets it end.
- *Map.*  `Messages` 3 (first, last progress, result) for the five of the code:
  the two between are repeated progress.  Two tabs suffice for one to leave before
  the other is reached.  A second writer ends what the marker properties promise, so
  `Focus` follows a behaviour until then.  Id lists contain a repeated, an unknown and a blank id.
- *Query cache.* Three keys over two places force evictions; a life of two within three ticks lets answers
  expire and be put again; four asks let a late put of one overtake the hit of another; three of them overlap.
  Asks and keys come in the order of their numbers: any other order is the same behaviour renamed.
- *RAG.* A document of one page and one of two, whose first chunks share an id; the default collection and
  another; `RrfK` is the code's 60.
- *Texts.*  Seven characters fill windows of three with an overlap of one, parents of four and children of two,
  twice and with a rest.
- *Analysis.* One table that is known and one that is not, each operator, a limit below, at and above the rows
  there are. In the tables a cell is a text or a number that is shown as one, and a column may be missing.
  `Focus` explores a table while no question is asked.
- *Inspector.*  A text and a sheet, each uploaded once, of one chunk; three calls let two overlap and a third come after.
- *Embedding.* Five environments: the models tell their sizes; a `config.json` is missing, or another model's;
  a model tells no size where the default is right; and where it is wrong, with a library missing.
- *Customs.* Two ingests on one connection and one on another are the roles there are; a manifest names a
  buyer twice and has a nameless line.
- *Campaign, reports, HR.* The layoff is simulated while there is at most one review, since no score reads it.
  The push meets stores that change between its two searches; a second and a third object of one id are made.
  The filters leave a buyer out, ask for more shipments than there are yet, and read fewer buyers than there
  are. The departments have pairs who differ in what they can do and pairs who differ in the rest; the scores
  are just below 50 and 60, and 70; the veteran's eleventh and twelfth review are the two sides of the bound
  in `SlumpRaisesRisk`. Not every cap and threshold of the scores is met from both sides; the theorems do not
  depend on which are.
- *Collection.*  A page of two and a source of five give whole, partial and repeated pages; the contents are a phone, an identity
  card in which a phone is found, one in which none is, and one that ends in X; titles and metadata hold some of them too.

`CHECK_DEADLOCK FALSE` is set everywhere: requests are finite sets, clocks are bounded, and a
system with nothing left to do stops.

## 4. Fairness

- `IngestTasks!Fairness`: for every process weak fairness of `Boot` (gunicorn and the supervisor restart it,
  `docker-compose.prod.yml:37`) and of `Dequeue`, and of the pipeline, upload and
  worker steps of each request: the event loop runs every coroutine that can go on, and
  each waits for a call that ends, one way or the other.  Nothing is assumed of clients,
  of crashes, or of how a call turns out.
- `Orchestrator!FairSpec`: weak fairness of `Next`: one thread runs node after node,
  and a tool returns or raises.
- `MapTasks!TasksFairSpec`, and the same conjuncts in `MCMapAgent`: weak fairness
  of each analysis.  A send returns or raises because uvicorn closes a connection that does
  not answer its pings.
- The other modules have none.  The Redis client is built without a timeout
  (`cache.py:99`), so the code does not promise that an ask ends; for the others no property needs it.

## 5. Proofs

Checked by TLAPS (`tlapm`), for every value of the constants that the named ASSUMEs allow:
any number of requests, workers, keys, tabs, crashes and ticks.

| module | theorems |
|---|---|
| `IngestTasks_proofs` | `TypeCorrect`, `CompletedSearchable`, `OutboxOrder`, `BytesBeforeRows`, `WorkerDeduplicates`, `HandOver`, `PendingOnItsWay`, `SessionsClosed`, `StoresInAgreement`, `TasksHandedOver`, `Implements` |
| `Orchestrator_proofs` | `TypeCorrect`, `Bounded`, `TopicsServed`, `OutputsStay`, `ConflictsSettled`, `Settles` |
| `Gateway_proofs` | `GatewayKeepsKeys`, `TrackersNeverLeak`, `TokenWindowsHold`, `RateIsHeld`, `QuotasAreHeld`, `ChatIsServed`, `EventsAreSpaced`, `OneAlertIsYoung`, `MessagesCarryLiveTokens`, `AccountsAreSound` |
| `TenantKeys_proofs` | `CountedKeysDead`, `StoreWellOwned`, `RevocationIsFinal`, `DeletionIsFinal`, `NothingComesBack`, `KeysAreAccounted` |
| `MapAgent_proofs` | `AcknowledgedIsKept`, `ListedIsInFile`, `FileIsKept`, `SettlingIsFinal`, `BroadcastReachesAll`, `AnalysesAreSound` |
| `Knowledge_proofs` | `CacheTypeCorrect`, `AnswersAreYoung`, `EvictionIsByUse`, `DeletionsLeaveTraces`, `CollectionsFit`, `SearchIsSound`, `AnswersAreSound`, `TextsAreKept` |
| `Business_proofs` | `IngestsAreStored`, `OnlyScheduledFires`, `PushesFollowListings`, `ScoresAreSound`, `SlumpsAreSeen`, `CollectionIsSound` |
| `Filters_proofs` | lemmas only: what a filter keeps and in which order, how long joined lists are and what of them a filter keeps, what a search finds, what sums and products are and how they compare, how a finite set of numbers is counted |

Some theorems have a hypothesis on the constants besides the ASSUMEs, since the claim is not true without it:

| theorem | hypothesis | what happens otherwise |
|---|---|---|
| `TopicsServed`, `Settles` | `Len(Heuristics) <= MaxIterations` | the rounds end before the plan does (the code has nine lists of keywords and ten rounds) |
| `RateIsHeld` | every `rpm` quota is at most `TrackerMax` | the deque forgets requests that still count (section 6) |
| `QuotasAreHeld` | the `tpm` quotas are finitely many and there is one | there is no largest quota to speak of |
| `ChatIsServed` | `MaxRetries >= 2` | the attempts end before the mock is tried |

Constants that stand for arguments and files have typed assumptions (`OutcomeAssumption`, `GatewayAssumption`,
`AlertingAssumption`, `MapEngineAssumption`, `RagAssumption`, `AnalysisAssumption`, `HRAssumption`,
`GeoAssumption`, `CollectionAssumption`): pydantic and the literals in the code give these types. Some
assumptions say more than a type, and the code's values meet them: the rules of the alerts are no more than
the list has places (the list has 1000), the window of the alerts is shorter than the baseline's (30 and 120),
each leg of a search returns at most `RrfK + 1` chunks (20 and 60), the client waits no longer than its margin
(30 and 30 seconds), two timeouts of a message fit into its buffer (10 and 300 seconds), and a statement that
names no table of ours has no limit.

**Ingestion.**  `IInv == TypeOK /\ Control /\ QueueHolds /\ Stores`.  `Control` ties the place of a request
to its row's status, to the worker's hand and to its transaction; it is what makes the steps of
other requests harmless.  `QueueHolds` says that the queue holds exactly the requests at stage
"queued", each once.  `Stores` says what each stage of the pipeline may rely on (bytes before the
commit, rows before the upsert, and, between the lookup and the commit of a task, no row with these bytes of another task
of the same process, which is where the one worker of a process is used).  None of the safety properties is
inductive alone: `CompletedIsSearchable`, for one, needs to know that a task at "finish" without a
transaction came from the upsert and not from the duplicate return.  `Implements` shows that Init maps
to the contract's Init and every step, under IInv, to a step of the contract or a stutter.

**Orchestrator.** `Paced` says how many nodes have run as a function of the node and the rounds, so the bound
follows without knowing anything of the plans. For `TopicsServed`, `RInv` says of a run by the rules what is
left of the request: the plan is in the order of the rules and has no name twice (`Ordered`), it is the
request without those that left an output, and every round shortens it by one worker (`ByRules`). So the
rounds suffice, no worker runs twice (`OutputsStay`), and the chain begins when nothing is left.
`ConflictsSettled` needs only where a report, a resolution and a verdict come from (`Settled`, `Fits`), for
any outputs, in any order.

**Gateway.** Every step of `Gateway` is a step of `ApiKeys` or leaves its variables alone, so an invariant of
the keys is one of the gateway. `TrackersOwned` and the bound on the token window (no window ever exceeds the
largest quota) are proved together, with the shape of the state (`KeyShape`). `RateIsHeld` relates the deque
to the history: what was admitted within the window is what the deque has of it (`RateOK`), as long as the
deque is no shorter than a quota. `QuotasAreHeld` is the sum over a window that may reach over two token
windows: what was admitted before the present one began is at most the largest quota, and so is what is
counted in it (`TokensInv`); a third one cannot begin within the same minute. That is why the bound is twice
the quota and cannot be less. `ChatIsServed`: until it is tried, the mock is in what is left of the fallback
order (`ChatOK`).

**Budget and alerts.**  `EventsInv`: the events of a type are in the order of their times and an hour apart, and the event of
a budget that is read as exceeded was made at most an hour ago.  `AlertInv`: alerts are in the order of their times, those of
one rule at least the suppression time apart (`Spaced`).  So there are no more young ones than rules, and the list, which has a
place for each rule, drops none of them.

**Messages.** What the adapter believes of a token's end is at most one timeout later than its end at the
platform (`BelievedOK`), since it counts from the answer; so a token it takes from the cache, at least the
buffer before the end it believes, has a timeout left when the message is posted, and a new one has its life
(`SendOK`). This is where `ImAssumption` is used.

**Accounts.** The server's end of an access token is its life after the answer was made (`RequestOK`), the
client's record, in memory and in its file, at most a timeout later than that (`CacheOK`), which its margin
makes up for (`AccountsAssumption`). `TokensAreOwners` needs of a request that is under way whose tokens it
will bring: a refresh those of the owner, as long as nothing went astray. `SignupsSound` is inductive with the
shape of the rows: a name found missing earlier does not count, the unique columns do, and rows are never
removed.

**Tenants.** The invariant says what a request that waits for the proxy may rely on: the key it asked to
revoke is dead, the key it was given is stored by nobody and given to nobody else (`OpOK`, `KeysApart`).
`RevocationIsFinal` follows because a key that is put was never stored; `NothingComesBack` joins it with
`DeletionIsFinal`. `KeysAreAccounted` is about the tenants that are not `disturbed`. `BooksInv` gives each of
them, at rest, its one key that lives in both stores (`AtRest`), and, while a request is on its way, exactly
what that request has changed and has still to change (`AtWork`); a second request on the same tenant disturbs
it (`AskOK`).

**Map.**  `Faithful(w)`: for a worker nobody has written beside, its cache is the file but for the doubtful and the owed markers,
and so is the list it is about to write but for the marker it writes about.  `SettlingIsFinal` rests on the relation of status and
stage (`StageOK`).  `BroadcastReachesAll`: every connection at or before the place of the walk was tried, unless one
was removed while it walked (`WalkOK`); what joins is appended, so the walk comes to it.
`AnalysesAreSound`: the demo entities change in one property only, the number of points of interest (`DemoLike`), so whatever was
computed from another property still stands (`ResultOK`).  Symmetry and extremes of the coefficient are arithmetic on
sums of products; sessions are swept by their timestamps (`ContextsInv`).

**Query cache.**  `IInv == TypeOK /\ ExpiriesFollowPuts /\ OrderIsUse /\ AgeWithinTTL`.  `OrderIsUse` relates the order
of the map to the history `since`: whatever is newer in the map was used since.  The victim of an
eviction is older than all the others, so all of those were used since it was, and there are `MaxSize` of them.
That a finite order has a first element is taken from the library's theorem that strict inclusion of finite sets is well founded.

**RAG.** An engine's index holds chunks of one ingest, and that ingest had stored them in the collection it
named before the index was built (`SearchIsSound`). The fusion is a comparison of fractions: a chunk of both
legs has at least 2/(K + n) for legs of n places, one of a single leg at most 1/(K + 1), and n is at most K +
1.

**Analysis.** `AnswersAreSound` follows a statement through the safety check, the limit and the executor; the
values of the dashboard are the sum of what is below them because grouping a sum by any property gives the
same sum (`SumAtGroups`); what is shown of a group and not found below it is what its rows without a text
there amount to (`Unopened`).

**Embedding.** The invariant says what a piece of work carries from its first step to its last (`WorkOK`): a
size that is its model's own or the one it tells, 0 of a half loaded one, or the default of a library that is
missing; and what a process that is ready for the examples may rely on (`ReadyOK`), which no other process can
take from it, since a collection never changes its size.

**Inspector.** `CallOK` ties what a call remembers to the two stores: until it deletes the rows it has seen
every row its document still has, and what it took from Qdrant is gone from there for good, since the upload
that put it there is over; `MissingWereSeen`: a row that is gone was seen by the deletion that removed it.
`RowsHavePoints` and `OrphansWereSeen` are inductive together with it, not alone: an overlapping deletion
removes rows a call has still to select by.

**Customs.** `CustomsInv` adds to `NeverCountedTwice` who may write and what an ingest relies on. `WritersOK`:
one connection at most holds the lock to write, and its draft has all that the file has, so a commit takes
nothing from the file. `CarriesOK`: from its first statement to its answer an ingest finds in the view of its
process what it has written, although any thread of the process may commit, or fail to, meanwhile; and the
count it read of a buyer is within what was shipped. Only the end of the process takes a draft away, and the
ingests with it. The counts themselves may go down (an overlapping sum), which is why the invariant speaks of
rows that exist and of an upper bound.

**Reports.** Objects are numbered as they are made (`ScheduleInv`), so what APScheduler has of an id is never
younger than the job of the id. **Campaigns.** `PushInv` says of who was shown that the filter let them pass
and that they had the shipments of the cell (`WasShown`). Shipments only grow: who is in the cell now was in
it at every moment since (`FrequencyBetween`), so both searches find them, and a limit that hides nobody now
hid nobody then.

**HR.** `StaffInv` is the type of the employees, finitely many. The rest is arithmetic: who has every
competency at the required level gets every weight, and the weights add up (`SumAtSame`, `SumAtScaled`);
holders who can all do the same have an overlap of 1 in every pair. For `SlumpsAreSeen` the average, the slope
and the spread of the record are compared before and after the review (`Climbs`, `SumAtClimbs`): a number more
than ten below the least of n numbers, which never rose, makes the slope of the record that of a decline for
every n up to ten; with eleven before it it need not, which is the bound in the property.

**Collection.** `CollectionInv` has three parts. A request never has more than it may get (`Most`); while it
is served, `Midway` says how far it is, and this is where whole pages are used: when `max_items` is a number
of them, every page has the same size and the next one begins where the last ended (`WholePages`, `PageIs`),
so what was fetched is the beginning of the listing (`Meets`) until something new is published; otherwise the
last page begins before the end of what was fetched, and there is no other after it. A dataset is what
cleaning makes of the items of an answered request, which no later step changes (`DatasetOK`). The properties
of a dataset come from an invariant of the run over the items (`Tidy`): after n of them it has stored the
places of those kept among the first n, in order, and counted the others. That a phone or an identity card
that stands alone is hidden is an argument about the two masks: the leftmost search finds at least one match,
each mask changes digits into stars and nothing else (`Hides`), so the masked text differs from the number at
a place inside, and has its length. Of a number inside a longer run of digits nothing is claimed (section 6).
`GuardWeighs` compares the scores of two texts, one with at least the signals of the other (`Suspecter`),
layer by layer; no layer alone reaches the threshold (`FlaggedByTwo`).

**Texts.** `TextsInv` is what a text is: characters with their places. Of each cut there is a lemma that the
letters, in their order, are those of what was cut: `SplitKeeps` (no letter is part of a separator),
`MergedKeeps`, `EndedKeeps`, `UnitsByKeeps`; what is cut again is cut into the same letters (`KeepCut`), which
carries them from paragraphs down to characters (`RecursiveIsChunked`). Where pieces overlap the order is lost
and the set of letters remains: windows advance by no more than their size (`WindowsMeet`), and what
`_compute_overlap` carries over is a part of the chunk before (`GatherByKeeps`). Two recursive chunks share no
letter since the letters of all chunks, one behind the other, are those of the text, where each is in one
place (`ChunksApart`). Of two equal titles the later has more before it (`HeadersApart`).

**Induction over data.** The library's induction theorems take an operator as parameter, which the provers
cannot instantiate. For a recursive *function* that is no obstacle: `Filters_proofs` proves what it needs of
`Keep`, `JoinOf`, `SumOf`, `ProductOf` and `SumAt` by the least counterexample, or by strict inclusion of
finite sets being well founded. That is why the list comprehensions, the joined lists and the sums of the code
are written with `Filters` in the modules that are proved about.

**Only model-checked.**  Liveness (TLAPS has no ENABLED here): `UploadsGoOn`, `ProcessingSettles`,
the `Finishes` of `CarriedOut`, `OutcomeReaches`.  Every invariant of the passing
runs has a theorem.

## 6. Where the code departs from its documents

| run | property | what it shows |
|---|---|---|
| `ingest_duplicate_stuck` | `TaskSettles` | two asynchronous uploads of the same bytes, nothing fails: the second task stays "processing" for ever, since the duplicate's early return (`ingestion_agent/pipeline.py:368`) leaves a transaction open and both `session.begin()` (`tasks.py:195`, `:218`) raise |
| `orch_allclear` | `NoFalseAllClear` | one worker fails, another says ok: the verdict is that all checks are normal (`conflict_resolution.py:703`) |
| `map_workers` | `PersistsAcrossInstances` | a marker one worker acknowledged is erased by the next save of another (`marker_store.py:54`; the test at `map_agent/tests/test_markers.py:192` says data persists across instances) |
| `customs_counts` | `CountsAllShipments` | two ingests of one buyer read its row before either writes it: both are acknowledged, and the shipments of one are lost from `import_count`, the "Number of shipments" (`customs_store.py:142`, `customs_models.py:161`) |
| `rag_pages` | `EveryPageStored` | the first chunks of two pages of a document get one id, and only the last page is stored (`rag_agent/chunking.py:82-83`) |

The following was met while reading.  What the models contain of it is part of their actions; it has no run of its own
because no text promises otherwise, because it is small, or because it lies outside the models.

*Ingestion and question answering*

- A restart leaves pending and processing rows as they are: `start_worker` re-enqueues nothing
  (`tasks.py:257`). `HandedOver` names the case.
- Two uploads of the same bytes both pass the lookup and both commit when they are taken by two processes,
  each of which has a worker of its own, or when one of them is synchronous, although `models.py:54` says that
  never happens (the column is indexed, not unique); `NoPhantomInProcess` is what holds.
- An upload whose task row was committed by a call that raised is answered with an error and stays pending for
  good (`router.py:166`). A task whose completing commit took effect and raised is shown completed and then
  failed (`tasks.py:204`, `:218`); its document is searchable.
- `storage_ref` is overwritten with NULL on success (`tasks.py:202`).
- A file whose upsert failed after the commit is "duplicated" at the next upload and never indexed (`pipeline.py:369`).
- Lexical results are not filtered by `doc_type` (`query.py:136`), and cache keys collide when a query
  contains the separator (`query.py:111`). The client of Redis has no timeout (`cache.py:99`).

*Orchestrator*

- `_call_llm` promises the fallback plan on failure (`supervisor.py:180`), but catches six classes only
  (`:189`); any other exception ends the request.

*Gateway, accounts, messages*

- `quota_rpm` above 10000 is never enforced: the tracker keeps 10000 entries (`api_keys.py:25`). The token
  quota admits up to twice itself within a minute; `QuotasHeld` has the bound that holds.
- The budget of the day is summed from a ring of 50000 calls, and what was pushed out is forgotten
  (`budget.py:110`). Models named as the LiteLLM proxy names them have no price.
- A client that names a model bypasses the rule for confidential text (`engine.py:114`). The mock, priced zero
  and registered first, is the first resort, not "the last" (`fallback.py:30`, `:141`).
- A refresh answered after a logout logs the user in again, or gives the next one another's tokens
  (`client_agent/auth.py`); a file that could not be removed logs in at the next start. A registration with
  the name of one account and the address of another ends with 500 instead of 409, since the query finds two
  rows.

*Map agent*

- An update of a marker that is repeated after its save failed is answered 200 and not saved: the cached
  marker is changed before the save, and the repetition finds nothing to change (`marker_store.py:144-156`,
  `routes.py:333-340`). The change gets into the file with the next save of that worker, if there is one.
- The nodes of the pipeline are called pure functions (`langgraph_nodes.py:8-9`), but `_enrich_node` writes
  into the demo entities of the process; results that were given refer to them.
- A failed lookup of points of interest counts 0, and two of these correlate perfectly. The coefficient is of
  magnitudes only; values tenfold apart are a "very strong negative" relation.
- An inline entity whose id repeats is computed with the values of the first with that id, and with 0 where
  that one lacks the property (`engine.py:108-114`).
- `foolproof.py` says repeated ids "will be deduplicated", which nothing does. The wait of 45 s for the model
  raises what nothing catches, and `run_pipeline` blocks the event loop meanwhile.
- `DELETE /context` sets no timestamp, so a session that begins with it is not swept. A marker file that does
  not parse is taken for an empty one (`marker_store.py:65`).

*RAG, embeddings, texts*

- The lexical index holds the texts of the last ingest only (`integration.py:125-130`), and the engine is
  published before it is filled (`:112-122`); `top_k` of one search changes that of another (`:149`).
  Collections named in an ingest share that engine, while the other leg asks the default collection only
  (`retriever.py:382`).
- A fused chunk loses its similarity and source, against the comment at `integration.py:226-227`. Errors of
  the parser, the model and Qdrant derive from none of the classes the handlers catch (`:399`).
- `rag_ingest` without `sentence-transformers` makes the knowledge collection with size 1024, which stays,
  against "stays consistent automatically" (`embeddings.py:47-49`). An ONNX model without its `config.json` is
  half loaded and of size 0 (`:401`); one whose `config.json` names no dimension is taken for 512 (`:361`), a
  model that knows none for 1024 (`:283-287`), and the collection is made so. The health check reports the
  default size of a model that was never loaded.
- A failed preparation of the examples is never repeated, since `_initialised` is set first; questions are
  served by keywords from then on. Documents are embedded with the instruction for queries by `rag_ingest`,
  without by the ingestion.
- A paragraph longer than a parent makes a larger parent; `SemanticChunker` never cuts by characters, its
  "last resort"; headers a, a, a_1 give a_1 twice.

*Analysis, inspector*

- With "not equal" a question gives two conditions that exclude each other, since keywords are found within
  longer ones (`nl2sql.py:14`). The second of two comparisons takes the first column.
- A failed execution is answered with success. `truncated` is set when more rows come back than were asked for
  (`executor.py:486`), but the executor of a database adds a LIMIT and cuts without saying so; and not to a
  statement in which the letters merely occur.
- The dashboard shows groups of what a value is shown as, and opens one by the value itself
  (`drill_down.py:197`, `:175`): a group of numbers, or of rows without the column, has nothing below it.
- `reindex_document` always fails: `render_canonical_text` reads `doc.fields`
  (`ingestion_agent/pipeline.py:69`), which the rows do not have. The points of an Excel upload are named
  after documents, not rows, and no deletion finds them (`pipeline.py:187-202`, `rag_inspector.py:248-260`). A
  deletion that Qdrant failed leaves points for ever, and the upload of a deleted document is answered
  "duplicated", since its raw document stays.

*Customs, campaigns, reports, collection, HR*

- The customs store is published before its tables exist (`customs_store.py:424`), and an `init` that failed
  is never repeated. Records collected again are counted again (`:142`).
- Email "requires" explicit consent and a corporate address (`pusher.py:12-16`), but an `email` or a consent
  that is not given passes, and the message goes to `address`, which is not checked (`push_service.py:134`,
  `:155`).
- A segment is looked up again without the filter when the filter finds nobody any more, and a limit may hide
  buyers that were shown.
- `trigger()` called in the loop blocks it for 60 s, raises, and the report is run after that; `disable_job`
  does not stop APScheduler; an unreadable expression under a used id leaves the old job firing.
- The last page of an API is asked for in another size and repeats records (`api_scraper.py:70`). The mask for
  phones runs before that for identity cards, so the docstring's own example comes out differently, and of a
  longer run of digits a phone may be left: 138123413912345678 is stored as one that ends in 13912345678. An
  item's metadata is stored unmasked (`cleaning.py:211-212`, `:244`). A good item is dropped as the duplicate
  of a poor one before it. Domains of low credibility score exactly 0.3 and are never flagged (`< 0.3`).
  Markers with capitals are never found in a lower-cased text.
- An extraction that failed is answered with success and no items at the portal; demo items are shown as long
  as there is no dataset; `pii_masked_count` counts items that were dropped.
- The fourth step of a layoff does not require the first three (`foolproof.py:48`); no key personnel is ever
  named in a preview (`models.py:460-463`); an employee without reviews has an average of 0.
- The trend of the reviews compares the last two with the others: a slump right after a recovery may lower the
  risk of leaving (reviews 50, 20, 60 and then 9), and from the twelfth review on one after a steady record
  may still be "stable" (eleven times 80.0, then 69.9). `SlumpRaisesRisk` speaks of records that never rose,
  and its last part of up to eleven reviews.

The four worker processes each have their own keys, windows, budgets, tenants, tasks, datasets, contexts and caches.

## 7. Not modelled

- *Of ingestion*: file formats, normalisation of values, and `migration.py`, a command run by hand.
- *Of the query path*: what a search finds and how it is ranked; `delete` and `clear` of the cache, which nothing calls.
- *Of the orchestrator*: texts, the tools themselves, the message bus on which nothing publishes.
- *Of the gateway*: texts, statistics of a key, startup, the reload of the policy, `check_degradation`
  (nothing calls it), the tracing middleware, which decides nothing.
- *Of the tenants*: tiers, budgets and allowlists.
- *Of accounts*: the roles table and the permission checks.
- *Of the IM agent*: signatures of callbacks, texts.
- *Of the map*: `run_analysis_async` and `TaskStore.cleanup` (nothing calls them), regions, tags, the spatial
  query, wording; the contents of the disk after a power failure (a rename is taken to be atomic, `fsync` is
  not called).
- *Of the RAG agent*: rewriting, reranking, and what a vector says of a text.
- *Of the analysis agent*: mock data, the dashboards' texts, the schema extractor.
- *Of customs data, collection and reports*: search conditions, the vector index of buyers, how HTML, feeds
  and JSON are parsed, layout.
- *Of the HR agent*: the narrative of a profile and the connection to real systems.
- *Whole components*: pricing, business and compliance agents, the Dify bridge (results computed from their
  arguments, without state), the audit log, traces and request metrics (appended to and read), the decision
  log and evaluation, the shared libraries, the frontend and deployment.
- *In memory state across the four processes*, except for the ingestion queues and workers, the marker file,
  the customs file and the collections of vectors, which are modelled with several processes: the other models
  are of one worker process.

## 8. Plan

The order of the plan was: ingestion and its contract, the orchestrator, the gateway with its keys, the
tenants, the map agent, the query cache; then the customs store, alerting, accounts with the client, messages,
reports and HR, and the components around question answering (RAG, texts, analysis, inspector, embedding) and collection.
These are modelled and checked.  What is left:

1. The permission checks of accounts.
2. The memory kept apart by the four processes where requests of one user reach several of them.
