# MyChatBot: formal models, checks and proofs

TLA+ models of MyChatBot's own core logic: the HTTP session layer with its rate limiter, the agent's pipeline from a
text to the reply with its tools, the SQLite memory, the call of the model provider, the long-polling Telegram bot, the
two webhooks, the web and server tools, and the web client's list of chats. TLC checks them on small instances; TLAPS proves
their safety properties for every value of the constants. File paths below are relative to the repository.

    tlc -workers 2 -config MCWeb.cfg MCWeb.tla                 (a run)
    tlapm ApiServer_proofs.tla                                 (the proofs of a module)

`PROJECT.json` lists the components, every run with its properties, the source lines behind each
definition, for each property a mutated definition that breaks it, the hazards and the theorems.

## 1. The system

A FastAPI server (`interfaces/api_server.py`), two messenger adapters behind it
(`interfaces/telegram.py`, `interfaces/whatsapp.py`), a stand-alone long-polling Telegram bot
(`interfaces/telegram_bot.py`) and a command line all build `Agent` objects
(`core/agent.py`, `core/agent_impl.py`). An agent owns a `Memory` (`core/memory.py`, one SQLite
connection) and a `Router` (`core/router.py`) that asks the AI gateway through
`providers/nara_provider.py`. A Next.js application (`app/`, `components/`, `lib/`) is a
client of the server, with a proxy of its own; a Flutter application and an Android bridge are
further clients. `deploy/deploy.sh` puts a new image into service.

| Component | State it keeps | Operations | Interacts through | What is hard |
|---|---|---|---|---|
| API session layer (`interfaces/api_server.py`) | `_agents`, `_agent_locks`, `_background_tasks` | `/chat`, `/history`, `/memory`, lifespan | agents; coroutines and threads share the cache | eviction of a session in use, threads against the event loop, locks, shutdown |
| Agent pipeline (`core/agent.py`, `core/agent_impl.py`) | none of its own: rows and facts in Memory | `ask`, `_plan_tool`, `_run_internal_tool`, `_remember_from_message`, `_forget_from_message` | Memory, Router, tools; two or three awaits | what is stored when an await fails, the thread a tool timeout leaves behind |
| Tool registry and policy (`tools/registry.py`, `tools/base.py`) | the registered tools; a thread pool shared by all sessions | `run_tool`, `Tool.run`, `_plan_tool`, `_can_use_server_exec` | called in a thread of the executor | two policies that must agree, hung threads |
| Memory (`core/memory.py`) | one SQLite file, one connection per agent, transactions | `add`, `remember`, `forget`, `clear`, reads, `close` | other connections, through SQLite's locks | failed statements without rollback, busy timeouts, snapshots, clocks |
| Provider call (`core/router.py`, `providers/base.py`, `providers/nara_provider.py`) | one call: model, attempt | `complete`, `chat`, `_post` | the gateway | retries times models, which failure ends what |
| Polling bot (`interfaces/telegram_bot.py`) | `offset`, agents | `main` loop, `_request` | Bot API server | lost answers, crash, one blocked user |
| WhatsApp webhook (`interfaces/whatsapp.py`) | seen ids, locks, agents, tasks | `handle_payload`, `_is_duplicate` | Graph API, background tasks | repeated posts, window of ids, failing sends, cancellation |
| Telegram webhook (`interfaces/telegram.py`) | locks, agents, tasks | `handle_update` | Bot API, background tasks | order of the answers of a chat, no duplicate detection, failures with the lock held |
| Rate limiter (`interfaces/api_server.py:108-128`) | time stamps per key | `allow` | every authenticated request | window boundaries, pruning of idle keys |
| Web chat client (`components/smart-chat.tsx`) | list of chats, `localStorage` | send, new, select, clear | web proxy | closures over the list of an old render |
| Web proxy (`lib/server.ts`, `lib/validation.ts`, `app/api/`) | cookies, a rate window | chat, history, memory, session | API server or gateway | a time-out of a request the server goes on with |
| Deployment (`deploy/deploy.sh`) | running container, record of images | deploy, health check, roll-back | Docker | failure of any step, of the roll-back too |
| Web tools (`tools/web_search.py`, `tools/web_research.py`) | one call: its pages | `search_and_research`, `compare_pages` | a thread of the executor, threads of their own | redirects, pages that fail side by side |
| Server execution (`tools/server_execution.py`) | one call: its process | `execute` | subprocesses in a group of their own | time-outs, descendants, output kept open |
| Tools, other providers, configuration, command line, Flutter and Android clients | none or the operating system's | one call each | | |

What makes each of them correct:

* *API session layer*: the cache keeps to its size; the open connections are those of cached
  agents; no two chats ask with one agent; the rows of different exchanges never interleave; every
  request ends.
* *Agent pipeline and tools*: what is chosen, by keyword or by the model, is permitted when it runs; the model is told
  of a tool what the stored row says; an answered exchange is stored in full; what was forgotten is gone; no tool starts after its time; every call of `ask` ends.
* *Memory*: rows stay within the limits; a commit changes no other session; ids are unique and
  grow; a fact just stored is not the one trimmed; a failed method does not hold up the others.
* *Provider call*: a bounded number of posts; nothing after a refused key or an answer; every
  model tried before a fallback failure is raised; one pass over distinct models; the call ends.
* *Polling bot*: no update is forgotten before it was answered in full; order; bounded repetition;
  every update is confirmed in the end.
* *WhatsApp webhook*: the agent is asked about a message once; a message is lost only with its
  task; no lock outlives its task; the window of ids is exact.
* *Telegram webhook*: a chat's agent is asked about one update at a time, in the order of the posts; an update is lost only
  with its task; no failure leaves the chat's lock behind.
* *Rate limiter*: no window admits more than the limit, whatever is expired or pruned; nobody is refused below it; the table
  does not grow with the keys ever seen.
* *Web tools*: only checked addresses are asked for, a bounded number of times; a report has every page in its place; the call ends.
* *Server execution*: a reported time-out leaves nothing of the process's group; a success means that the process and its output ended.
* *Web chat client*: a message goes only when its chat is cleared or is the oldest at the limit.
* *Not modelled yet*: what a time-out of the proxy leaves the server doing (web proxy); a failed deployment ends with the
  previous image in service (deployment).

## 2. The modules

| Module | Models | Used by |
|---|---|---|
| `SessionLog` | abstract: what the service promises about a session's stored transcript | `ApiServer` (`Transcript`) |
| `ApiServer` | agent cache, lock table, `/chat`, `/history`, `/memory`, process stop and crash | `MCWeb`, `MCApiServer`, `ApiServer_proofs` |
| `AgentPipeline` | `Agent.ask` of both classes, the registry's policy, the thread pool of the tools | `MCAgentPipeline`, `AgentPipeline_proofs` |
| `Memory` | connections and transactions over one SQLite file | `MCMemory`, `Memory_proofs` |
| `ModelFallback` | abstract: one pass over the configured models | `Provider` (`Fallback`) |
| `Provider` | Router, NaraProvider and `_post`: one call | `MCProvider`, `MCCalls`, `Provider_proofs` |
| `PollingBot` | the polling loop and the Bot API's offset protocol | `MCTelegram`, `Telegram_proofs` |
| `RateLimiter` | `allow`: expiry, admission, pruning, the clock | `MCWeb`, `ApiServer_proofs` |
| `TelegramWebhook` | posts, background tasks, locks of chats, sends | `MCTelegram`, `Telegram_proofs` |
| `WebResearch` | a call of the web tools | `ToolThread` (`Web`) |
| `ServerExecution` | a call of `execute` with its processes | `ToolThread` (`Server`) |
| `ToolThread` | composition: one executor thread that runs a web call and a server execution | `MCCalls`, `ToolThread_proofs` |
| `SmartChat` | the web client's list of chats in a tab | `MCWeb`, `SmartChat_proofs` |
| `WhatsAppWebhook` | posts, background tasks, duplicates, locks, sends | `MCWhatsAppWebhook`, `WhatsAppWebhook_proofs` |
| `MC...` | the values and symmetries of the model-checking runs; `MCWeb`, `MCCalls` and `MCTelegram` check several modules side by side (section 3) | |
| `..._proofs` | the theorems of a module; `Telegram_proofs` those of both Telegram adapters, `ApiServer_proofs` those of both modules of `interfaces/api_server.py` | |

Modules that are checked side by side name their variables, initial states and next-state relations apart: `TabNext`, `LimiterNext`, `BotNext`, `ThreadNext`.

Definitions commented "Mutation of X" are plausible bugs in X; they are part of no specification.
They show that a property can fail: with X replaced by its mutation TLC finds it violated.

### ApiServer

A request is named by a model value and takes one step between two points at which anything else
can run. `/chat` is a coroutine: `loop` holds the request whose coroutine runs, and other coroutines
move only when it is `None`. `/history` and `/memory` are plain functions that FastAPI runs in threads,
so `HistoryGetAgent`, `HistoryRead`, `ClearGetAgent` and `ClearMemory` ignore `loop`. `_get_agent` is
one action because the code holds `_agents_lock` throughout; a call of Memory is one because of `Memory._lock`.

| Code | Model |
|---|---|
| `_agents` (insertion-ordered dict) | `order`, `cached` |
| `_agent_locks`, `asyncio.Lock` | `locks`, `queue` (the holder, then the waiters, first in first out) |
| `_get_agent` hit, miss with eviction, failing constructor | `HitAgent`, `NewAgent`, `CreationFails` |
| `setdefault` and `async with` | `ChatTakeLock`, `ChatAcquire` |
| `Agent.ask` between its awaits | `ChatForget`, `ChatStoreQuestion`, `ChatStoreTool`, `ChatReadContext`, `ChatStoreAnswer` |
| a database call on an evicted agent | `ChatFails`, and the other branch of `HistoryRead` and `ClearMemory` |
| lifespan, kill | `Shutdown`, `Crash` |

A provider failure takes the path of an answer, because `Agent.ask` stores its apology. Objects are
named by the request that created them, so "a new lock" is a value nobody else has. Authentication and
validation happen before the handler touches state; they decide whether a request exists at all.

### AgentPipeline

An exchange is one call of `ask`. It runs without a pause up to its first await, so what comes before (remember, answer by
itself, forget, store the question, choose by keyword) is one action, `Begin`, with a disjunct for each way it may go; after that it moves at
the awaits: the planner's reply, the end of the tool, the model's answer.

| Code | Model |
|---|---|
| `config` (profile, `AUTO_TOOLS`, the `SERVER_EXEC_...` settings) | `policy`, chosen in `Init` |
| the regular expressions over a text | a record of what they find (`NoText` has its fields): a message is bad, tells facts, asks for the name (`asksName`) in words that `_NAME_QUERY` knows (`query`) or does not, asks who is who, names what to forget, has keywords of a tool or words that call the planner |
| `_remember_from_message` of both classes | `Remembered` (which facts the facade lets through), `Remember`: a fact is its key and whether its value was told or taken from a question |
| identity answer, `_forget_from_message` | `OwnAnswer`, `ForgetFacts`, `ForgetRows`, `Answer` |
| `_fast_tool_plan`, `_needs_tool_planner`, `_plan_tool` | `FastPlan`, `NeedsPlanner`, `Allowed`, `PlannerChoices` |
| `TOOLS`, `run_tool`, `Tool.run` | `TOOLS` (one tool of each class of profile, danger and selection, and both that run `server_execution.execute`), `RunTool`, `RunFunction`, `Executes`; of the operations only `safe_script` is told apart, the one that runs a script |
| `wait_for(to_thread(...))` | `Launch`, `StartJob`, `FinishJob`, `Returned`, `TimedOut`, `DropJob`; the queue has no order, which includes the executor's |
| the tool's row, the result in the prompt | `Report`: `log` and `prompt`; `ToolRowFails` is the `except` around both |
| a provider failure | the answer `apology`, stored like any other |
| the facade's clean-up of the reply | `Shown` |
| a database call that fails, after some of the writes before it | `BeginFails`, `ToolRowFails`, `ToolRowLost`, `AnswerLost` |

A time-out does not end a thread: a running item stays in `job` and occupies its thread until it returns, if ever. Exchanges of one
session do not overlap (`Idle`), because the callers hold a lock; `ApiServer` is about how far that lock holds. The trims are in
`Memory`, the parts of a provider call in `Provider`.

### Memory

A connection runs a method in two steps, its first statement and the rest with the commit, because
connections of different agents interleave in between. The rules of SQLite in WAL mode (one writer, snapshots,
a stale snapshot may not write) are the environment; `Fault` and `StartFault` are statements that fail
for reasons of the file (disk full, I/O), `Locked` is a busy timeout. The point of the module is what the code does
*not* do: no method rolls back, so `txn` survives a failed method and the next one goes on inside.
A message is its row id, a fact its time stamp.

### Provider

`Post` is one HTTP exchange with any outcome, `Retry` the end of a back-off, `Cancel` the cancellation of the
awaiting task. The order of the tests in `Post` is that of the code: retry in `_post`, then fallback in
`chat`, then the end. `Init` enumerates every configuration: with and without a key, any names, repeated ones too.

### PollingBot

Updates are numbered as they arrive. The Bot API server (external) forgets what is below the offset of a
`getUpdates`. Each request may fail before or after the server acted. `kind` tells updates that the loop
treats differently; `blocked` is a user to whom sending fails for ever. `Crash` forgets the offset.

### WhatsAppWebhook

`Receive` makes the background task of a posted payload; Meta posts it again unless it got the
acknowledgement. A task moves through `next` (look for the next message that is no duplicate), `lock`,
`ask` and `send`. Everything between two awaits is one action: `_is_duplicate` and getting in line for the lock in
`Take`, the answer and the release of the lock in `Answer`. `Restart` is the cancellation by lifespan, or a kill.

### TelegramWebhook

The same shape with other rules: update ids are not remembered, so each post is a task that asks; up to the lock a task awaits
nothing, so tasks get in line in the order they were made (`Begin`); the typing action is called with the lock held and any error of
it becomes an apology (`TypeFails`); parts are sent after the lock was released (`Send`, `SendFails`). `left` counts the parts
of the answer still to be sent, which tells an answer in full from a part of one.

### RateLimiter

A key's deque is a sequence of times, `now` the monotonic clock, which may stand still between calls. `Admit` and `Refuse` are the two
ends of `allow`, each with the expiry in front, since the code holds a lock throughout. `known` is the set of keys with a deque: a key
whose deque is empty may be in the table. The order of `_hits.items()` is that of insertion; the model lets any `Batch` of the prunable keys
go, of which the code's choice is one. `admitted` and `refused` are history: the properties compare what was forgotten with what happened.

### WebResearch, ServerExecution, ToolThread

`WebResearch` is one call: `stage` is where it stands, a page of `pages` is one `_fetch` with its current address and the
requests made. `Public` are the URLs `_validate_url` lets pass; a name that resolves differently the second time is the other disjunct of
`Start`. Pages of a search run in threads side by side, those of `compare_pages` one after the other (`MayRun`). `odd` is an exception outside the
three that `_fetch` maps its failures to; it gives up the pages that have not begun (`GivenUp`).

`ServerExecution` is one call and the processes under it. A descendant is told by two bits: whether it is in the group, and whether it has the
output open. `communicate` returns when the output is closed by all and the process is over (`OutputEnds`); a time-out kills the group and waits
again, now without a limit (`Reap`).

`ToolThread` instantiates both over one set of variables for one thread of the executor: a call begins when the other does not run.

### SmartChat

`chats` is React's state, `stored` the copy in `localStorage`, a member of `flights` a request under way with the list its closure holds.
Each handler is one action; `Reply` stores the closure's list. A title, a time stamp and the theme are data: `persist` sorts by the time of
the last change, so the changed chat comes first. `replacing` is history: the chats
that clearing put in the place of others.

## 3. The runs

Each run, what it asks, its bounds and why they suffice:

| Run | Shows | Bounds |
|---|---|---|
| `web`, sessions | `CacheExact` (types, `CacheBound`, `OpenIffCached`, `LockBelongs`), `OneAskPerOpenAgent`, `RowsContiguous`, `EveryRequestEnds`, and `ApiServer` implements `SessionLog` | 2 sessions, 3 requests (a chat, the request that evicts its session, and the session's next chat), cache of 1, one process stop; no symmetry, which is unsound for liveness. The safety properties are proved for all sizes |
| `api_serial` | *violated*: `SessionSerialized` | cache of 1, 3 requests |
| `web`, limiter | `LimitExact` (`WindowBound`, `RefusedWhenFull`), `TableBound` | 3 keys, 2 requests in 2 ticks, 4 clock values, a table limit and a batch of 1: a key is pruned, comes back and meets the time it was pruned at; more keys are stale than a batch takes |
| `memory` | `FileExact` (types, `IdsUnique`, `LockReleased`), `BoundedGrowth`, `SessionIsolation`, `FactKept`, `WedgedUntilClosed` | 2 connections, 2 sessions, limits of 1, 2 keys, 2 clock values (ties and a clock set back), 3 rows ever, so that after a failed trim a session is over its limit by one and a further row shows whether the next trim takes it back, 1 statement that fails: a transaction left open, the other connection's busy timeout and snapshot need one failure. The third row is inserted only while there are no facts (`LastRowAlone`), which bounds the space and not what happens to messages |
| `calls`, provider | `CallBounded` (`PostsBounded`), `VerdictsStand` (a refused key is asked with no more, and what a post said is how the call goes on), `FailsLast`, `CallEnds`, and `Provider` implements `ModelFallback` | 3 names, 1 retry (2 in the code: the second is like the first), a status on each side of every test |
| `telegram`, polling | `NoUpdateLost`, `SentInOrder`, `EveryUpdateConfirmed` | 3 updates, 2 parts, 2 attempts (4 in the code: the third is like the second, and a failure may end a request at any attempt), 1 failure, 1 crash |
| `telegram`, webhook | `AskedInTurn`, `LostWithItsTask`, `TasksEnd` | 4 updates of 2 chats, one from a refused sender, 3 posts (two of one update, or a chat's first with two behind it), 2 parts, 1 failing call, 1 restart |
| `whatsapp` | `TablesExact` (`SeenAgree`, `QueueExact`), `AskedOnce`, `LostWithItsTask`, `TasksEnd` | 2 payloads of 2 senders, 3 posts, window of 2 ids for 3 messages, 1 failing send, 1 restart |
| `agent` | `PlansPermitted`, `PromptExact` (`PromptTellsRow`), `AnsweredIsStored`, `ForgottenIsGone`, `NoLateStart`, `ExchangeEnds` | 2 exchanges of 1 or 2 sessions, 4 configurations (local, device, and a server with execution enabled for one session, with and without `server_execute` and scripts in its lists), a text for each path, one thread: the second tool queues behind a first that hangs; 1 failing write |
| `agent_research` | *violated*: `ResearchReadsUrl` | as `agent`, one exchange |
| `agent_auto` | *violated*: `AutoSelectableOnly` | as `agent`, one exchange |
| `agent_scripts` | *violated*: `ScriptsAuthorized` | as `agent`, one exchange of either session |
| `agent_name` | *violated*: `NameOutlastsQuestion` | as `agent`, two exchanges of one session |
| `provider_429` | *violated*: `RateLimitBacksOff` | as `calls`, provider |
| `calls`, tools | `RequestsBounded`, `PagesAccounted`, `NothingLeft`, `CallsEnd` | 3 URLs of which one is not public, 2 pages of a search or a comparison (3 and 5 in the code: two already end in either order and fail apart), 1 redirect (a first that is followed, a second that is too many); every kind of descendant at once |
| `web`, tab | `ActiveExists`, `MessagesKept` | a list of 3, 5 chats ever, 3 messages: a list over its limit, a clearing during a request and another chat with messages at stake |

A module's type invariant is a conjunct of its first property, so each run evaluates it.

`web`, `calls` and `telegram` check modules that share no state and whose steps would only multiply. Each has one variable, set in the initial states, that says which
of the modules moves (`part`, `call`, `mode`); the others stay in one of their initial states, so a behaviour is one of exactly one module and the states of the run are the sum of
theirs. Fairness is weak fairness of the same steps under that condition: a module's own fairness in the behaviours that are its own, nothing in the others. TLC reports
each module's next-state relation as one action there; with `-coverage 1` no expression of any action has a count of 0.

| Run | Distinct states | Time (2 workers) |
|---|---|---|
| `web` | 539,217 | 2 min |
| `calls` | 405,624 | 1 min 15 s |
| `telegram` | 482,853 | 2 min 30 s |
| `memory` | 1,681,708 | 2 min 15 s |
| `agent` | 236,782 | 1 min 30 s |
| `whatsapp` | 282,232 | 1 min 15 s |

`CHECK_DEADLOCK FALSE` stands where the system may come to rest: all requests, tasks or updates of the bounded
instance are done. Memory always has a next step, so its runs check for deadlock.

### Fairness

* `ApiServer`: `WF(ChatStep(r))` and `WF(ThreadStep(r))`. The event loop and the thread pool run what is ready, and
  every provider and tool call has a timeout. A chat at the head of a lock's queue is woken by asyncio and stays at the
  head, so weak fairness is enough. Arrivals, evictions and stops have none.
* `AgentPipeline`: `WF(Proceed(x))`. A provider call ends (`CallEnds` of `Provider`), and `wait_for`'s timer fires whether the tool
  ever started or not. A thread need neither start nor finish an item, so `ExchangeEnds` holds with every thread hung.
* `Provider`: posts have an httpx timeout, sleeps end. Not which outcome a post has.
* `PollingBot`: the steps of the loop, as long as the process runs. Failures and crashes are bounded, so "when requests stop
  failing" is what the property says. A blocked user is excluded by name in `EveryUpdateConfirmed`; that exclusion is
  a hazard of the code, listed as one.
* `WhatsAppWebhook`, `TelegramWebhook`: the steps of each task; failing sends and restarts have none. asyncio's locks are
  first in first out, which is what `queue` is, so weak fairness of each task is enough.
* `ToolThread`: the calls begin, requests end (httpx's timeouts), and the waits of `execute` go on. Processes are fair to nobody: a script may
  run for ever and a descendant may keep the output open for ever. `CallsEnd` says that only the latter, outside the group, holds the thread. `CallEnds` and
  `CallsEnd` speak of a call that began; before that a caller may do something else.
* `RateLimiter`, `Memory` and `SmartChat` have safety properties only: nothing in them is obliged to happen.

### Where the code differs from its documents

* `api_serial`. README.md says that the API serializes concurrent requests per session. An eviction removes the
  lock of a session with a chat under way (`interfaces/api_server.py:167-170`); the session's next chat makes an agent and a lock of its
  own and runs beside it. The first chat's database is closed, so it fails at its next row: `OneAskPerOpenAgent` and
  `RowsContiguous` still hold, which is what the code does guarantee. The claim itself is proved for a cache with room for every
  session (`SerializedWithRoom`): evictions are all that breaks it.
* `agent_research`. `tools/registry.py:54` declares `web_research` with the argument `url`, the function behind it is
  `search_and_research(query)`. `Tool.run` refuses undeclared arguments and then misses the required one, so a plan that follows the registry, the
  planner's instructions or the keywords never reaches the function; that it does so in no configuration is proved (`ResearchIsNotCalled`).
* `agent_auto`. `docs/ARCHITECTURE.md:41` limits the selection of tools to those that are `auto_selectable`. `_plan_tool` adds `server_execute`, which is not, for a session that
  may use it (`core/agent_impl.py:192-193`). `PlansPermitted`, which holds and is proved, is the code's own policy with this exception.
* `agent_scripts`. `docs/AUDIT_STATUS.md:28` says that server execution is disabled unless the session is authorized. `server_diagnostics` and `server_execute` are two names of
  one function with the same arguments (`tools/registry.py:56-57`), and `run_tool` asks only the second name for the session: a plan of the first with the operation
  `safe_script` runs a listed script for any session, while execution is enabled at all.
* `agent_name`. `tests/test_agent.py:45-49` tells a name, asks for it and finds it in the prompt still. Its question is one `_NAME_QUERY` knows; `اسم من چیست` is not
  (`core/agent.py:21-25`), and the second of `_NAME_PATTERNS` (`core/agent_impl.py:60`) reads it as a name, which replaces the one that was told.
* `provider_429`. `docs/WEB_VERCEL.md:43` lists 429 among what Provider Nara retries with back-off. `_retryable` leaves it out, on purpose by its comment (`providers/base.py:41-43`): the
  next model is asked at once, and after the last one the call ends. `VerdictsStand` is the code's side of this disagreement, `RateLimitBacksOff` the document's.

Seen while reading, and not a run of their own:

* Memory exceeds its limit by one row per failed trim, because no method rolls back (`BoundedGrowth` is the bound that holds).
* `_format_web_results` (`core/agent.py`) looks for titles and addresses at the top level of a result, where `web_search` nests them;
  an echoed payload of another tool loses only the word in front of it, although `core/agent.py:5` says payloads never leak (`Shown`).
* The keyword path does not consult `AUTO_TOOLS`, which limits only the planner (`FastPlan`, `Allowed`).
* `clearChat` asks whether the conversation may be deleted; a reply under way then stores it again with the answer, drops the empty chat that
  replaced it, and leaves no active chat until one is selected (`ActiveExists`, `MessagesKept` name exactly this). The browser's request has no
  timeout of its own. Two tabs overwrite each other's `localStorage`.
* `_SearchParser` closes a result at the end of its title's link, so a snippet that follows it is never read; `httpx.InvalidURL` from a redirect
  passes every `except` of the web tools and gives up all pages of a search (`Outcome`).
* A script's descendant that starts a session of its own and keeps the output open holds the thread that waits in `execute` (`Detached`).
* Telegram sends the answers of a chat outside its lock, so a short answer may overtake a long one, although the agent was asked in order.

## 4. The proofs

TLAPS proves these for all constants that satisfy the named assumptions (`MaxAgentsAssumption`,
`MaxStopsAssumption`, `NoneAssumption` of `ApiServer`; the assumptions of `RateLimiter`; `BoundsAssumption`, `AnswersAssumption`, `SessionsAssumption` and
`MessagesAssumption` of `AgentPipeline`; `BoundsAssumption` and `NoneAssumption` of `Memory`; `RetriesAssumption` of `Provider`; `LimitsAssumption` of `PollingBot`;
`SenderAssumption`, `PayloadsAssumption`, `BoundsAssumption` of `WhatsAppWebhook`;
`ChatAssumption` and `BoundsAssumption` of `TelegramWebhook`; `UrlsAssumption` and `PagesAssumption` of `ToolThread`; `BoundsAssumption` of `SmartChat`), which
TLC also evaluates in the runs. They say that limits are numbers, where the code needs it positive ones, and that a table's values are of its type; sets
of sessions, keys, connections, models, messages and updates are arbitrary, and where a theorem counts it proves that what it counts is finite.
Three theorems hold only where a limit of the code is not reached, and say so: `EnoughRoom` (the sessions fit into the agent cache)
is assumed by `NoneClosedInUse` and `SerializedWithRoom`, `WindowHolds` (the ids fit into the window) by `AskedOnceWithRoom`.

**ApiServer_proofs.** `TypeCorrect`, `CacheBounded`, `NoConnectionLeak`, `NoLockLeak`, `MutualExclusion`,
`ImplementsTranscript`, `ContiguousRows`; `TablesFit` joins those about the tables. None of the safety properties is inductive alone: that two chats never ask
with one agent depends on which lock each waits at, and that depends on the table not having changed under them. The
invariant `IInv` adds

* `Refs`: a request under way holds a reference to the agent and, once queued, to the lock it stands in the queue of; who
  holds is at the head;
* `Fresh` and `Names`: a request that has not come names no agent and no lock yet, and objects are the ones
  of their session;
* `CurrentLock`: *a queued chat whose agent is still open stands at the lock its session has in the table*. Eviction
  closes the agent and removes the lock in one step, so a chat at an old lock has a closed agent.

`MutualExclusion` follows: two asking chats with one open agent are at the same lock, both at its head. The
refinement maps the abstract `open` exchanges to the asking chats whose agent is open. An eviction is then the abstract
`GiveUp`, a crash gives up all, and `ContiguousRows` is proved from `IInv` and the steps on `log`.

What evictions cost is made exact by the theorems without them: with `EnoughRoom` a session that is not cached finds the cache below its size, because the cached
sessions are different and it is not among them, so nothing is evicted (`NoVictims`), the agent of every request under way stays open (`NoneClosedInUse`), and
two asking chats of one session, whose agents are then the same, stand at one lock (`SerializedWithRoom`).

For the end of requests `NobodyIsStuck` and `RequestsAdvance` are the safety part of `EveryRequestEnds`: every request under way is `Ready`, or waits for the
running coroutine or the head of its line, which is; no step takes a request back and each of its own takes it further (`Place`), at most eight
times. The first needs `Lines` and `InLine` (*the line at a lock is made of exactly the chats that hold it or wait there, each once*, at locks that the table lost too) and `OneRuns`.

The same module has the theorems of `RateLimiter` (`LimiterSpec`): `LimitIsExact`, from `WindowBounded` and `RefusalsExact`. The deque forgets, by expiry and by pruning, and the properties
speak of everything ever admitted. `LimiterInv` says of each key that *its deque is the latest part of its admissions, and whatever is not in it
any more is a window old*; times do not decrease. An admission finds fewer than the limit in the deque, so the one it is compared with has left it. Pruning
drops a whole deque whose last time, and so every time, is a window old. `MaxTime`, which bounds the clock for TLC, may be any number.
`TableBounded` counts. An admission adds at most one key. Above the limit it either prunes a whole batch, and the table does not grow, or every stale key, and
then each key that is left was admitted within the window that ends now. The set of keys may be infinite: those in the table, and those ever
admitted, are proved finite (`TableInv`).

**Memory_proofs.** `Exactness`, `Growth`, `Isolation`, `Remembered`, `Wedge`, from one invariant (`Inductive`). A method is two statements, and between
them, or for ever after a failure, its transaction holds a file of its own (`view`) that a later commit puts in place of the shared one. `IInv` therefore says of
every view what the properties say of the file: its ids are in order and not above the last (`Rows`), and it is within the limits, *one row for each failed
statement and the row of the method under way aside* (`Grown`). `Locks` gives one writer, and `Follows` says that *a write transaction differs from the file
only in the rows of its own session, and a snapshot nobody overtook is the file*: that makes the late commit of a transaction left open harmless to other sessions. `KeyKept` carries
the fact written by the first statement of `remember` to the trim that is its second. The trims themselves are lemmas: `TrimWithin` that they take a table that is at
most one row over its limit back to it.

**WhatsAppWebhook_proofs.** `TypeCorrect`, `SeenAgreement`, `LocksExact`, `TablesStayExact`, `AskedOncePerSight`, `LostOnlyWithItsTask`. `AskedOnce` speaks of questions asked; a
task that waits for its lock will ask later without looking at the ids again, and by then its id may have left the
window. `Budget` counts both: questions asked and tasks that wait to ask are at most the times the id was forgotten, plus
one while it is remembered. `Take` adds a waiting task exactly when the id becomes remembered, `Ask` turns a waiting task
into a question, forgetting keeps the sum. `HeadAsks` (who asks is at the head of the queue) makes the release of the lock remove
the right task, for `LocksExact`.
For the lost messages `Course` adds what the handling of a payload accounts for: an acknowledged payload has a task (`Posted`); an id that is remembered is answered or has a task
that is at its message or failed at it (`SeenHeld`); *what a task is past is answered or still stands before a task* (`PassedHeld`). A duplicate is skipped because its id is
remembered, so `SeenHeld` turns the skip into someone else's duty, and a message of which nobody has the duty any more had a task that failed or was cancelled.
`AskedOnceWithRoom` says when the window of ids is enough: with `WindowHolds` an id that is new finds the window below its limit (`RoomForOne`, by counting), so only a restart forgets, and the
agent is asked about a message once per life of the process. `NobodyIsStuck` and `TasksAdvance` are the safety part of `TasksEnd`: a task under way can go on, or the head of its sender's
line can; no step takes a task back, each of its own takes it further in its payload or in the message it is at (`Further`), and one that is over stays so.

**AgentPipeline_proofs.** `PlansArePermitted`, `NothingStartsLate`, `PromptIsExact`, `Answered`, `Forgotten`. `IInv` is `PlansPermitted` with `Total` (the variables are
functions) and `ItemsWait`: *an item in the executor's queue is that of an exchange that still waits for its tool*. It holds because the end of
the wait cancels a queued item in the step in which the exchange goes on, and it is what makes `StartJob` start nothing late. That plans are permitted is
proved from the two definitions of the policy (`FastPermitted`, `PlannerPermitted`): the one that chooses, over the message and the session, and the one that
runs, over the registry. Sets of sessions, messages, policies and
arguments are arbitrary; the registry is the one of the module.
What an exchange has stored is a statement about its own rows among those of the others (`Own`, `ToolRows`). `Stored` (`RowsInvariance`) says that *an exchange under way has exactly one
question, which comes before its tool's rows, and while the model is asked the prompt is what the last of them says* (`RowsFit`); rows of other exchanges may stand anywhere between. The three
theorems follow from it step by step: the answer is stored after all of these; a failing write of the tool's row is followed by a second row, and the prompt says what that one says; if
that one fails too, the exchange does.
`ResultsFit` (`ResultsInvariance`) ties a result to its plan: *what a thread returned is what `run_tool` may return for the plan of the exchange*, under the configuration that chose it. Hence no chosen tool comes back refused
(`ToolsAreNotRefused`), and `web_research` only with an argument error (`ResearchIsNotCalled`). `ExchangesAdvance` is the safety part of `ExchangeEnds`: a started exchange takes at most three steps of its own, and no
thread's step moves it.

**Provider_proofs.** `CallIsBounded`, `VerdictsAreFinal`, `FailsAtLast`, `ImplementsFallback`. The properties speak of the record of all posts, a step only of the model
asked now. `IInv` says that *the last `attempt` posts went to this model and all others to earlier ones* (`Attempts`, `Turn`), that the last post is why there is another (`Reason`), and
that the models are all different (`Place`). A retry then adds to a run of posts, a fallback begins a run of a later model, and neither follows a verdict. For the refinement the posts to one model
are stuttering steps; the abstract steps are the start, the change of the model and the end. The abstract call asks the configured names in their order (`InPreference`). `Candidates` is defined by what the loop at `providers/nara_provider.py:29-33` yields, the names once each in the order of
their first places, and not by the fold that computes it, so that distinctness is in reach of the provers.
`TrafficOfCall` adds up the turns: the models before this one had a full share of `MaxRetries + 1` posts at most, this one its attempts (`TurnsPaid`), so a call sends at most
`(MaxFallbacks + 1) * (MaxRetries + 1)` posts, whatever fails.

**Telegram_proofs.** Of the webhook `AskedInOrder`, `LostOnlyWithTask`; of the polling bot `AnsweredBeforeConfirmed`, `OrderIsKept`. The order of the questions does not show in the stages alone: `IInv` adds that *a chat's line is
increasing and is made of exactly its tasks that wait for or have the lock* (`LineExact`), that who asks is at its head (`HeadAsks`), and that the
tasks which have not begun come after all others (`NewLast`), from the event loop's order. Whoever begins is then later than everyone in its line, and before the head
of a line no task of the chat waits (`HeadIsNext`). For the lost updates it adds that an acknowledged update has a task (`HasTask`) and that a
task is done with no part left (`PartsLeft`). `NobodyIsStuck` and `TasksAdvance` are the safety part of `TasksEnd` here: a task under way can go on, or an earlier one that has not begun or the head of
its chat's line can, and it takes at most `MaxParts + 4` steps. That somebody has not begun means that somebody is the first who has not, by well-founded induction (`LeastOf`).
The server forgets by a number, the bot goes on by another, and a crash sets the bot's back. `BotInv` ties both to what users got: *every update below the offset, below what is confirmed, or
before the head of the batch is closed*, that is, skipped or answered in full (`PastClosed`), with a batch that has no gap (`BatchRuns`), so that one step further is one
update further. That an answer is in full needs `Sending`: of the answer under way every message before this one arrived, and all of it agree on their number (`OneLength`), whatever attempts
were lost or repeated; a new attempt of an update counts as a new answer (`MessagesFit`). Nothing sent is taken back (`Grows`), so what is closed stays closed.

**ToolThread_proofs.** `RequestsStayBounded`, `EveryPageAccounted`, `NothingStaysRunning`. `WebInv` adds to the two properties that a page which
is asked for has a request left (`PagesFit`), so the check after a redirect counts in time; `ServerInv` that *a process runs only while it is waited
for, and once the group was killed no descendant in it is left and none can be started*. The two calls share no variable, and each step of the thread is a step of one.

**SmartChat_proofs.** `ListInvariant`, `ActiveStaysInList`, `MessagesAreKept`. A reply stores the list that its closure saw when the question was sent, so whether messages survive is a statement
about two lists of different ages. `Closure` relates them: *a request's list holds every chat with messages that the tab has now, unchanged, except the chat it was sent in, and the chats the tab has beyond it are
those that replaced others*. It is inductive because at most one request is under way: `loading` holds off a second one and a new chat aborts it, so what changes in the list meanwhile is which chats are
cleared, and a chat that replaced another stays empty until then.
A chat with messages then goes only in the step in which it is cleared (`Clears`) or as the last of a full list (`MakesRoom`). The filters of the code are stated by their effect on a list of different ids (`Place`, `RemoveAt`), which the lemmas of the first section describe.

What stays with TLC: every liveness property (`EveryRequestEnds`, `CallEnds`, `EveryUpdateConfirmed`, `TasksEnd`, `ExchangeEnds`, `CallsEnd`), which
needs `ENABLED` and is outside the prover (the predicates `Ready` and `CanGoOn` of the theorems above restate the guards; that they equal `ENABLED` TLC confirmed on the runs' instances); the six runs that show a violation; whatever a fold or another recursion computes for every input.

## 5. What is not modelled

* The components without a module in section 1, for now (the plan below), and those that are one call of the operating system or of
  HTTP: local tools, other providers (never used by Router), the command line, Flutter and Android.
* In the modelled components: texts, prompts and scores (`relevant_context`), authentication and signatures (predicates on a request),
  the client cache of `BaseProvider`, the polling bot's agent cache (one coroutine uses it), the WhatsApp test endpoint, the profile texts of
  `configure_webhook`, the parsing of pages and the byte limit of a response, which scripts are allowed; `http_tool`; in the web client the
  titles, the theme, a second tab and a full `localStorage`.
* Small things whose absence a reader should know. httpx resolves a name once more when it connects, after `_validate_url` did: "checked" is said of a URL and not of the
  address behind it. `localStorage.setItem` may throw in `persist`, after the list of the tab was set. A WhatsApp message with an empty id is no duplicate of any other
  (`interfaces/whatsapp.py:93-94`). `compare_pages` compares two to five pages; the proofs hold for any `MaxCompared`, the run has two.
* Values of time. Timeouts are steps that may happen; the clock of Memory is any number.

## 6. Plan

Written so far, in this order, the session layer first because every other part is used through it: `SessionLog`, `ApiServer`,
`ApiServer_proofs`, `Memory`, `ModelFallback`, `Provider`, `PollingBot`, `WhatsAppWebhook`, `WhatsAppWebhook_proofs`, `AgentPipeline`, `AgentPipeline_proofs`,
`RateLimiter`, `TelegramWebhook`, `WebResearch`, `ServerExecution`, `ToolThread`, `ToolThread_proofs`, `SmartChat`, `Memory_proofs`, `Provider_proofs`, `Telegram_proofs`, `SmartChat_proofs`.

Next modules:

1. `Deploy`: the steps of the script and their failures. After a failed deployment the previous image serves and is recorded.
2. `WebProxy`, composed with `SmartChat`: session cookies, the proxy's own rate window, the 65-second timeout of a request the server completes.
3. The pure parts as operators checked over bounded inputs: wifi channels, message cleaning, chunking.
4. The exchange as an abstract specification: `AgentPipeline` shown to implement what `ApiServer` assumes of `ask`.

The set of runs stays one a reader can survey: a new module's run replaces a weaker one, and properties that belong together are one
named conjunction.

Next theorems: the measures that are missing, those of the polling bot and of the web and server tools; that `WebResearch` and `ServerExecution` implement a
call that ends once; that `AgentPipeline` implements the exchange of item 4; a bound on the repetitions of an update by the polling bot.
