------------------------------ MODULE ApiServer ------------------------------
(***************************************************************************)
(* The session layer of interfaces/api_server.py: the bounded cache of     *)
(* agents, the table of per-session asyncio locks, and the /chat,          *)
(* /history and /memory handlers that share them.                          *)
(*                                                                         *)
(* /chat is a coroutine of the event loop: between two awaits no other     *)
(* coroutine runs.  /history and /memory are plain functions that FastAPI  *)
(* runs in threads: they interleave with the loop at any point.  Both call *)
(* _get_agent, which is atomic under _agents_lock, and then use the        *)
(* agent's own database connection, each call of which is atomic under     *)
(* Memory._lock.  The rows live in one database file shared by every       *)
(* connection, so they outlive agents and the process.                     *)
(*                                                                         *)
(* A request is used once.  An Agent object and a Lock object are named by *)
(* the request that created them.                                          *)
(***************************************************************************)
EXTENDS Naturals, Sequences

CONSTANTS
    Sessions,   \* owned session names (api:<fingerprint>)
    Requests,   \* HTTP requests
    MaxAgents,  \* 128 in the code
    MaxStops,   \* bound on process stops (graceful or not)
    None        \* Python's None

ASSUME MaxAgentsAssumption == MaxAgents \in Nat \ {0}
ASSUME MaxStopsAssumption == MaxStops \in Nat
ASSUME NoneAssumption == None \notin Requests

VARIABLES
    order,      \* keys of _agents in insertion order
    cached,     \* _agents: the agent of each session, or None
    locks,      \* _agent_locks: the lock of each session, or None
    closed,     \* agents whose database connection is closed
    queue,      \* queue[l]: holder of lock l, then its waiters
    loop,       \* the coroutine that runs between two awaits, or None
    pc,         \* where each request is
    sess,       \* the session of each request
    agent,      \* the agent a request holds a reference to
    lock,       \* the lock a request holds a reference to
    log,        \* rows of the messages table per session: <<request, role>>
    stops       \* number of process stops so far

cacheVars == <<order, cached, closed>>
vars == <<order, cached, locks, closed, queue, loop, pc, sess, agent, lock, log, stops>>

Agents == Requests
Locks == Requests
OrNone(S) == S \cup {None}

Roles == {"user", "tool", "assistant"}

\* A chat between `async with lock` and the end of Agent.ask: it runs, or awaits
\* the planner, a tool or the provider.
Running == {"holding", "forgotten", "tooled", "replying"}
Awaiting == {"planning", "completing"}
Holding == Running \cup Awaiting
\* ... after its question was stored.
Asking == {"planning", "tooled", "completing", "replying"}
Queued == Holding \cup {"waiting"}
Finished == {"answered", "failed", "lost"}
InFlight == Queued \cup {"gotAgent", "reading", "clearing"}

TypeOK ==
    /\ order \in Seq(Sessions)
    /\ cached \in [Sessions -> OrNone(Agents)]
    /\ locks \in [Sessions -> OrNone(Locks)]
    /\ closed \subseteq Agents
    /\ queue \in [Locks -> Seq(Requests)]
    /\ loop \in OrNone(Requests)
    /\ pc \in [Requests -> {"idle"} \cup InFlight \cup Finished]
    /\ sess \in [Requests -> OrNone(Sessions)]
    /\ agent \in [Requests -> OrNone(Agents)]
    /\ lock \in [Requests -> OrNone(Locks)]
    /\ log \in [Sessions -> Seq(Requests \X Roles)]
    /\ stops \in 0..MaxStops

Init ==
    /\ order = <<>>
    /\ cached = [s \in Sessions |-> None]
    /\ locks = [s \in Sessions |-> None]
    /\ closed = {}
    /\ queue = [l \in Locks |-> <<>>]
    /\ loop = None
    /\ pc = [r \in Requests |-> "idle"]
    /\ sess = [r \in Requests |-> None]
    /\ agent = [r \in Requests |-> None]
    /\ lock = [r \in Requests |-> None]
    /\ log = [s \in Sessions |-> <<>>]
    /\ stops = 0

-----------------------------------------------------------------------------
(* _get_agent                                                              *)

\* The session `_get_agent` evicts before it creates an agent: the oldest of a full cache.
Victims == IF Len(order) >= MaxAgents THEN {Head(order)} ELSE {}

Survivors == IF Victims = {} THEN order ELSE Tail(order)

\* Mutation of CloseVictims: the connection is left open.
KeepVictimsOpen == UNCHANGED closed

CloseVictims == closed' = closed \cup {cached[v] : v \in Victims}

\* Mutation of PopLocks: the lock of the evicted session stays in the table.
KeepLocks == UNCHANGED locks

PopLocks == locks' = [s \in Sessions |-> IF s \in Victims THEN None ELSE locks[s]]

\* The agent is in the cache.
HitAgent(r, s) ==
    /\ cached[s] # None
    /\ agent' = [agent EXCEPT ![r] = cached[s]]
    /\ UNCHANGED <<order, cached, locks, closed>>

\* The agent is created; the oldest one leaves a full cache, closed, and its lock with it.
NewAgent(r, s) ==
    /\ cached[s] = None
    /\ order' = Append(Survivors, s)
    /\ cached' = [x \in Sessions |-> IF x = s THEN r
                                     ELSE IF x \in Victims THEN None ELSE cached[x]]
    /\ PopLocks
    /\ CloseVictims
    /\ agent' = [agent EXCEPT ![r] = r]

\* Agent(session) raises (the database cannot be opened): the oldest one is gone all the same.
CreationFails(r, s) ==
    /\ cached[s] = None
    /\ order' = Survivors
    /\ cached' = [x \in Sessions |-> IF x \in Victims THEN None ELSE cached[x]]
    /\ PopLocks
    /\ CloseVictims
    /\ UNCHANGED agent

\* `_get_agent(s)` for request r, which goes on at `next` or ends with a 500.
GetAgent(r, s, next) ==
    /\ pc[r] = "idle"
    /\ sess' = [sess EXCEPT ![r] = s]
    /\ \/ /\ HitAgent(r, s) \/ NewAgent(r, s)
          /\ pc' = [pc EXCEPT ![r] = next]
       \/ /\ CreationFails(r, s)
          /\ pc' = [pc EXCEPT ![r] = "failed"]
    /\ UNCHANGED <<queue, lock, log, stops>>

-----------------------------------------------------------------------------
(* POST /chat                                                              *)

\* No coroutine is between two awaits, so another one may run.
LoopFree == loop = None

IsOpen(r) == agent[r] \notin closed

Store(r, role) == log' = [log EXCEPT ![sess[r]] = Append(@, <<r, role>>)]

\* `_get_agent`; the coroutine runs on to `_get_agent_lock` unless it raised.
ChatGetAgent(r, s) ==
    /\ LoopFree
    /\ GetAgent(r, s, "gotAgent")
    /\ loop' = IF pc'[r] = "gotAgent" THEN r ELSE None

\* Mutation of SetDefaultLock: every caller makes a lock of its own.
FreshLock(r) == r

\* `_agent_locks.setdefault(session, asyncio.Lock())`.
SetDefaultLock(r) == IF locks[sess[r]] = None THEN r ELSE locks[sess[r]]

\* `_get_agent_lock` and `async with`: a thread may have evicted the session since.
\* The lock is taken at once when nobody holds it or waits for it.
ChatTakeLock(r) ==
    /\ pc[r] = "gotAgent"
    /\ LET l == SetDefaultLock(r) IN
       /\ locks' = [locks EXCEPT ![sess[r]] = l]
       /\ lock' = [lock EXCEPT ![r] = l]
       /\ queue' = [queue EXCEPT ![l] = Append(@, r)]
       /\ IF queue[l] = <<>>
          THEN pc' = [pc EXCEPT ![r] = "holding"] /\ UNCHANGED loop
          ELSE pc' = [pc EXCEPT ![r] = "waiting"] /\ loop' = None
    /\ UNCHANGED <<order, cached, closed, sess, agent, log, stops>>

\* The lock was released to the longest waiter, which resumes.
ChatAcquire(r) ==
    /\ pc[r] = "waiting"
    /\ LoopFree
    /\ queue[lock[r]] # <<>> /\ Head(queue[lock[r]]) = r
    /\ pc' = [pc EXCEPT ![r] = "holding"]
    /\ loop' = r
    /\ UNCHANGED <<cacheVars, locks, queue, sess, agent, lock, log, stops>>

\* Mutation of Leave: a handler that fails keeps the lock.
LeaveLocked(r, outcome) ==
    /\ pc' = [pc EXCEPT ![r] = outcome]
    /\ queue' = IF outcome = "failed" THEN queue ELSE [queue EXCEPT ![lock[r]] = Tail(@)]
    /\ loop' = None

\* The handler returns or raises, and the lock goes to the next waiter.
Leave(r, outcome) ==
    /\ pc' = [pc EXCEPT ![r] = outcome]
    /\ queue' = [queue EXCEPT ![lock[r]] = Tail(@)]
    /\ loop' = None

\* The database call finds the connection closed: sqlite3 raises, the answer is a 500.
ChatFails(r) ==
    /\ \/ pc[r] \in Awaiting /\ LoopFree
       \/ pc[r] \in Running
    /\ ~IsOpen(r)
    /\ Leave(r, "failed")
    /\ UNCHANGED <<cacheVars, locks, sess, agent, lock, log, stops>>

\* "Forget everything": Agent._forget_from_message clears the session.
ChatForget(r) ==
    /\ pc[r] = "holding"
    /\ IsOpen(r)
    /\ log' = [log EXCEPT ![sess[r]] = <<>>]
    /\ pc' = [pc EXCEPT ![r] = "forgotten"]
    /\ UNCHANGED <<cacheVars, locks, queue, loop, sess, agent, lock, stops>>

\* The question is stored.  An identity or forget request is answered without an await.
ChatStoreQuestion(r) ==
    /\ pc[r] \in {"holding", "forgotten"}
    /\ IsOpen(r)
    /\ Store(r, "user")
    /\ \/ /\ pc[r] = "holding"
          /\ pc' = [pc EXCEPT ![r] = "planning"]
          /\ loop' = None
       \/ /\ pc' = [pc EXCEPT ![r] = "replying"]
          /\ UNCHANGED loop
    /\ UNCHANGED <<cacheVars, locks, queue, sess, agent, lock, stops>>

\* The tool planner chose a tool and the tool returned, failed or timed out.
ChatStoreTool(r) ==
    /\ pc[r] = "planning"
    /\ LoopFree
    /\ IsOpen(r)
    /\ Store(r, "tool")
    /\ pc' = [pc EXCEPT ![r] = "tooled"]
    /\ loop' = r
    /\ UNCHANGED <<cacheVars, locks, queue, sess, agent, lock, stops>>

\* Agent._system reads the context, then the provider is awaited.
ChatReadContext(r) ==
    /\ \/ pc[r] = "planning" /\ LoopFree
       \/ pc[r] = "tooled"
    /\ IsOpen(r)
    /\ pc' = [pc EXCEPT ![r] = "completing"]
    /\ loop' = None
    /\ UNCHANGED <<cacheVars, locks, queue, sess, agent, lock, log, stops>>

\* The answer (or, after a provider error, the apology) is stored and returned.
ChatStoreAnswer(r) ==
    /\ \/ pc[r] = "completing" /\ LoopFree
       \/ pc[r] = "replying"
    /\ IsOpen(r)
    /\ Store(r, "assistant")
    /\ Leave(r, "answered")
    /\ UNCHANGED <<cacheVars, locks, sess, agent, lock, stops>>

ChatStep(r) ==
    \/ ChatTakeLock(r)
    \/ ChatAcquire(r)
    \/ ChatForget(r)
    \/ ChatStoreQuestion(r)
    \/ ChatStoreTool(r)
    \/ ChatReadContext(r)
    \/ ChatStoreAnswer(r)
    \/ ChatFails(r)

-----------------------------------------------------------------------------
(* GET /history and DELETE /memory, in threads, without the session's lock *)

HistoryGetAgent(r, s) == GetAgent(r, s, "reading") /\ UNCHANGED loop

ClearGetAgent(r, s) == GetAgent(r, s, "clearing") /\ UNCHANGED loop

HistoryRead(r) ==
    /\ pc[r] = "reading"
    /\ pc' = [pc EXCEPT ![r] = IF IsOpen(r) THEN "answered" ELSE "failed"]
    /\ UNCHANGED <<cacheVars, locks, queue, loop, sess, agent, lock, log, stops>>

ClearMemory(r) ==
    /\ pc[r] = "clearing"
    /\ IF IsOpen(r)
       THEN /\ log' = [log EXCEPT ![sess[r]] = <<>>]
            /\ pc' = [pc EXCEPT ![r] = "answered"]
       ELSE /\ pc' = [pc EXCEPT ![r] = "failed"]
            /\ UNCHANGED log
    /\ UNCHANGED <<cacheVars, locks, queue, loop, sess, agent, lock, stops>>

ThreadStep(r) == HistoryRead(r) \/ ClearMemory(r)

-----------------------------------------------------------------------------
(* The end of the process; it starts again with empty tables.              *)

\* The process's objects are gone, its connections closed.
EmptyTables ==
    /\ order' = <<>>
    /\ cached' = [s \in Sessions |-> None]
    /\ locks' = [s \in Sessions |-> None]
    /\ closed' = closed \cup {cached[s] : s \in {x \in Sessions : cached[x] # None}}
    /\ queue' = [l \in Locks |-> <<>>]
    /\ loop' = None
    /\ stops' = stops + 1
    /\ UNCHANGED <<sess, agent, lock, log>>

\* lifespan: uvicorn has let every request end before it closes the agents.
Shutdown ==
    /\ stops < MaxStops
    /\ \A r \in Requests : pc[r] \notin InFlight
    /\ EmptyTables
    /\ UNCHANGED pc

\* The process is killed: requests under way get no answer, committed rows stay.
Crash ==
    /\ stops < MaxStops
    /\ \E r \in Requests : pc[r] \in InFlight
    /\ EmptyTables
    /\ pc' = [r \in Requests |-> IF pc[r] \in InFlight THEN "lost" ELSE pc[r]]

Arrive(r, s) == ChatGetAgent(r, s) \/ HistoryGetAgent(r, s) \/ ClearGetAgent(r, s)

Next ==
    \/ \E r \in Requests, s \in Sessions : Arrive(r, s)
    \/ \E r \in Requests : ChatStep(r) \/ ThreadStep(r)
    \/ Shutdown
    \/ Crash

Spec == Init /\ [][Next]_vars

\* The loop and the threads keep running, and the provider and tool calls a
\* chat awaits all have timeouts: a request that can take a step takes it.
Fairness == \A r \in Requests : WF_vars(ChatStep(r)) /\ WF_vars(ThreadStep(r))

FairSpec == Spec /\ Fairness

-----------------------------------------------------------------------------
(* Correctness                                                             *)

\* The cache never holds more than MaxAgents sessions, each once, whatever the
\* threads and the loop do between the test of its size and the insertion.
CacheBound ==
    /\ Len(order) <= MaxAgents
    /\ \A i, j \in 1..Len(order) : order[i] = order[j] => i = j
    /\ \A s \in Sessions : cached[s] # None <=> \E i \in 1..Len(order) : order[i] = s

\* An agent with an open connection is the cached agent of its session: no connection
\* leaks out of the cache, and the cache never hands out a closed agent.
OpenIffCached ==
    /\ \A s \in Sessions : cached[s] \notin closed
    /\ \A r \in Requests :
           agent[r] # None => (IsOpen(r) <=> cached[sess[r]] = agent[r])

\* Two chats that are both past the storing of their question never share an open
\* agent: the lock popped by an eviction is never the lock of an agent still in use.
OneAskPerOpenAgent ==
    \A r1, r2 \in Requests :
        /\ pc[r1] \in Asking /\ pc[r2] \in Asking
        /\ agent[r1] = agent[r2] /\ IsOpen(r1)
        => r1 = r2

\* The rows of an exchange are contiguous: a tool result or an answer follows a row
\* of its own exchange, or is the first row that survived a clear.
RowsContiguous ==
    \A s \in Sessions : \A i \in 2..Len(log[s]) :
        log[s][i][2] # "user" => log[s][i][1] = log[s][i - 1][1]

\* An entry of the lock table belongs to a cached session.  The one exception is the
\* entry made by a chat whose agent a thread evicted between `_get_agent` and
\* `_get_agent_lock`, and such a chat can only fail: a session that was served
\* leaves nothing behind in the table once it is evicted.
LockBelongs ==
    \A s \in Sessions :
        locks[s] # None => cached[s] # None \/ pc[locks[s]] \in {"holding", "failed"}

\* Cache, connections and lock table fit one another, whatever an eviction, a failed
\* creation or a stop comes between.
CacheExact == TypeOK /\ CacheBound /\ OpenIffCached /\ LockBelongs

\* The open exchanges of the abstract specification: those whose agent is still open.
OpenExchanges == {<<sess[r], r>> : r \in {x \in Requests : pc[x] \in Asking /\ IsOpen(x)}}

\* Each step of the API is a step of the abstract transcript, or leaves it alone.
Transcript == INSTANCE SessionLog WITH open <- OpenExchanges
TranscriptSpec == Transcript!Spec

\* Every request that arrives is answered, fails, or is lost with the process: no
\* chat waits for ever for a session lock.
EveryRequestEnds == \A r \in Requests : pc[r] # "idle" ~> pc[r] \in Finished

\* README.md, "serializes concurrent requests per Agent session": at most one request
\* of a session runs Agent.ask.
SessionSerialized ==
    \A r1, r2 \in Requests :
        pc[r1] \in Asking /\ pc[r2] \in Asking /\ sess[r1] = sess[r2] => r1 = r2
=============================================================================
