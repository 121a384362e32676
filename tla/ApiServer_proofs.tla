-------------------------- MODULE ApiServer_proofs --------------------------
(***************************************************************************)
(* Proofs about interfaces/api_server.py.  ApiServer, for any number of    *)
(* sessions and requests, any size of the cache and any number of process  *)
(* stops; RateLimiter, for every set of keys, limit, window, table limit   *)
(* and batch: its window bound, the exactness of its refusals, the bound   *)
(* of its table.                                                           *)
(***************************************************************************)
EXTENDS ApiServer, RateLimiter, FiniteSetTheorems, TLAPS

-----------------------------------------------------------------------------
(* What an eviction does to the insertion order of the cache.              *)

\* Survivors is order without its evicted head: one place is free, no key is
\* repeated, and exactly the keys that are not victims are left.
LEMMA SurvivorsLemma ==
    ASSUME order \in Seq(Sessions), Len(order) <= MaxAgents,
           \A i, j \in 1..Len(order) : order[i] = order[j] => i = j
    PROVE  /\ Survivors \in Seq(Sessions)
           /\ Len(Survivors) < MaxAgents
           /\ \A i, j \in 1..Len(Survivors) : Survivors[i] = Survivors[j] => i = j
           /\ \A s \in Sessions :
                  (\E i \in 1..Len(Survivors) : Survivors[i] = s)
                  <=> (s \notin Victims /\ \E i \in 1..Len(order) : order[i] = s)
           /\ \A v \in Victims : v \in Sessions /\ \E i \in 1..Len(order) : order[i] = v
<1>0. MaxAgents \in Nat \ {0}
  BY MaxAgentsAssumption
<1>1. CASE Len(order) < MaxAgents
  <2>1. Victims = {} /\ Survivors = order
    BY <1>0, <1>1 DEF Victims, Survivors
  <2> QED
    BY <2>1, <1>1
<1>2. CASE Len(order) >= MaxAgents
  <2>1. Len(order) = MaxAgents /\ order # <<>>
    BY <1>0, <1>2
  <2>2. Victims = {order[1]} /\ Survivors = Tail(order)
    BY <1>0, <1>2, <2>1 DEF Victims, Survivors
  <2>3. /\ Tail(order) \in Seq(Sessions)
        /\ Len(Tail(order)) = Len(order) - 1
        /\ \A i \in 1..Len(Tail(order)) : Tail(order)[i] = order[i + 1]
    BY <2>1
  <2>4. Len(order) \in Nat /\ 1 \in 1..Len(order)
    BY <2>1, <1>0
  <2>5. \A i, j \in 1..Len(Tail(order)) : Tail(order)[i] = Tail(order)[j] => i = j
    BY <2>3, <2>4
  <2>6. ASSUME NEW s \in Sessions
        PROVE  (\E i \in 1..Len(Tail(order)) : Tail(order)[i] = s)
               <=> (s # order[1] /\ \E i \in 1..Len(order) : order[i] = s)
    <3>1. ASSUME NEW i \in 1..Len(Tail(order)), Tail(order)[i] = s
          PROVE  s # order[1] /\ \E j \in 1..Len(order) : order[j] = s
      <4>1. i + 1 \in 1..Len(order) /\ order[i + 1] = s /\ i + 1 # 1
        BY <3>1, <2>3, <2>4
      <4> QED
        BY <4>1, <2>4
    <3>2. ASSUME NEW i \in 1..Len(order), order[i] = s, s # order[1]
          PROVE  \E j \in 1..Len(Tail(order)) : Tail(order)[j] = s
      <4>1. i # 1
        BY <3>2
      <4>2. i - 1 \in 1..Len(Tail(order)) /\ (i - 1) + 1 = i
        BY <4>1, <2>3, <2>4
      <4> QED
        BY <4>2, <3>2, <2>3
    <3> QED
      BY <3>1, <3>2
  <2>7. order[1] \in Sessions
    BY <2>4
  <2> QED
    BY <2>1, <2>2, <2>3, <2>4, <2>5, <2>6, <2>7, <1>0
<1> QED
  BY <1>0, <1>1, <1>2

\* What Append does, element by element.
LEMMA AppendElements ==
    ASSUME NEW S, NEW q \in Seq(S), NEW e \in S
    PROVE  /\ Append(q, e) \in Seq(S)
           /\ Len(q) \in Nat
           /\ Len(Append(q, e)) = Len(q) + 1
           /\ \A i \in 1..Len(q) : Append(q, e)[i] = q[i]
           /\ Append(q, e)[Len(q) + 1] = e
           /\ Append(q, e) # <<>>
OBVIOUS

\* A key appended to such a sequence, which it does not hold, is its one new key.
LEMMA AppendLemma ==
    ASSUME NEW S, NEW q \in Seq(S), NEW s \in S,
           \A i, j \in 1..Len(q) : q[i] = q[j] => i = j,
           \A i \in 1..Len(q) : q[i] # s
    PROVE  /\ Append(q, s) \in Seq(S)
           /\ Len(Append(q, s)) = Len(q) + 1
           /\ \A i, j \in 1..Len(Append(q, s)) : Append(q, s)[i] = Append(q, s)[j] => i = j
           /\ \A x \in S : (\E i \in 1..Len(Append(q, s)) : Append(q, s)[i] = x)
                           <=> (x = s \/ \E i \in 1..Len(q) : q[i] = x)
<1>1. /\ Append(q, s) \in Seq(S)
      /\ Len(q) \in Nat
      /\ Len(Append(q, s)) = Len(q) + 1
      /\ \A i \in 1..Len(q) : Append(q, s)[i] = q[i]
      /\ Append(q, s)[Len(q) + 1] = s
  BY AppendElements
<1>2. \A i \in 1..(Len(q) + 1) : i \in 1..Len(q) \/ i = Len(q) + 1
  BY <1>1
<1>3. \A i, j \in 1..Len(Append(q, s)) : Append(q, s)[i] = Append(q, s)[j] => i = j
  BY <1>1, <1>2
<1>4. ASSUME NEW x \in S
      PROVE  (\E i \in 1..Len(Append(q, s)) : Append(q, s)[i] = x)
             <=> (x = s \/ \E i \in 1..Len(q) : q[i] = x)
  <2>1. Len(q) + 1 \in 1..Len(Append(q, s)) /\ 1..Len(q) \subseteq 1..Len(Append(q, s))
    BY <1>1
  <2> QED
    BY <1>1, <1>2, <2>1
<1> QED
  BY <1>1, <1>3, <1>4

-----------------------------------------------------------------------------
(* The inductive invariant                                                 *)

\* A request under way holds an agent and, once queued, a lock; the holder of a lock
\* is the head of its queue.
Refs ==
    \A r \in Requests :
        /\ pc[r] = "idle" => agent[r] = None
        /\ pc[r] \in InFlight => agent[r] # None
        /\ agent[r] # None => sess[r] \in Sessions
        /\ pc[r] \in Queued => lock[r] # None
        /\ pc[r] \in Holding => queue[lock[r]] # <<>> /\ Head(queue[lock[r]]) = r

\* The agent and the lock that a request has not created yet do not exist.
Fresh ==
    \A r \in Requests :
        /\ pc[r] = "idle" =>
              /\ r \notin closed
              /\ \A s \in Sessions : cached[s] # r
              /\ \A q \in Requests : agent[q] # r
        /\ pc[r] \in {"idle", "gotAgent"} =>
              /\ queue[r] = <<>>
              /\ \A s \in Sessions : locks[s] # r
              /\ \A q \in Requests : lock[q] # r

\* Agents and locks are made for the session of the request that made them.
Names ==
    \A s \in Sessions :
        /\ cached[s] # None => sess[cached[s]] = s
        /\ locks[s] # None => sess[locks[s]] = s

\* A queued chat whose agent is open queues at the lock the table now holds.
CurrentLock ==
    \A r \in Requests :
        pc[r] \in Queued /\ IsOpen(r) => lock[r] = locks[sess[r]]

IInv ==
    /\ TypeOK
    /\ CacheBound
    /\ OpenIffCached
    /\ Refs
    /\ Fresh
    /\ Names
    /\ CurrentLock
    /\ LockBelongs

LEMMA InitIInv == Init => IInv
<1> SUFFICES ASSUME Init PROVE IInv
  OBVIOUS
<1> USE NoneAssumption, MaxAgentsAssumption, MaxStopsAssumption
<1>1. TypeOK
  BY DEF Init, TypeOK, OrNone, Agents, Locks
<1>2. CacheBound
  BY DEF Init, CacheBound
<1>3. OpenIffCached
  BY DEF Init, OpenIffCached
<1>4. Refs
  BY DEF Init, Refs, InFlight, Queued, Holding, Running, Awaiting
<1>5. Fresh
  BY DEF Init, Fresh, Locks
<1>6. Names /\ CurrentLock /\ LockBelongs
  BY DEF Init, Names, CurrentLock, LockBelongs, Queued, Holding, Running, Awaiting
<1> QED
  BY <1>1, <1>2, <1>3, <1>4, <1>5, <1>6 DEF IInv

\* What _get_agent does to the cache: the agent returned is the cached, open agent of
\* the session, and evicted sessions lose agent and lock together.
LEMMA GetAgentStep ==
    ASSUME IInv, NEW r \in Requests, NEW s \in Sessions,
           NEW next \in {"gotAgent", "reading", "clearing"},
           GetAgent(r, s, next), loop' \in OrNone(Requests)
    PROVE  IInv'
<1> USE NoneAssumption, MaxAgentsAssumption
<1> USE DEF IInv
<1>0. /\ pc[r] = "idle" /\ agent[r] = None
      /\ sess' = [sess EXCEPT ![r] = s]
      /\ UNCHANGED <<queue, lock, log, stops>>
  BY DEF GetAgent, Refs
<1>1. CASE HitAgent(r, s) /\ pc' = [pc EXCEPT ![r] = next]
  <2> USE <1>0, <1>1 DEF HitAgent
  <2>0. cached[s] \in Requests /\ cached[s] # r
    BY DEF TypeOK, OrNone, Agents, Fresh
  <2>1. TypeOK'
    BY <2>0 DEF TypeOK, OrNone, Agents, Locks, InFlight, Queued, Holding, Running, Awaiting
  <2>2. CacheBound'
    BY DEF CacheBound
  <2>3. OpenIffCached'
    BY <2>0 DEF OpenIffCached, TypeOK, IsOpen, OrNone, Agents
  <2>4. Refs'
    BY <2>0 DEF Refs, TypeOK, InFlight, Queued, Holding, Running, Awaiting, OrNone, Agents
  <2>5. Fresh'
    BY <2>0 DEF Fresh, TypeOK
  <2>6. Names'
    BY <2>0 DEF Names, Fresh, TypeOK, OrNone, Agents, Locks
  <2>7. CurrentLock'
    BY <2>0 DEF CurrentLock, TypeOK, IsOpen, Queued, Holding, Running, Awaiting
  <2>8. LockBelongs'
    BY <2>0 DEF LockBelongs, Fresh, TypeOK, OrNone, Locks
  <2> QED
    BY <2>1, <2>2, <2>3, <2>4, <2>5, <2>6, <2>7, <2>8
<1>v. /\ \A v \in Victims : v \in Sessions /\ cached[v] # None /\ cached[v] \in Requests
      /\ Survivors \in Seq(Sessions)
      /\ Len(Survivors) < MaxAgents
      /\ \A i, j \in 1..Len(Survivors) : Survivors[i] = Survivors[j] => i = j
      /\ \A x \in Sessions : (\E i \in 1..Len(Survivors) : Survivors[i] = x)
                             <=> (x \notin Victims /\ cached[x] # None)
  <2>1. /\ order \in Seq(Sessions) /\ Len(order) <= MaxAgents
        /\ \A i, j \in 1..Len(order) : order[i] = order[j] => i = j
        /\ \A x \in Sessions : cached[x] # None <=> \E i \in 1..Len(order) : order[i] = x
    BY DEF TypeOK, CacheBound
  <2>2. cached \in [Sessions -> OrNone(Requests)]
    BY DEF TypeOK, Agents
  <2> QED
    BY <2>1, <2>2, SurvivorsLemma DEF OrNone
<1>2. CASE NewAgent(r, s) /\ pc' = [pc EXCEPT ![r] = next]
  <2> USE <1>0, <1>2 DEF NewAgent, CloseVictims, PopLocks
  <2>0. s \notin Victims /\ cached'[s] = r /\ agent'[r] = r /\ sess'[r] = s
    BY <1>v DEF TypeOK
  <2>1. TypeOK'
    <3>1. order' \in Seq(Sessions)
      BY <1>v
    <3> QED
      BY <1>v, <3>1 DEF TypeOK, OrNone, Agents, Locks, InFlight, Queued, Holding, Running, Awaiting
  <2>2. CacheBound'
    <3>1. \A i \in 1..Len(Survivors) : Survivors[i] # s
      BY <1>v
    <3>2. /\ Len(order') = Len(Survivors) + 1
          /\ \A i, j \in 1..Len(order') : order'[i] = order'[j] => i = j
          /\ \A x \in Sessions : (\E i \in 1..Len(order') : order'[i] = x)
                                 <=> (x = s \/ \E i \in 1..Len(Survivors) : Survivors[i] = x)
      BY <1>v, <3>1, AppendLemma
    <3>3. Len(order') <= MaxAgents
      BY <3>2, <1>v
    <3>4. \A x \in Sessions : cached'[x] # None <=> \E i \in 1..Len(order') : order'[i] = x
      BY <3>2, <1>v
    <3> QED
      BY <3>2, <3>3, <3>4 DEF CacheBound
  <2>3. OpenIffCached'
    <3>1. \A x \in Sessions : cached'[x] \notin closed'
      BY <1>v DEF OpenIffCached, Names, Fresh
    <3>2. ASSUME NEW q \in Requests, agent'[q] # None
          PROVE  agent'[q] \notin closed' <=> cached'[sess'[q]] = agent'[q]
      <4>1. CASE q = r
        BY <4>1, <2>0, <1>v DEF Fresh, TypeOK
      <4>2. CASE q # r
        <5>1. agent'[q] = agent[q] /\ sess'[q] = sess[q] /\ sess[q] \in Sessions /\ agent[q] # r
          BY <4>2, <3>2 DEF TypeOK, Refs, Fresh
        <5>2. agent[q] \notin closed <=> cached[sess[q]] = agent[q]
          BY <3>2, <5>1 DEF OpenIffCached, IsOpen
        <5> QED
          BY <5>1, <5>2, <3>2, <1>v DEF Names
      <4> QED
        BY <4>1, <4>2
    <3> QED
      BY <3>1, <3>2 DEF OpenIffCached, IsOpen
  <2>4. Refs'
    BY DEF Refs, TypeOK, InFlight, Queued, Holding, Running, Awaiting, OrNone, Agents
  <2>5. Fresh'
    BY <1>v DEF Fresh, TypeOK
  <2>6. Names'
    BY DEF Names, Fresh, TypeOK, OrNone, Agents, Locks
  <2>7. CurrentLock'
    <3> SUFFICES ASSUME NEW q \in Requests, pc'[q] \in Queued, agent'[q] \notin closed'
                 PROVE  lock'[q] = locks'[sess'[q]]
      BY DEF CurrentLock, IsOpen
    <3>1. q # r /\ pc[q] \in Queued /\ agent'[q] = agent[q] /\ sess'[q] = sess[q]
      BY DEF TypeOK, Queued, Holding, Running, Awaiting
    <3>2. /\ agent[q] \notin closed /\ sess[q] \in Sessions
          /\ cached[sess[q]] = agent[q] /\ lock[q] = locks[sess[q]]
      BY <3>1, <1>v DEF CurrentLock, IsOpen, OpenIffCached, Refs, InFlight, TypeOK
    <3>3. sess[q] \notin Victims
      BY <3>1, <3>2
    <3> QED
      BY <3>1, <3>2, <3>3
  <2>8. LockBelongs'
    BY <1>v DEF LockBelongs, Fresh, TypeOK, OrNone, Locks
  <2> QED
    BY <2>1, <2>2, <2>3, <2>4, <2>5, <2>6, <2>7, <2>8
<1>3. CASE CreationFails(r, s) /\ pc' = [pc EXCEPT ![r] = "failed"]
  <2> USE <1>0, <1>3 DEF CreationFails, CloseVictims, PopLocks
  <2>1. TypeOK'
    BY <1>v DEF TypeOK, OrNone, Agents, Locks, Finished
  <2>2. CacheBound'
    BY <1>v DEF CacheBound
  <2>3. OpenIffCached'
    <3>1. \A x \in Sessions : cached'[x] \notin closed'
      BY <1>v DEF OpenIffCached, Names, Fresh
    <3>2. ASSUME NEW q \in Requests, agent[q] # None
          PROVE  agent[q] \notin closed' <=> cached'[sess'[q]] = agent[q]
      <4>1. q # r /\ sess'[q] = sess[q] /\ sess[q] \in Sessions
        BY <3>2 DEF TypeOK, Refs
      <4>2. agent[q] \notin closed <=> cached[sess[q]] = agent[q]
        BY <3>2, <4>1 DEF OpenIffCached, IsOpen
      <4> QED
        BY <4>1, <4>2, <3>2, <1>v DEF Names
    <3> QED
      BY <3>1, <3>2 DEF OpenIffCached, IsOpen
  <2>4. Refs'
    BY DEF Refs, TypeOK, InFlight, Queued, Holding, Running, Awaiting
  <2>5. Fresh'
    BY <1>v DEF Fresh, TypeOK
  <2>6. Names'
    BY DEF Names, Fresh, TypeOK, OrNone, Agents, Locks
  <2>7. CurrentLock'
    <3> SUFFICES ASSUME NEW q \in Requests, pc'[q] \in Queued, agent[q] \notin closed'
                 PROVE  lock[q] = locks'[sess'[q]]
      BY DEF CurrentLock, IsOpen
    <3>1. q # r /\ pc[q] \in Queued /\ sess'[q] = sess[q]
      BY DEF TypeOK, Queued, Holding, Running, Awaiting
    <3>2. /\ agent[q] \notin closed /\ sess[q] \in Sessions
          /\ cached[sess[q]] = agent[q] /\ lock[q] = locks[sess[q]]
      BY <3>1, <1>v DEF CurrentLock, IsOpen, OpenIffCached, Refs, InFlight, TypeOK
    <3>3. sess[q] \notin Victims
      BY <3>1, <3>2
    <3> QED
      BY <3>1, <3>2, <3>3
  <2>8. LockBelongs'
    BY <1>v DEF LockBelongs, Fresh, TypeOK, OrNone, Locks
  <2> QED
    BY <2>1, <2>2, <2>3, <2>4, <2>5, <2>6, <2>7, <2>8
<1> QED
  BY <1>1, <1>2, <1>3 DEF GetAgent

\* Rows appended or deleted leave the log a log.
LEMMA LogType ==
    ASSUME TypeOK, NEW r \in Requests, sess[r] \in Sessions,
           \/ \E role \in Roles : Store(r, role)
           \/ log' = [log EXCEPT ![sess[r]] = <<>>]
           \/ UNCHANGED log
    PROVE  log' \in [Sessions -> Seq(Requests \X Roles)]
<1>1. ASSUME NEW role \in Roles, Store(r, role)
      PROVE  log' \in [Sessions -> Seq(Requests \X Roles)]
  <2>1. log \in [Sessions -> Seq(Requests \X Roles)] /\ <<r, role>> \in Requests \X Roles
    BY DEF TypeOK
  <2>2. Append(log[sess[r]], <<r, role>>) \in Seq(Requests \X Roles)
    BY <2>1
  <2> QED
    BY <2>1, <2>2, <1>1 DEF Store
<1>2. CASE log' = [log EXCEPT ![sess[r]] = <<>>]
  BY <1>2 DEF TypeOK
<1>3. CASE UNCHANGED log
  BY <1>3 DEF TypeOK
<1> QED
  BY <1>1, <1>2, <1>3

\* A request goes on without touching the cache or a lock's queue.
LEMMA GoOnStep ==
    ASSUME IInv, NEW r \in Requests,
           NEW p \in (InFlight \cup Finished) \ {"gotAgent"},
           pc[r] \in InFlight,
           pc' = [pc EXCEPT ![r] = p],
           p \in Queued => pc[r] \in Queued,
           p \in Holding => queue[lock[r]] # <<>> /\ Head(queue[lock[r]]) = r,
           pc[r] = "holding" => IsOpen(r),
           log' \in [Sessions -> Seq(Requests \X Roles)],
           loop' \in OrNone(Requests),
           UNCHANGED <<order, cached, closed, locks, queue, sess, agent, lock, stops>>
    PROVE  IInv'
<1> USE NoneAssumption
<1> USE DEF IInv
<1>1. TypeOK'
  BY DEF TypeOK
<1>2. CacheBound' /\ OpenIffCached' /\ Names'
  BY DEF CacheBound, OpenIffCached, Names, IsOpen
<1>3. Refs'
  BY DEF Refs, TypeOK, InFlight, Finished, Queued, Holding, Running, Awaiting
<1>4. Fresh'
  BY DEF Fresh, TypeOK, InFlight, Finished, Queued, Holding, Running, Awaiting
<1>5. CurrentLock'
  BY DEF CurrentLock, IsOpen, TypeOK
<1>6. LockBelongs'
  <2> SUFFICES ASSUME NEW s \in Sessions, locks[s] # None, cached[s] = None
               PROVE  pc'[locks[s]] \in {"holding", "failed"}
    BY DEF LockBelongs
  <2>1. pc[locks[s]] \in {"holding", "failed"} /\ sess[locks[s]] = s
    BY DEF LockBelongs, Names
  <2>2. CASE locks[s] = r
    <3>1. pc[r] = "holding" /\ IsOpen(r) /\ agent[r] # None
      BY <2>1, <2>2 DEF InFlight, Queued, Holding, Running, Awaiting, Refs
    <3> QED
      BY <2>1, <2>2, <3>1 DEF OpenIffCached
  <2>3. CASE locks[s] # r
    BY <2>1, <2>3 DEF TypeOK
  <2> QED
    BY <2>2, <2>3
<1> QED
  BY <1>1, <1>2, <1>3, <1>4, <1>5, <1>6

\* The holder of a lock leaves; whoever else counts on that lock was not its head.
LEMMA LeaveStep ==
    ASSUME IInv, NEW r \in Requests, NEW p \in {"answered", "failed"},
           pc[r] \in Holding,
           p = "failed" \/ IsOpen(r),
           Leave(r, p),
           log' \in [Sessions -> Seq(Requests \X Roles)],
           UNCHANGED <<order, cached, closed, locks, sess, agent, lock, stops>>
    PROVE  IInv'
<1> USE NoneAssumption
<1> USE DEF IInv, Leave
<1>0. /\ lock[r] \in Requests
      /\ queue[lock[r]] \in Seq(Requests)
      /\ queue[lock[r]] # <<>>
      /\ Head(queue[lock[r]]) = r
      /\ agent[r] # None
  BY DEF TypeOK, Refs, OrNone, Locks, Queued, InFlight
<1>1. TypeOK'
  <2>1. Tail(queue[lock[r]]) \in Seq(Requests)
    BY <1>0
  <2> QED
    BY <2>1 DEF TypeOK, OrNone, Finished
<1>2. CacheBound' /\ OpenIffCached' /\ Names'
  BY DEF CacheBound, OpenIffCached, Names, IsOpen
<1>3. Refs'
  <2> SUFFICES ASSUME NEW q \in Requests, pc'[q] \in Holding
               PROVE  queue'[lock[q]] # <<>> /\ Head(queue'[lock[q]]) = q
    BY DEF Refs, TypeOK, InFlight, Finished, Queued, Holding, Running, Awaiting
  <2>1. q # r /\ pc[q] \in Holding
    BY DEF TypeOK, Holding, Running, Awaiting
  <2>2. lock[q] # lock[r] /\ queue[lock[q]] # <<>> /\ Head(queue[lock[q]]) = q
    BY <2>1, <1>0 DEF Refs
  <2> QED
    BY <2>2, <1>0 DEF TypeOK
<1>4. Fresh'
  <2>1. \A q \in Requests : pc'[q] \in {"idle", "gotAgent"} => q # r /\ pc[q] = pc'[q]
    BY DEF TypeOK
  <2>2. \A q \in Requests : pc'[q] \in {"idle", "gotAgent"} => queue'[q] = queue[q]
    BY <2>1 DEF Fresh, TypeOK, Locks
  <2> QED
    BY <2>1, <2>2 DEF Fresh
<1>5. CurrentLock'
  BY DEF CurrentLock, IsOpen, TypeOK, Queued, Holding, Running, Awaiting
<1>6. LockBelongs'
  <2> SUFFICES ASSUME NEW s \in Sessions, locks[s] # None, cached[s] = None
               PROVE  pc'[locks[s]] \in {"holding", "failed"}
    BY DEF LockBelongs
  <2>1. pc[locks[s]] \in {"holding", "failed"} /\ sess[locks[s]] = s
    BY DEF LockBelongs, Names
  <2>2. ASSUME locks[s] = r, IsOpen(r) PROVE FALSE
    BY <2>1, <2>2, <1>0 DEF OpenIffCached
  <2> QED
    BY <2>1, <2>2 DEF TypeOK
<1> QED
  BY <1>1, <1>2, <1>3, <1>4, <1>5, <1>6

\* A chat takes or makes the session's lock and holds it or queues at it.
LEMMA TakeLockStep ==
    ASSUME IInv, NEW r \in Requests, ChatTakeLock(r)
    PROVE  IInv'
<1> USE NoneAssumption
<1> USE DEF IInv
<1> DEFINE l == SetDefaultLock(r)
<1>0. /\ pc[r] = "gotAgent" /\ sess[r] \in Sessions /\ agent[r] # None
      /\ l = IF locks[sess[r]] = None THEN r ELSE locks[sess[r]]
      /\ l \in Requests
      /\ locks' = [locks EXCEPT ![sess[r]] = l]
      /\ lock' = [lock EXCEPT ![r] = l]
      /\ queue' = [queue EXCEPT ![l] = Append(queue[l], r)]
      /\ \/ queue[l] = <<>> /\ pc' = [pc EXCEPT ![r] = "holding"] /\ UNCHANGED loop
         \/ queue[l] # <<>> /\ pc' = [pc EXCEPT ![r] = "waiting"] /\ loop' = None
      /\ UNCHANGED <<order, cached, closed, sess, agent, log, stops>>
  BY DEF ChatTakeLock, SetDefaultLock, TypeOK, Refs, InFlight, OrNone, Locks
<1> HIDE DEF l
<1>1. /\ queue[l] \in Seq(Requests) /\ Append(queue[l], r) \in Seq(Requests)
      /\ Append(queue[l], r) # <<>>
      /\ queue[l] = <<>> => Head(Append(queue[l], r)) = r
      /\ queue[l] # <<>> => Head(Append(queue[l], r)) = Head(queue[l])
  <2>1. queue[l] \in Seq(Requests)
    BY <1>0 DEF TypeOK, Locks
  <2>2. ASSUME NEW q \in Seq(Requests)
        PROVE  /\ Append(q, r) \in Seq(Requests)
               /\ Append(q, r) # <<>>
               /\ q = <<>> => Head(Append(q, r)) = r
               /\ q # <<>> => Head(Append(q, r)) = Head(q)
    OBVIOUS
  <2> QED
    BY <2>1, <2>2
<1>2. TypeOK'
  BY <1>0, <1>1 DEF TypeOK, OrNone, Locks, InFlight, Queued, Holding, Running, Awaiting
<1>3. CacheBound' /\ OpenIffCached'
  BY <1>0 DEF CacheBound, OpenIffCached, IsOpen
<1>4. Refs'
  <2> SUFFICES ASSUME NEW q \in Requests, pc'[q] \in Holding
               PROVE  queue'[lock'[q]] # <<>> /\ Head(queue'[lock'[q]]) = q
    BY <1>0 DEF Refs, TypeOK, InFlight, Finished, Queued, Holding, Running, Awaiting
  <2>1. CASE q = r
    BY <2>1, <1>0, <1>1 DEF TypeOK, Locks, Holding, Running, Awaiting
  <2>2. CASE q # r
    <3>1. /\ pc[q] \in Holding /\ lock'[q] = lock[q] /\ lock[q] \in Requests
          /\ queue[lock[q]] # <<>> /\ Head(queue[lock[q]]) = q
      BY <2>2, <1>0 DEF TypeOK, Refs, OrNone, Locks, Queued
    <3> QED
      BY <3>1, <1>0, <1>1 DEF TypeOK, Locks
  <2> QED
    BY <2>1, <2>2
<1>5. Fresh'
  <2> SUFFICES ASSUME NEW q \in Requests, pc'[q] \in {"idle", "gotAgent"}
               PROVE  /\ queue'[q] = <<>>
                      /\ \A s \in Sessions : locks'[s] # q
                      /\ \A x \in Requests : lock'[x] # q
    BY <1>0 DEF Fresh, TypeOK
  <2>1. q # r /\ pc[q] \in {"idle", "gotAgent"}
    BY <1>0 DEF TypeOK
  <2>2. queue[q] = <<>> /\ (\A s \in Sessions : locks[s] # q) /\ (\A x \in Requests : lock[x] # q)
    BY <2>1 DEF Fresh
  <2>3. l # q
    BY <2>1, <2>2, <1>0
  <2> QED
    BY <2>2, <2>3, <1>0 DEF TypeOK, Locks
<1>6. Names'
  BY <1>0 DEF Names, TypeOK
<1>7. CurrentLock'
  <2> SUFFICES ASSUME NEW q \in Requests, pc'[q] \in Queued, agent[q] \notin closed
               PROVE  lock'[q] = locks'[sess[q]]
    BY <1>0 DEF CurrentLock, IsOpen
  <2>1. CASE q = r
    BY <2>1, <1>0 DEF TypeOK
  <2>2. CASE q # r
    <3>1. /\ pc[q] \in Queued /\ lock'[q] = lock[q] /\ lock[q] # None
          /\ lock[q] = locks[sess[q]] /\ sess[q] \in Sessions
      BY <2>2, <1>0 DEF TypeOK, CurrentLock, IsOpen, Refs, InFlight
    <3> QED
      BY <3>1, <1>0 DEF TypeOK
  <2> QED
    BY <2>1, <2>2
<1>8. LockBelongs'
  <2> SUFFICES ASSUME NEW s \in Sessions, locks'[s] # None, cached[s] = None
               PROVE  pc'[locks'[s]] \in {"holding", "failed"}
    BY <1>0 DEF LockBelongs
  <2>1. CASE locks[s] # None
    <3>1. locks'[s] = locks[s] /\ locks[s] # r /\ locks[s] \in Requests
      BY <2>1, <1>0 DEF TypeOK, Fresh, OrNone, Locks
    <3> QED
      BY <2>1, <3>1, <1>0 DEF LockBelongs, TypeOK
  <2>2. CASE locks[s] = None
    <3>1. locks'[s] = r /\ l = r /\ queue[r] = <<>>
      BY <2>2, <1>0 DEF TypeOK, Fresh
    <3> QED
      BY <3>1, <1>0 DEF TypeOK
  <2> QED
    BY <2>1, <2>2
<1> QED
  BY <1>2, <1>3, <1>4, <1>5, <1>6, <1>7, <1>8

\* The process ends: its tables are empty and every connection is closed.
LEMMA StopStep ==
    ASSUME IInv, Shutdown \/ Crash
    PROVE  IInv'
<1> USE NoneAssumption, MaxAgentsAssumption, MaxStopsAssumption
<1> USE DEF IInv, EmptyTables
<1>0. /\ EmptyTables
      /\ stops < MaxStops
      /\ pc' \in [Requests -> {"idle"} \cup Finished]
      /\ \A r \in Requests : pc'[r] = "idle" => pc[r] = "idle"
  BY DEF Shutdown, Crash, TypeOK, InFlight, Finished, Queued, Holding, Running, Awaiting
<1>1. TypeOK'
  BY <1>0 DEF TypeOK, OrNone, Agents, Locks
<1>2. CacheBound'
  BY <1>0 DEF CacheBound
<1>3. OpenIffCached'
  <2>1. \A r \in Requests : agent[r] # None => agent[r] \in closed'
    BY <1>0 DEF OpenIffCached, IsOpen, Refs
  <2>2. None \notin closed'
    BY <1>0 DEF TypeOK, Agents
  <2> QED
    BY <1>0, <2>1, <2>2 DEF OpenIffCached, IsOpen, Refs
<1>4. Refs'
  BY <1>0 DEF Refs, InFlight, Finished, Queued, Holding, Running, Awaiting
<1>5. Fresh'
  BY <1>0 DEF Fresh, Finished, Locks
<1>6. Names' /\ LockBelongs'
  BY <1>0 DEF Names, LockBelongs
<1>7. CurrentLock'
  BY <1>0 DEF CurrentLock, InFlight, Finished, Queued, Holding, Running, Awaiting
<1> QED
  BY <1>1, <1>2, <1>3, <1>4, <1>5, <1>6, <1>7

LEMMA NextIInv == IInv /\ [Next]_vars => IInv'
<1> SUFFICES ASSUME IInv, [Next]_vars PROVE IInv'
  OBVIOUS
<1> USE NoneAssumption
<1>1. ASSUME NEW r \in Requests, NEW s \in Sessions, Arrive(r, s) PROVE IInv'
  <2>1. CASE ChatGetAgent(r, s)
    BY <2>1, GetAgentStep DEF ChatGetAgent, OrNone
  <2>2. CASE HistoryGetAgent(r, s)
    BY <2>2, GetAgentStep DEF HistoryGetAgent, IInv, TypeOK
  <2>3. CASE ClearGetAgent(r, s)
    BY <2>3, GetAgentStep DEF ClearGetAgent, IInv, TypeOK
  <2> QED
    BY <1>1, <2>1, <2>2, <2>3 DEF Arrive
<1>2. ASSUME NEW r \in Requests, ChatStep(r) PROVE IInv'
  <2>0. /\ TypeOK
        /\ pc[r] \in InFlight => sess[r] \in Sessions
        /\ pc[r] \in Holding => queue[lock[r]] # <<>> /\ Head(queue[lock[r]]) = r
        /\ log \in [Sessions -> Seq(Requests \X Roles)]
        /\ loop \in OrNone(Requests)
    BY DEF IInv, TypeOK, Refs
  <2> USE DEF InFlight, Finished, Queued, Holding, Running, Awaiting, cacheVars
  <2>1. CASE ChatTakeLock(r)
    BY <2>1, TakeLockStep
  <2>2. CASE ChatAcquire(r)
    BY <2>0, <2>2, GoOnStep DEF ChatAcquire, OrNone
  <2>3. CASE ChatForget(r)
    BY <2>0, <2>3, LogType, GoOnStep DEF ChatForget
  <2>4. CASE ChatStoreQuestion(r)
    <3>1. log' \in [Sessions -> Seq(Requests \X Roles)]
      BY <2>0, <2>4, LogType DEF ChatStoreQuestion, Roles
    <3>2. PICK p \in {"planning", "replying"} : pc' = [pc EXCEPT ![r] = p]
      BY <2>4 DEF ChatStoreQuestion
    <3> QED
      BY <2>0, <2>4, <3>1, <3>2, GoOnStep DEF ChatStoreQuestion, OrNone
  <2>5. CASE ChatStoreTool(r)
    <3>1. log' \in [Sessions -> Seq(Requests \X Roles)]
      BY <2>0, <2>5, LogType DEF ChatStoreTool, Roles
    <3> QED
      BY <2>0, <2>5, <3>1, GoOnStep DEF ChatStoreTool, OrNone
  <2>6. CASE ChatReadContext(r)
    BY <2>0, <2>6, GoOnStep DEF ChatReadContext, OrNone
  <2>7. CASE ChatStoreAnswer(r)
    <3>1. log' \in [Sessions -> Seq(Requests \X Roles)]
      BY <2>0, <2>7, LogType DEF ChatStoreAnswer, Roles
    <3> QED
      BY <2>0, <2>7, <3>1, LeaveStep DEF ChatStoreAnswer
  <2>8. CASE ChatFails(r)
    BY <2>0, <2>8, LeaveStep DEF ChatFails
  <2> QED
    BY <1>2, <2>1, <2>2, <2>3, <2>4, <2>5, <2>6, <2>7, <2>8 DEF ChatStep
<1>3. ASSUME NEW r \in Requests, ThreadStep(r) PROVE IInv'
  <2>0. /\ TypeOK
        /\ pc[r] \in InFlight => sess[r] \in Sessions
        /\ log \in [Sessions -> Seq(Requests \X Roles)]
        /\ loop \in OrNone(Requests)
    BY DEF IInv, TypeOK, Refs
  <2> USE DEF InFlight, Finished, Queued, Holding, Running, Awaiting, cacheVars
  <2>1. CASE HistoryRead(r)
    BY <2>0, <2>1, GoOnStep DEF HistoryRead
  <2>2. CASE ClearMemory(r)
    <3>1. log' \in [Sessions -> Seq(Requests \X Roles)]
      BY <2>0, <2>2, LogType DEF ClearMemory
    <3>2. PICK p \in {"answered", "failed"} : pc' = [pc EXCEPT ![r] = p]
      BY <2>2 DEF ClearMemory
    <3> QED
      BY <2>0, <2>2, <3>1, <3>2, GoOnStep DEF ClearMemory
  <2> QED
    BY <1>3, <2>1, <2>2 DEF ThreadStep
<1>4. CASE Shutdown \/ Crash
  BY <1>4, StopStep
<1>5. CASE UNCHANGED vars
  BY <1>5 DEF vars, IInv, TypeOK, CacheBound, OpenIffCached, Refs, Fresh, Names,
              CurrentLock, LockBelongs, IsOpen
<1> QED
  BY <1>1, <1>2, <1>3, <1>4, <1>5 DEF Next

-----------------------------------------------------------------------------
(* The safety theorems                                                     *)

\* Two chats that hold the lock of a session with open agents are one chat.
LEMMA OneHolder ==
    ASSUME IInv, NEW r1 \in Requests, NEW r2 \in Requests,
           pc[r1] \in Holding, pc[r2] \in Holding,
           IsOpen(r1), IsOpen(r2), sess[r1] = sess[r2]
    PROVE  r1 = r2
<1>1. lock[r1] = lock[r2]
  BY DEF IInv, CurrentLock, Queued
<1> QED
  BY <1>1 DEF IInv, Refs

\* The whole inductive invariant holds in every reachable state.
THEOREM Invariance == Spec => []IInv
<1>1. Init => IInv
  BY InitIInv
<1>2. IInv /\ [Next]_vars => IInv'
  BY NextIInv
<1> QED
  BY <1>1, <1>2, PTL DEF Spec

\* Every variable keeps its type.
THEOREM TypeCorrect == Spec => []TypeOK
<1>1. IInv => TypeOK
  BY DEF IInv
<1> QED
  BY <1>1, Invariance, PTL

\* The agent cache never exceeds MaxAgents and holds each session once.
THEOREM CacheBounded == Spec => []CacheBound
<1>1. IInv => CacheBound
  BY DEF IInv
<1> QED
  BY <1>1, Invariance, PTL

\* The open database connections are exactly those of the cached agents.
THEOREM NoConnectionLeak == Spec => []OpenIffCached
<1>1. IInv => OpenIffCached
  BY DEF IInv
<1> QED
  BY <1>1, Invariance, PTL

\* The lock table keeps no entry of an evicted session that was served.
THEOREM NoLockLeak == Spec => []LockBelongs
<1>1. IInv => LockBelongs
  BY DEF IInv
<1> QED
  BY <1>1, Invariance, PTL

\* Cache, connections and lock table fit one another.
THEOREM TablesFit == Spec => []CacheExact
<1>1. IInv => CacheExact
  BY DEF IInv, CacheExact
<1> QED
  BY <1>1, Invariance, PTL

\* At most one chat asks with an open agent.
THEOREM MutualExclusion == Spec => []OneAskPerOpenAgent
<1>1. IInv => OneAskPerOpenAgent
  <2> SUFFICES ASSUME IInv, NEW r1 \in Requests, NEW r2 \in Requests,
                      pc[r1] \in Asking, pc[r2] \in Asking,
                      agent[r1] = agent[r2], IsOpen(r1)
               PROVE  r1 = r2
    BY DEF OneAskPerOpenAgent
  <2>1. /\ pc[r1] \in Holding /\ pc[r2] \in Holding
        /\ pc[r1] \in InFlight /\ pc[r2] \in InFlight
    BY DEF Asking, Holding, Running, Awaiting, Queued, InFlight
  <2>2. agent[r1] # None /\ agent[r2] # None /\ IsOpen(r2)
    BY <2>1 DEF IInv, Refs, IsOpen
  <2>3. /\ sess[r1] \in Sessions /\ sess[r2] \in Sessions
        /\ cached[sess[r1]] = agent[r1] /\ cached[sess[r2]] = agent[r1]
    BY <2>2 DEF IInv, Refs, OpenIffCached, IsOpen
  <2>4. sess[r1] = sess[r2]
    BY <2>2, <2>3 DEF IInv, Names
  <2> QED
    BY <2>1, <2>2, <2>4, OneHolder
<1> QED
  BY <1>1, Invariance, PTL

-----------------------------------------------------------------------------
(* A cache with room for every session                                     *)

\* No more sessions than the cache holds.
EnoughRoom == IsFiniteSet(Sessions) /\ Cardinality(Sessions) <= MaxAgents

\* The agents of the requests under way are open.
InFlightOpen == \A r \in Requests : pc[r] \in InFlight => IsOpen(r)

\* With room for every session nothing is evicted for a session that is not cached.
LEMMA NoVictims ==
    ASSUME IInv, EnoughRoom, NEW s \in Sessions, cached[s] = None
    PROVE  Victims = {}
<1>1. /\ order \in Seq(Sessions) /\ Len(order) \in Nat
      /\ \A i, j \in 1..Len(order) : order[i] = order[j] => i = j
      /\ \A i \in 1..Len(order) : order[i] # s
  BY DEF IInv, TypeOK, CacheBound
<1> DEFINE others == Sessions \ {s}
<1>2. /\ IsFiniteSet(others) /\ Cardinality(others) = Cardinality(Sessions) - 1
      /\ Cardinality(Sessions) \in Nat /\ Cardinality(others) \in Nat
  BY FS_RemoveElement, FS_CardinalityType DEF EnoughRoom
<1>3. order \in [1..Len(order) -> others]
  BY <1>1
<1> HIDE DEF others
<1>4. IsFiniteSet(1..Len(order)) /\ Cardinality(1..Len(order)) = Len(order)
  <2> DEFINE n == Len(order)
  <2>1. n \in Nat
    BY <1>1
  <2> HIDE DEF n
  <2>2. IsFiniteSet(1..n) /\ Cardinality(1..n) = IF 1 > n THEN 0 ELSE n - 1 + 1
    BY <2>1, FS_Interval
  <2> QED
    BY <2>1, <2>2 DEF n
<1>5. ~(Cardinality(others) < Len(order))
  BY <1>1, <1>2, <1>3, <1>4, FS_PigeonHole
<1>6. Len(order) < MaxAgents
  BY <1>1, <1>2, <1>5, MaxAgentsAssumption DEF EnoughRoom
<1> QED
  BY <1>1, <1>6, MaxAgentsAssumption DEF Victims

\* _get_agent then closes nothing, and the agent it returns is open.
LEMMA GetOpenAgent ==
    ASSUME IInv, EnoughRoom, InFlightOpen, NEW r \in Requests, NEW s \in Sessions, NEW next, GetAgent(r, s, next)
    PROVE  InFlightOpen'
<1>1. /\ closed' = closed /\ pc[r] = "idle"
      /\ \/ pc' = [pc EXCEPT ![r] = next] /\ agent' = [agent EXCEPT ![r] = cached[s]] /\ cached[s] \notin closed
         \/ pc' = [pc EXCEPT ![r] = next] /\ agent' = [agent EXCEPT ![r] = r] /\ r \notin closed
         \/ pc' = [pc EXCEPT ![r] = "failed"] /\ agent' = agent
  <2>1. pc[r] = "idle" /\ r \notin closed /\ cached[s] \notin closed
    BY DEF GetAgent, IInv, Fresh, OpenIffCached
  <2>2. CASE HitAgent(r, s) /\ pc' = [pc EXCEPT ![r] = next]
    BY <2>1, <2>2 DEF HitAgent
  <2>3. CASE NewAgent(r, s) /\ pc' = [pc EXCEPT ![r] = next]
    <3>1. Victims = {}
      BY <2>3, NoVictims DEF NewAgent
    <3> QED
      BY <2>1, <2>3, <3>1 DEF NewAgent, CloseVictims
  <2>4. CASE CreationFails(r, s) /\ pc' = [pc EXCEPT ![r] = "failed"]
    <3>1. Victims = {}
      BY <2>4, NoVictims DEF CreationFails
    <3> QED
      BY <2>1, <2>4, <3>1 DEF CreationFails, CloseVictims
  <2> QED
    BY <2>2, <2>3, <2>4 DEF GetAgent
<1>2. pc \in [Requests -> {"idle"} \cup InFlight \cup Finished] /\ agent \in [Requests -> OrNone(Agents)]
  BY DEF IInv, TypeOK
<1>3. "failed" \notin InFlight
  BY DEF InFlight, Queued, Holding, Running, Awaiting
<1> QED
  BY <1>1, <1>2, <1>3 DEF InFlightOpen, IsOpen

\* A step of a request under way closes nothing.
LEMMA GoOnOpen ==
    ASSUME IInv, InFlightOpen, NEW r \in Requests, ChatStep(r) \/ ThreadStep(r)
    PROVE  InFlightOpen'
<1> USE DEF InFlight, Queued, Holding, Running, Awaiting
<1>1. agent' = agent /\ closed' = closed /\ pc[r] \in InFlight /\ \E to : pc' = [pc EXCEPT ![r] = to]
  BY DEF ChatStep, ThreadStep, ChatTakeLock, ChatAcquire, ChatForget, ChatStoreQuestion, ChatStoreTool,
         ChatReadContext, ChatStoreAnswer, ChatFails, HistoryRead, ClearMemory, Leave, cacheVars
<1> QED
  BY <1>1 DEF IInv, TypeOK, InFlightOpen, IsOpen

\* EnoughRoom keeps every agent in use open.
LEMMA RoomStep == ASSUME EnoughRoom, IInv, InFlightOpen, [Next]_vars PROVE InFlightOpen'
<1>1. ASSUME NEW r \in Requests, NEW s \in Sessions, Arrive(r, s) PROVE InFlightOpen'
  BY <1>1, GetOpenAgent DEF Arrive, ChatGetAgent, HistoryGetAgent, ClearGetAgent
<1>2. ASSUME NEW r \in Requests, ChatStep(r) \/ ThreadStep(r) PROVE InFlightOpen'
  BY <1>2, GoOnOpen
<1>3. CASE Shutdown
  BY <1>3 DEF Shutdown, InFlightOpen
<1>4. CASE Crash
  <2>1. \A r \in Requests : pc'[r] \notin InFlight
    BY <1>4 DEF Crash, InFlight, Queued, Holding, Running, Awaiting
  <2> QED
    BY <2>1 DEF InFlightOpen
<1>5. CASE UNCHANGED vars
  BY <1>5 DEF vars, InFlightOpen, IsOpen
<1> QED
  BY <1>1, <1>2, <1>3, <1>4, <1>5 DEF Next

\* As long as the service has no more sessions than the cache holds, no request finds its agent closed,
\* however requests, threads, failing constructors and stops interleave.
THEOREM NoneClosedInUse ==
    ASSUME EnoughRoom PROVE Spec => []InFlightOpen
<1>1. Init => InFlightOpen
  BY DEF Init, InFlightOpen, InFlight, Queued, Holding, Running, Awaiting
<1>2. IInv /\ InFlightOpen /\ [Next]_vars => InFlightOpen'
  BY RoomStep
<1> QED
  BY <1>1, <1>2, Invariance, PTL DEF Spec

\* ... and then README.md's claim holds, which run api_serial shows to fail without that room: the chats
\* of a session ask one at a time.
THEOREM SerializedWithRoom ==
    ASSUME EnoughRoom PROVE Spec => []SessionSerialized
<1>1. IInv /\ InFlightOpen => SessionSerialized
  <2>1. Asking \subseteq Holding /\ Asking \subseteq InFlight
    BY DEF Asking, InFlight, Queued, Holding, Running, Awaiting
  <2> QED
    BY <2>1, OneHolder DEF SessionSerialized, InFlightOpen
<1> QED
  BY <1>1, Invariance, NoneClosedInUse, PTL

-----------------------------------------------------------------------------
(* Nobody is stuck                                                         *)

\* A request can take its next step.
Ready(r) ==
    \/ pc[r] \in Running \cup {"gotAgent", "reading", "clearing"}
    \/ pc[r] \in Awaiting /\ LoopFree
    \/ pc[r] = "waiting" /\ LoopFree /\ queue[lock[r]] # <<>> /\ Head(queue[lock[r]]) = r

\* A request under way can take its next step, or waits for the coroutine that runs, which can, or
\* for the first in line at its lock, which can.
NobodyStuck ==
    \A r \in Requests : pc[r] \in InFlight =>
        \/ Ready(r)
        \/ loop \in Requests /\ Ready(loop)
        \/ pc[r] = "waiting" /\ queue[lock[r]] # <<>> /\ Ready(Head(queue[lock[r]]))

\* The lines at the locks are made of the chats that hold or wait, each once and at its own lock.
Lines ==
    \A l \in Locks : \A i \in 1..Len(queue[l]) :
        /\ pc[queue[l][i]] \in Queued /\ lock[queue[l][i]] = l
        /\ \A j \in 1..Len(queue[l]) : queue[l][i] = queue[l][j] => i = j
InLine == \A r \in Requests : pc[r] \in Queued => \E i \in 1..Len(queue[lock[r]]) : queue[lock[r]][i] = r

\* The coroutine that runs is the one that is between two awaits.
OneRuns == \A r \in Requests : loop = r <=> pc[r] \in Running \cup {"gotAgent"}

LEMMA InitLines == Init => Lines /\ InLine /\ OneRuns
<1> SUFFICES ASSUME Init PROVE Lines /\ InLine /\ OneRuns
  OBVIOUS
<1>1. \A l \in Locks : queue[l] = <<>> /\ 1..Len(queue[l]) = {}
  BY DEF Init
<1>2. \A r \in Requests : pc[r] = "idle" /\ loop = None /\ None # r
  BY NoneAssumption DEF Init
<1> QED
  BY <1>1, <1>2 DEF Lines, InLine, OneRuns, Queued, Holding, Running, Awaiting

LEMMA QueueFacts ==
    ASSUME IInv
    PROVE  /\ queue \in [Locks -> Seq(Requests)] /\ None \notin Requests
           /\ \A l \in Locks : /\ queue[l] \in Seq(Requests) /\ Len(queue[l]) \in Nat
                               /\ \A i \in 1..Len(queue[l]) : queue[l][i] \in Requests
           /\ pc \in [Requests -> {"idle"} \cup InFlight \cup Finished]
           /\ lock \in [Requests -> OrNone(Locks)]
           /\ \A r \in Requests : pc[r] \in Queued => lock[r] \in Locks
<1>1. queue \in [Locks -> Seq(Requests)] /\ lock \in [Requests -> OrNone(Locks)]
      /\ pc \in [Requests -> {"idle"} \cup InFlight \cup Finished]
  BY DEF IInv, TypeOK
<1>2. ASSUME NEW l \in Locks
      PROVE  queue[l] \in Seq(Requests) /\ Len(queue[l]) \in Nat /\ \A i \in 1..Len(queue[l]) : queue[l][i] \in Requests
  <2>1. queue[l] \in Seq(Requests)
    BY <1>1
  <2> QED
    BY <2>1
<1>3. \A r \in Requests : pc[r] \in Queued => lock[r] \in Locks
  BY <1>1 DEF IInv, Refs, OrNone
<1> QED
  BY <1>1, <1>2, <1>3, NoneAssumption

\* Steps that leave the lines alone: who is in line stays so.
LEMMA SameLines ==
    ASSUME IInv, Lines, InLine, UNCHANGED <<queue, lock>>,
           \A r \in Requests : pc'[r] \in Queued <=> pc[r] \in Queued
    PROVE  Lines' /\ InLine'
<1>1. Lines'
  BY QueueFacts DEF Lines
<1>2. InLine'
  BY DEF InLine
<1> QED
  BY <1>1, <1>2

\* A chat gets in line.
LEMMA JoinLines ==
    ASSUME IInv, Lines, InLine, NEW r \in Requests, ChatTakeLock(r)
    PROVE  Lines' /\ InLine'
<1> DEFINE l == SetDefaultLock(r)
           q == queue[l]
<1>1. /\ pc[r] = "gotAgent"
      /\ lock' = [lock EXCEPT ![r] = l]
      /\ queue' = [queue EXCEPT ![l] = Append(q, r)]
      /\ \E to \in {"holding", "waiting"} : pc' = [pc EXCEPT ![r] = to]
  BY DEF ChatTakeLock
<1>2. l \in Locks
  <2>1. agent[r] # None /\ sess[r] \in Sessions
    BY <1>1 DEF IInv, Refs, InFlight
  <2> QED
    BY <2>1 DEF SetDefaultLock, IInv, TypeOK, OrNone, Locks
<1>3. "gotAgent" \notin Queued /\ "holding" \in Queued /\ "waiting" \in Queued
  BY DEF Queued, Holding, Running, Awaiting
<1>4. /\ \A c \in Locks \ {l} : queue'[c] = queue[c]
      /\ queue'[l] = Append(q, r)
      /\ pc'[r] \in Queued /\ \A x \in Requests \ {r} : pc'[x] = pc[x] /\ lock'[x] = lock[x]
      /\ lock'[r] = l
  BY <1>1, <1>2, <1>3, QueueFacts
<1>5. q \in Seq(Requests) /\ Len(q) \in Nat /\ \A i \in 1..Len(q) : q[i] \in Requests
  BY <1>2, QueueFacts
<1>6. \A c \in Locks : \A i \in 1..Len(queue[c]) : queue[c][i] \in Requests \ {r}
  BY <1>1, <1>3, QueueFacts DEF Lines
<1>7. \A i \in 1..Len(q) : pc[q[i]] \in Queued /\ lock[q[i]] = l /\ q[i] # r /\ \A j \in 1..Len(q) : q[i] = q[j] => i = j
  BY <1>2, <1>6 DEF Lines
<1> HIDE DEF l, q
<1> DEFINE n == Append(q, r)
<1>8. /\ Len(n) = Len(q) + 1 /\ n[Len(q) + 1] = r /\ \A i \in 1..Len(q) : n[i] = q[i]
      /\ \A i \in 1..Len(n) : i \in 1..Len(q) \/ i = Len(q) + 1
  <2>1. /\ Len(n) = Len(q) + 1 /\ n[Len(q) + 1] = r /\ \A i \in 1..Len(q) : n[i] = q[i]
    BY <1>5
  <2> QED
    BY <1>5, <2>1
<1> HIDE DEF n
<1>9. Lines'
  <2> SUFFICES ASSUME NEW c \in Locks, NEW i \in 1..Len(queue'[c])
               PROVE  /\ pc'[queue'[c][i]] \in Queued /\ lock'[queue'[c][i]] = c
                      /\ \A j \in 1..Len(queue'[c]) : queue'[c][i] = queue'[c][j] => i = j
    BY DEF Lines
  <2>1. CASE c = l
    <3>1. queue'[c] = n
      BY <1>4, <2>1 DEF n
    <3>2. pc'[n[i]] \in Queued /\ lock'[n[i]] = l
      BY <1>4, <1>5, <1>7, <1>8, <3>1
    <3>3. \A j \in 1..Len(n) : n[i] = n[j] => i = j
      BY <1>7, <1>8, <3>1
    <3> QED
      BY <2>1, <3>1, <3>2, <3>3
  <2>2. CASE c # l
    <3>1. queue'[c] = queue[c]
      BY <1>4, <2>2
    <3>2. queue[c][i] \in Requests \ {r}
      BY <1>6, <3>1
    <3> QED
      BY <1>4, <3>1, <3>2 DEF Lines
  <2> QED
    BY <2>1, <2>2
<1>10. InLine'
  <2> SUFFICES ASSUME NEW x \in Requests, pc'[x] \in Queued
               PROVE  \E i \in 1..Len(queue'[lock'[x]]) : queue'[lock'[x]][i] = x
    BY DEF InLine
  <2>1. CASE x = r
    BY <1>4, <1>5, <1>8, <2>1 DEF n
  <2>2. CASE x # r
    <3>1. pc[x] \in Queued /\ lock'[x] = lock[x] /\ lock[x] \in Locks
      BY <1>4, <2>2, QueueFacts
    <3>2. PICK i \in 1..Len(queue[lock[x]]) : queue[lock[x]][i] = x
      BY <3>1 DEF InLine
    <3>3. CASE lock[x] = l
      <4>1. i \in 1..Len(q) /\ q[i] = x
        BY <3>2, <3>3 DEF q
      <4>2. i \in 1..Len(n) /\ n[i] = x
        BY <1>5, <1>8, <4>1
      <4> QED
        BY <1>4, <3>1, <3>3, <4>2 DEF n
    <3>4. CASE lock[x] # l
      BY <1>4, <3>1, <3>2, <3>4
    <3> QED
      BY <3>3, <3>4
  <2> QED
    BY <2>1, <2>2
<1> QED
  BY <1>9, <1>10

\* The holder leaves, and the next in line is first.
LEMMA LeaveLines ==
    ASSUME IInv, Lines, InLine, NEW r \in Requests, pc[r] \in Holding, NEW end \in {"answered", "failed"},
           Leave(r, end), UNCHANGED lock
    PROVE  Lines' /\ InLine'
<1> DEFINE l == lock[r]
           q == queue[l]
           t == Tail(q)
<1>1. r \in Requests /\ l \in Locks /\ q # <<>> /\ Head(q) = r /\ pc[r] \in Queued
  BY QueueFacts DEF IInv, Refs, Queued
<1>2. end \notin Queued
  BY DEF Queued, Holding, Running, Awaiting
<1>3. /\ \A c \in Locks \ {l} : queue'[c] = queue[c]
      /\ queue'[l] = t
      /\ pc'[r] \notin Queued /\ \A x \in Requests \ {r} : pc'[x] = pc[x]
      /\ lock' = lock
  BY <1>1, <1>2, QueueFacts DEF Leave
<1>4. q \in Seq(Requests) /\ Len(q) \in Nat /\ \A i \in 1..Len(q) : q[i] \in Requests
  BY <1>1, QueueFacts
<1>5. \A i \in 1..Len(q) : pc[q[i]] \in Queued /\ lock[q[i]] = l /\ \A j \in 1..Len(q) : q[i] = q[j] => i = j
  BY <1>1 DEF Lines
<1>6. \A c \in Locks \ {l} : \A i \in 1..Len(queue[c]) : queue[c][i] \in Requests \ {r}
  BY <1>1, QueueFacts DEF Lines
<1> HIDE DEF l, q
<1>7. /\ Len(t) = Len(q) - 1 /\ \A i \in 1..Len(t) : t[i] = q[i + 1]
      /\ q[1] = r /\ 1 \in 1..Len(q)
  BY <1>1, <1>4
<1> HIDE DEF t
<1>8. \A i \in 1..Len(t) : i + 1 \in 1..Len(q) /\ t[i] = q[i + 1] /\ t[i] \in Requests \ {r}
  BY <1>4, <1>5, <1>7
<1>9. Lines'
  <2> SUFFICES ASSUME NEW c \in Locks, NEW i \in 1..Len(queue'[c])
               PROVE  /\ pc'[queue'[c][i]] \in Queued /\ lock'[queue'[c][i]] = c
                      /\ \A j \in 1..Len(queue'[c]) : queue'[c][i] = queue'[c][j] => i = j
    BY DEF Lines
  <2>1. CASE c = l
    <3>1. queue'[c] = t
      BY <1>3, <2>1
    <3>2. pc'[t[i]] \in Queued /\ lock'[t[i]] = l
      BY <1>3, <1>5, <1>8, <3>1
    <3>3. \A j \in 1..Len(t) : t[i] = t[j] => i = j
      <4> SUFFICES ASSUME NEW j \in 1..Len(t), t[i] = t[j] PROVE i = j
        OBVIOUS
      <4>1. i + 1 = j + 1
        BY <1>5, <1>8, <3>1
      <4> QED
        BY <4>1, <3>1
    <3> QED
      BY <2>1, <3>1, <3>2, <3>3
  <2>2. CASE c # l
    <3>1. queue'[c] = queue[c]
      BY <1>3, <2>2
    <3>2. queue[c][i] \in Requests \ {r}
      BY <1>6, <2>2, <3>1
    <3> QED
      BY <1>3, <3>1, <3>2 DEF Lines
  <2> QED
    BY <2>1, <2>2
<1>10. InLine'
  <2> SUFFICES ASSUME NEW x \in Requests, pc'[x] \in Queued
               PROVE  \E i \in 1..Len(queue'[lock'[x]]) : queue'[lock'[x]][i] = x
    BY DEF InLine
  <2>1. x # r /\ pc[x] \in Queued /\ lock'[x] = lock[x] /\ lock[x] \in Locks
    BY <1>3, QueueFacts
  <2>2. PICK i \in 1..Len(queue[lock[x]]) : queue[lock[x]][i] = x
    BY <2>1 DEF InLine
  <2>3. CASE lock[x] = l
    <3>1. i \in 1..Len(q) /\ q[i] = x
      BY <2>2, <2>3 DEF q
    <3>2. i # 1
      BY <1>7, <2>1, <3>1
    <3>3. i - 1 \in 1..Len(t) /\ (i - 1) + 1 = i
      BY <1>4, <1>7, <3>1, <3>2
    <3>4. t[i - 1] = x
      BY <1>7, <3>1, <3>3
    <3> QED
      BY <1>3, <2>1, <2>3, <3>3, <3>4
  <2>4. CASE lock[x] # l
    BY <1>3, <2>1, <2>2, <2>4
  <2> QED
    BY <2>3, <2>4
<1> QED
  BY <1>9, <1>10

\* A request that no other one's step moves.
LEMMA LineStep ==
    ASSUME IInv, Lines, InLine, OneRuns, NEW r \in Requests, ChatStep(r)
    PROVE  Lines' /\ InLine' /\ OneRuns'
<1> USE DEF Queued, Holding, Running, Awaiting
<1>0. pc \in [Requests -> {"idle"} \cup InFlight \cup Finished] /\ None \notin Requests
  BY QueueFacts
<1>1. CASE ChatTakeLock(r)
  <2>1. OneRuns'
    BY <1>0, <1>1 DEF ChatTakeLock, OneRuns
  <2> QED
    BY <1>1, <2>1, JoinLines
<1>2. ASSUME NEW end \in {"answered", "failed"}, pc[r] \in Holding, LoopFree \/ pc[r] \in Running, Leave(r, end), UNCHANGED lock
      PROVE  Lines' /\ InLine' /\ OneRuns'
  <2>1. OneRuns'
    BY <1>0, <1>2 DEF Leave, OneRuns, LoopFree
  <2> QED
    BY <1>2, <2>1, LeaveLines
<1>3. CASE ChatFails(r)
  BY <1>2, <1>3 DEF ChatFails
<1>4. CASE ChatStoreAnswer(r)
  BY <1>2, <1>4 DEF ChatStoreAnswer
<1>5. CASE ChatAcquire(r)
  BY <1>0, <1>5, SameLines DEF ChatAcquire, OneRuns, LoopFree
<1>6. CASE ChatForget(r)
  BY <1>0, <1>6, SameLines DEF ChatForget, OneRuns
<1>7. CASE ChatStoreQuestion(r)
  BY <1>0, <1>7, SameLines DEF ChatStoreQuestion, OneRuns
<1>8. CASE ChatStoreTool(r)
  BY <1>0, <1>8, SameLines DEF ChatStoreTool, OneRuns, LoopFree
<1>9. CASE ChatReadContext(r)
  BY <1>0, <1>9, SameLines DEF ChatReadContext, OneRuns, LoopFree
<1> QED
  BY <1>1, <1>3, <1>4, <1>5, <1>6, <1>7, <1>8, <1>9 DEF ChatStep

LEMMA NextLines == IInv /\ Lines /\ InLine /\ OneRuns /\ [Next]_vars => Lines' /\ InLine' /\ OneRuns'
<1> SUFFICES ASSUME IInv, Lines, InLine, OneRuns, [Next]_vars PROVE Lines' /\ InLine' /\ OneRuns'
  OBVIOUS
<1>0. pc \in [Requests -> {"idle"} \cup InFlight \cup Finished] /\ None \notin Requests
  BY QueueFacts
<1>1. ASSUME NEW r \in Requests, NEW s \in Sessions, Arrive(r, s) PROVE Lines' /\ InLine' /\ OneRuns'
  <2>1. /\ pc[r] = "idle" /\ UNCHANGED <<queue, lock>>
        /\ \/ (pc' = [pc EXCEPT ![r] = "gotAgent"] \/ pc' = [pc EXCEPT ![r] = "failed"])
              /\ LoopFree /\ loop' = IF pc'[r] = "gotAgent" THEN r ELSE None
           \/ \E to \in {"reading", "clearing", "failed"} : pc' = [pc EXCEPT ![r] = to] /\ loop' = loop
    BY <1>1 DEF Arrive, ChatGetAgent, HistoryGetAgent, ClearGetAgent, GetAgent
  <2>2. \A x \in Requests : pc'[x] \in Queued <=> pc[x] \in Queued
    BY <1>0, <2>1 DEF Queued, Holding, Running, Awaiting
  <2>3. OneRuns'
    BY <1>0, <2>1 DEF OneRuns, LoopFree, Running
  <2> QED
    BY <2>1, <2>2, <2>3, SameLines
<1>2. ASSUME NEW r \in Requests, ChatStep(r) PROVE Lines' /\ InLine' /\ OneRuns'
  BY <1>2, LineStep
<1>3. ASSUME NEW r \in Requests, ThreadStep(r) PROVE Lines' /\ InLine' /\ OneRuns'
  <2>1. /\ pc[r] \in {"reading", "clearing"} /\ UNCHANGED <<queue, lock, loop>>
        /\ \E to \in {"answered", "failed"} : pc' = [pc EXCEPT ![r] = to]
    BY <1>3 DEF ThreadStep, HistoryRead, ClearMemory
  <2>2. \A x \in Requests : pc'[x] \in Queued <=> pc[x] \in Queued
    BY <1>0, <2>1 DEF Queued, Holding, Running, Awaiting
  <2>3. OneRuns'
    BY <1>0, <2>1 DEF OneRuns, Running
  <2> QED
    BY <2>1, <2>2, <2>3, SameLines
<1>4. CASE Shutdown \/ Crash
  <2>1. /\ \A r \in Requests : pc'[r] \notin InFlight
        /\ queue' = [l \in Locks |-> <<>>] /\ loop' = None
    BY <1>0, <1>4 DEF Shutdown, Crash, EmptyTables, InFlight, Queued, Holding, Running, Awaiting
  <2>2. \A l \in Locks : 1..Len(queue'[l]) = {}
    BY <2>1
  <2>3. Lines'
    BY <2>2 DEF Lines
  <2>4. \A r \in Requests : pc'[r] \notin Queued /\ pc'[r] \notin Running \cup {"gotAgent"} /\ loop' # r
    BY <1>0, <2>1 DEF InFlight, Queued, Holding
  <2> QED
    BY <2>3, <2>4 DEF InLine, OneRuns
<1>5. CASE UNCHANGED vars
  BY <1>5 DEF vars, Lines, InLine, OneRuns
<1> QED
  BY <1>1, <1>2, <1>3, <1>4, <1>5 DEF Next

\* Every request under way can go on, or waits for one that can: no chat waits for a lock that nobody
\* holds, and no two wait for each other, whatever evictions did to the table of locks.
THEOREM NobodyIsStuck == Spec => []NobodyStuck
<1>1. IInv /\ Lines /\ InLine /\ OneRuns => NobodyStuck
  <2> SUFFICES ASSUME IInv, Lines, InLine, OneRuns, NEW r \in Requests, pc[r] \in InFlight, ~Ready(r)
               PROVE  \/ loop \in Requests /\ Ready(loop)
                      \/ pc[r] = "waiting" /\ queue[lock[r]] # <<>> /\ Ready(Head(queue[lock[r]]))
    BY DEF NobodyStuck
  <2>1. CASE loop # None
    <3>1. loop \in Requests /\ pc[loop] \in Running \cup {"gotAgent"}
      BY <2>1 DEF IInv, TypeOK, OrNone, OneRuns
    <3> QED
      BY <3>1 DEF Ready
  <2>2. CASE loop = None
    <3>1. pc[r] = "waiting"
      BY <2>2 DEF Ready, LoopFree, InFlight, Queued, Holding
    <3>2. lock[r] \in Locks /\ pc[r] \in Queued
      BY <3>1, QueueFacts DEF Queued
    <3> DEFINE q == queue[lock[r]]
    <3>3. q \in Seq(Requests) /\ \E i \in 1..Len(q) : q[i] = r
      BY <3>2, QueueFacts DEF InLine
    <3>4. 1 \in 1..Len(q) /\ q # <<>> /\ Head(q) = q[1] /\ q[1] \in Requests
      BY <3>3
    <3>5. pc[q[1]] \in Queued /\ lock[q[1]] = lock[r]
      BY <3>2, <3>4 DEF Lines
    <3>6. pc[q[1]] \notin Running
      BY <2>2, <3>4, QueueFacts DEF OneRuns
    <3>7. Ready(q[1])
      BY <2>2, <3>4, <3>5, <3>6 DEF Ready, LoopFree, Queued, Holding
    <3> QED
      BY <3>1, <3>4, <3>7
  <2> QED
    BY <2>1, <2>2
<1> QED
  BY <1>1, InitLines, NextLines, Invariance, PTL DEF Spec

\* How far a request has come.
Place(p) ==
    CASE p = "idle" -> 0
      [] p \in {"gotAgent", "reading", "clearing"} -> 1
      [] p = "waiting" -> 2
      [] p = "holding" -> 3
      [] p = "forgotten" -> 4
      [] p = "planning" -> 5
      [] p = "tooled" -> 6
      [] p \in {"completing", "replying"} -> 7
      [] OTHER -> 8

\* No step takes a request back, and each step of its own takes it further: with NobodyStuck, what
\* EveryRequestEnds needs besides fairness.
RequestsGoForward ==
    [][\A r \in Requests :
          /\ pc'[r] = pc[r] \/ Place(pc[r]) < Place(pc'[r])
          /\ ChatStep(r) \/ ThreadStep(r) => pc'[r] # pc[r]]_vars

\* The step of one request.
LEMMA OneGoesForward ==
    ASSUME IInv, NEW r \in Requests,
           (\E s \in Sessions : Arrive(r, s)) \/ ChatStep(r) \/ ThreadStep(r)
    PROVE  /\ Place(pc[r]) < Place(pc'[r])
           /\ \A x \in Requests \ {r} : pc'[x] = pc[x]
<1>0. pc \in [Requests -> {"idle"} \cup InFlight \cup Finished]
  BY QueueFacts
<1>1. CASE \E s \in Sessions : Arrive(r, s)
  <2>1. pc[r] = "idle" /\ \E to \in {"gotAgent", "reading", "clearing", "failed"} : pc' = [pc EXCEPT ![r] = to]
    BY <1>1 DEF Arrive, ChatGetAgent, HistoryGetAgent, ClearGetAgent, GetAgent
  <2> QED
    BY <1>0, <2>1 DEF Place
<1>2. CASE ThreadStep(r)
  <2>1. pc[r] \in {"reading", "clearing"} /\ \E to \in {"answered", "failed"} : pc' = [pc EXCEPT ![r] = to]
    BY <1>2 DEF ThreadStep, HistoryRead, ClearMemory
  <2> QED
    BY <1>0, <2>1 DEF Place
<1>3. CASE ChatStep(r)
  <2> USE DEF Holding, Running, Awaiting
  <2>1. CASE ChatTakeLock(r)
    <3>1. pc[r] = "gotAgent" /\ \E to \in {"holding", "waiting"} : pc' = [pc EXCEPT ![r] = to]
      BY <2>1 DEF ChatTakeLock
    <3> QED
      BY <1>0, <3>1 DEF Place
  <2>2. CASE ChatAcquire(r)
    BY <1>0, <2>2 DEF ChatAcquire, Place
  <2>3. CASE ChatForget(r)
    BY <1>0, <2>3 DEF ChatForget, Place
  <2>4. CASE ChatStoreQuestion(r)
    <3>1. pc[r] \in {"holding", "forgotten"} /\ \E to \in {"planning", "replying"} : pc' = [pc EXCEPT ![r] = to]
      BY <2>4 DEF ChatStoreQuestion
    <3> QED
      BY <1>0, <3>1 DEF Place
  <2>5. CASE ChatStoreTool(r)
    BY <1>0, <2>5 DEF ChatStoreTool, Place
  <2>6. CASE ChatReadContext(r)
    BY <1>0, <2>6 DEF ChatReadContext, Place
  <2>7. CASE ChatStoreAnswer(r) \/ ChatFails(r)
    <3>1. pc[r] \in Holding /\ \E to \in {"answered", "failed"} : pc' = [pc EXCEPT ![r] = to]
      BY <2>7 DEF ChatStoreAnswer, ChatFails, Leave
    <3> QED
      BY <1>0, <3>1 DEF Place
  <2> QED
    BY <1>3, <2>1, <2>2, <2>3, <2>4, <2>5, <2>6, <2>7 DEF ChatStep
<1> QED
  BY <1>1, <1>2, <1>3

\* A request takes at most eight steps, and one that is stopped takes none.
THEOREM RequestsAdvance == Spec => RequestsGoForward
<1>1. ASSUME IInv, [Next]_vars
      PROVE  [\A r \in Requests :
                 /\ pc'[r] = pc[r] \/ Place(pc[r]) < Place(pc'[r])
                 /\ ChatStep(r) \/ ThreadStep(r) => pc'[r] # pc[r]]_vars
  <2> SUFFICES ASSUME Next, NEW r \in Requests
               PROVE  /\ pc'[r] = pc[r] \/ Place(pc[r]) < Place(pc'[r])
                      /\ ChatStep(r) \/ ThreadStep(r) => pc'[r] # pc[r]
    BY <1>1
  <2>0. \A p : Place(p) \in Nat
    BY DEF Place
  <2>1. ChatStep(r) \/ ThreadStep(r) => pc'[r] # pc[r]
    BY <1>1, <2>0, OneGoesForward
  <2>2. ASSUME NEW x \in Requests, (\E s \in Sessions : Arrive(x, s)) \/ ChatStep(x) \/ ThreadStep(x)
        PROVE  pc'[r] = pc[r] \/ Place(pc[r]) < Place(pc'[r])
    BY <1>1, <2>2, OneGoesForward
  <2>3. Shutdown => pc'[r] = pc[r]
    BY DEF Shutdown
  <2>4. ASSUME Crash PROVE pc'[r] = pc[r] \/ Place(pc[r]) < Place(pc'[r])
    <3>1. pc[r] \in {"idle"} \cup InFlight \cup Finished
      BY <1>1, QueueFacts
    <3>2. pc'[r] = pc[r] \/ (pc[r] \in InFlight /\ pc'[r] = "lost")
      BY <2>4 DEF Crash
    <3> QED
      BY <3>1, <3>2 DEF Place, InFlight, Queued, Holding, Running, Awaiting
  <2> QED
    BY <2>1, <2>2, <2>3, <2>4 DEF Next
<1> QED
  BY <1>1, Invariance, PTL DEF Spec, RequestsGoForward

-----------------------------------------------------------------------------
(* ApiServer implements SessionLog                                         *)

LEMMA OpenExchangesMember ==
    ASSUME NEW s, NEW r
    PROVE  <<s, r>> \in OpenExchanges
           <=> r \in Requests /\ sess[r] = s /\ pc[r] \in Asking /\ IsOpen(r)
BY DEF OpenExchanges

\* A step that writes no row, and after which every open exchange was open before,
\* is a step of the abstract specification that gives exchanges up.
LEMMA QuietStep ==
    ASSUME UNCHANGED log,
           \A r \in Requests :
               pc'[r] \in Asking /\ agent'[r] \notin closed'
               => pc[r] \in Asking /\ IsOpen(r) /\ sess'[r] = sess[r]
    PROVE  Transcript!Next
<1> DEFINE gone == OpenExchanges \ OpenExchanges'
<1>1. OpenExchanges' \subseteq OpenExchanges
  BY DEF OpenExchanges, IsOpen
<1>2. OpenExchanges' = OpenExchanges \ gone /\ gone \in SUBSET OpenExchanges
  BY <1>1
<1>3. Transcript!GiveUp(gone)
  BY <1>2 DEF Transcript!GiveUp
<1> QED
  BY <1>2, <1>3 DEF Transcript!Next

\* A step that empties a session's rows and leaves the open exchanges as they were.
LEMMA ClearStep ==
    ASSUME NEW s \in Sessions,
           log' = [log EXCEPT ![s] = <<>>],
           UNCHANGED <<agent, sess, closed>>,
           \A r \in Requests : pc'[r] \in Asking <=> pc[r] \in Asking
    PROVE  Transcript!Next
<1>1. OpenExchanges' = OpenExchanges
  BY DEF OpenExchanges, IsOpen
<1>2. Transcript!Clear(s)
  BY <1>1 DEF Transcript!Clear
<1> QED
  BY <1>2 DEF Transcript!Next

LEMMA RefinementStep == IInv /\ [Next]_vars => [Transcript!Next]_<<log, OpenExchanges>>
<1> SUFFICES ASSUME IInv, [Next]_vars
             PROVE  [Transcript!Next]_<<log, OpenExchanges>>
  OBVIOUS
<1> USE NoneAssumption
<1>0. /\ TypeOK
      /\ pc \in [Requests -> {"idle"} \cup InFlight \cup Finished]
      /\ \A r \in Requests : pc[r] \in InFlight => sess[r] \in Sessions
  BY DEF IInv, TypeOK, Refs
<1> USE DEF InFlight, Finished, Queued, Holding, Running, Awaiting, Asking, cacheVars
<1>1. ASSUME NEW r \in Requests, NEW s \in Sessions, Arrive(r, s) PROVE Transcript!Next
  <2>1. PICK p \in {"gotAgent", "reading", "clearing"} : GetAgent(r, s, p)
    BY <1>1 DEF Arrive, ChatGetAgent, HistoryGetAgent, ClearGetAgent
  <2>2. /\ UNCHANGED log
        /\ pc' = [pc EXCEPT ![r] = p] \/ pc' = [pc EXCEPT ![r] = "failed"]
        /\ sess' = [sess EXCEPT ![r] = s]
        /\ \A q \in Requests : q # r => agent'[q] = agent[q]
        /\ closed \subseteq closed'
    BY <1>0, <2>1 DEF GetAgent, HitAgent, NewAgent, CreationFails, CloseVictims, TypeOK
  <2> QED
    BY <1>0, <2>2, QuietStep DEF TypeOK, IsOpen
<1>2. ASSUME NEW r \in Requests, ChatStep(r) PROVE Transcript!Next
  <2>1. CASE ChatTakeLock(r)
    <3>1. /\ UNCHANGED <<log, agent, sess, closed>>
          /\ pc' = [pc EXCEPT ![r] = "holding"] \/ pc' = [pc EXCEPT ![r] = "waiting"]
      BY <2>1 DEF ChatTakeLock
    <3> QED
      BY <1>0, <3>1, QuietStep DEF IsOpen
  <2>2. CASE ChatAcquire(r)
    BY <1>0, <2>2, QuietStep DEF ChatAcquire, IsOpen
  <2>3. CASE ChatForget(r)
    BY <1>0, <2>3, ClearStep DEF ChatForget
  <2>4. CASE ChatStoreQuestion(r)
    <3>1. /\ pc[r] \in {"holding", "forgotten"} /\ IsOpen(r) /\ sess[r] \in Sessions
          /\ log' = [log EXCEPT ![sess[r]] = Append(@, <<r, "user">>)]
          /\ UNCHANGED <<agent, sess, closed>>
          /\ pc' = [pc EXCEPT ![r] = "planning"] \/ pc' = [pc EXCEPT ![r] = "replying"]
      BY <1>0, <2>4 DEF ChatStoreQuestion, Store
    <3>2. \A x \in OpenExchanges : x[1] # sess[r]
      <4> SUFFICES ASSUME NEW q \in Requests, pc[q] \in Asking, IsOpen(q), sess[q] = sess[r]
                   PROVE  FALSE
        BY DEF OpenExchanges
      <4> QED
        BY <3>1, OneHolder
    <3>3. OpenExchanges' = OpenExchanges \cup {<<sess[r], r>>}
      BY <1>0, <3>1 DEF OpenExchanges, IsOpen
    <3>4. Transcript!Begin(sess[r], r)
      BY <3>1, <3>2, <3>3 DEF Transcript!Begin
    <3> QED
      BY <3>1, <3>4 DEF Transcript!Next
  <2>5. CASE ChatStoreTool(r)
    <3>1. /\ pc[r] = "planning" /\ IsOpen(r) /\ sess[r] \in Sessions
          /\ log' = [log EXCEPT ![sess[r]] = Append(@, <<r, "tool">>)]
          /\ UNCHANGED <<agent, sess, closed>>
          /\ pc' = [pc EXCEPT ![r] = "tooled"]
      BY <1>0, <2>5 DEF ChatStoreTool, Store
    <3>2. OpenExchanges' = OpenExchanges
      BY <1>0, <3>1 DEF OpenExchanges, IsOpen
    <3>3. Transcript!Consult(sess[r], r)
      BY <3>1, <3>2, OpenExchangesMember DEF Transcript!Consult
    <3> QED
      BY <3>1, <3>3 DEF Transcript!Next
  <2>6. CASE ChatReadContext(r)
    BY <1>0, <2>6, QuietStep DEF ChatReadContext, IsOpen
  <2>7. CASE ChatStoreAnswer(r)
    <3>1. /\ pc[r] \in Asking /\ IsOpen(r) /\ sess[r] \in Sessions
          /\ log' = [log EXCEPT ![sess[r]] = Append(@, <<r, "assistant">>)]
          /\ UNCHANGED <<agent, sess, closed>>
          /\ pc' = [pc EXCEPT ![r] = "answered"]
      BY <1>0, <2>7 DEF ChatStoreAnswer, Store, Leave
    <3>2. OpenExchanges' = OpenExchanges \ {<<sess[r], r>>}
      BY <1>0, <3>1 DEF OpenExchanges, IsOpen
    <3>3. Transcript!Answer(sess[r], r)
      BY <3>1, <3>2, OpenExchangesMember DEF Transcript!Answer
    <3> QED
      BY <3>1, <3>3 DEF Transcript!Next
  <2>8. CASE ChatFails(r)
    BY <1>0, <2>8, QuietStep DEF ChatFails, Leave, IsOpen
  <2> QED
    BY <1>2, <2>1, <2>2, <2>3, <2>4, <2>5, <2>6, <2>7, <2>8 DEF ChatStep
<1>3. ASSUME NEW r \in Requests, ThreadStep(r) PROVE Transcript!Next
  <2>1. CASE HistoryRead(r)
    BY <1>0, <2>1, QuietStep DEF HistoryRead, IsOpen
  <2>2. CASE ClearMemory(r) /\ IsOpen(r)
    BY <1>0, <2>2, ClearStep DEF ClearMemory
  <2>3. CASE ClearMemory(r) /\ ~IsOpen(r)
    BY <1>0, <2>3, QuietStep DEF ClearMemory, IsOpen
  <2> QED
    BY <1>3, <2>1, <2>2, <2>3 DEF ThreadStep
<1>4. CASE Shutdown \/ Crash
  <2>1. UNCHANGED log /\ \A r \in Requests : pc'[r] \notin Asking
    BY <1>0, <1>4 DEF Shutdown, Crash, EmptyTables
  <2> QED
    BY <2>1, QuietStep
<1>5. CASE UNCHANGED vars
  BY <1>5 DEF vars, OpenExchanges, IsOpen
<1> QED
  BY <1>1, <1>2, <1>3, <1>4, <1>5 DEF Next

\* Every behaviour of the session layer is, seen through the rows it stores and the
\* exchanges that may still write, a behaviour of the abstract transcript.
THEOREM ImplementsTranscript == Spec => TranscriptSpec
<1>1. Init => Transcript!Init
  BY DEF Init, Transcript!Init, OpenExchanges, Asking
<1>2. IInv /\ [Next]_vars => [Transcript!Next]_Transcript!vars
  BY RefinementStep DEF Transcript!vars
<1> QED
  BY <1>1, <1>2, Invariance, PTL DEF Spec, TranscriptSpec, Transcript!Spec

-----------------------------------------------------------------------------
(* The rows of an exchange are contiguous                                  *)

\* The last row of a session with an open exchange is a row of that exchange.
LastRow ==
    \A x \in OpenExchanges :
        log[x[1]] # <<>> => log[x[1]][Len(log[x[1]])][1] = x[2]

\* A row appended to a session by the exchange whose row is its last, or a question,
\* keeps the rows of exchanges together.
LEMMA AppendRow ==
    ASSUME NEW q \in Seq(Requests \X Roles), NEW row \in Requests \X Roles,
           \A i \in 2..Len(q) : q[i][2] # "user" => q[i][1] = q[i - 1][1],
           row[2] = "user" \/ (q # <<>> => q[Len(q)][1] = row[1])
    PROVE  /\ \A i \in 2..Len(Append(q, row)) :
                  Append(q, row)[i][2] # "user"
                  => Append(q, row)[i][1] = Append(q, row)[i - 1][1]
           /\ Append(q, row) # <<>>
           /\ Append(q, row)[Len(Append(q, row))] = row
<1>1. /\ Len(q) \in Nat
      /\ Len(Append(q, row)) = Len(q) + 1
      /\ \A i \in 1..Len(q) : Append(q, row)[i] = q[i]
      /\ Append(q, row)[Len(q) + 1] = row
      /\ Append(q, row) # <<>>
  BY AppendElements
<1>2. ASSUME NEW i \in 2..Len(Append(q, row)), Append(q, row)[i][2] # "user"
      PROVE  Append(q, row)[i][1] = Append(q, row)[i - 1][1]
  <2>1. i - 1 \in 1..Len(q) /\ Append(q, row)[i - 1] = q[i - 1]
    BY <1>1
  <2>2. CASE i = Len(q) + 1
    <3>1. Append(q, row)[i] = row /\ i - 1 = Len(q) /\ q # <<>>
      BY <1>1, <2>1, <2>2
    <3> QED
      BY <3>1, <2>1, <1>2
  <2>3. CASE i # Len(q) + 1
    <3>1. i \in 2..Len(q) /\ i \in 1..Len(q)
      BY <1>1, <2>3
    <3> QED
      BY <3>1, <2>1, <1>1, <1>2
  <2> QED
    BY <2>2, <2>3
<1> QED
  BY <1>1, <1>2

\* An append to the rows of session s by exchange r, open before or after the step.
LEMMA AppendStep ==
    ASSUME log \in [Sessions -> Seq(Requests \X Roles)],
           LastRow, RowsContiguous,
           NEW s \in Sessions, NEW r \in Requests, NEW role \in Roles,
           log' = [log EXCEPT ![s] = Append(log[s], <<r, role>>)],
           role = "user" \/ <<s, r>> \in OpenExchanges,
           \A x \in OpenExchanges' : x = <<s, r>> \/ (x \in OpenExchanges /\ x[1] # s)
    PROVE  LastRow' /\ RowsContiguous'
<1> DEFINE row == <<r, role>>
<1>1. log[s] \in Seq(Requests \X Roles) /\ row \in Requests \X Roles
  OBVIOUS
<1>2. /\ \A i \in 2..Len(log[s]) : log[s][i][2] # "user" => log[s][i][1] = log[s][i - 1][1]
      /\ row[2] = "user" \/ (log[s] # <<>> => log[s][Len(log[s])][1] = row[1])
  BY DEF RowsContiguous, LastRow
<1>3. log'[s] = Append(log[s], row) /\ \A x \in Sessions : x # s => log'[x] = log[x]
  OBVIOUS
<1> HIDE DEF row
<1>4. /\ \A i \in 2..Len(log'[s]) : log'[s][i][2] # "user" => log'[s][i][1] = log'[s][i - 1][1]
      /\ log'[s] # <<>> /\ log'[s][Len(log'[s])] = row
  BY <1>1, <1>2, <1>3, AppendRow
<1>5. RowsContiguous'
  BY <1>3, <1>4 DEF RowsContiguous
<1>6. LastRow'
  <2> SUFFICES ASSUME NEW x \in OpenExchanges', log'[x[1]] # <<>>
               PROVE  log'[x[1]][Len(log'[x[1]])][1] = x[2]
    BY DEF LastRow
  <2>1. CASE x = <<s, r>>
    BY <2>1, <1>4 DEF row
  <2>2. CASE x \in OpenExchanges /\ x[1] # s
    <3>1. x[1] \in Sessions => log'[x[1]] = log[x[1]]
      BY <2>2, <1>3
    <3>2. x[1] \notin Sessions => log'[x[1]] = log[x[1]]
      BY <2>2
    <3> QED
      BY <2>2, <3>1, <3>2 DEF LastRow
  <2> QED
    BY <2>1, <2>2
<1> QED
  BY <1>5, <1>6

LEMMA RowsStep ==
    ASSUME IInv, LastRow, RowsContiguous, [Next]_vars
    PROVE  LastRow' /\ RowsContiguous'
<1>1. [Transcript!Next]_<<log, OpenExchanges>>
  BY RefinementStep
<1>2. log \in [Sessions -> Seq(Requests \X Roles)]
  BY DEF IInv, TypeOK
<1>3. \A x, y \in OpenExchanges : x[1] = y[1] => x = y
  <2>1. \A r \in Requests : pc[r] \in Asking => pc[r] \in Holding
    BY DEF Asking, Holding, Running, Awaiting
  <2> QED
    BY <2>1, OneHolder DEF OpenExchanges
<1>4. ASSUME NEW s \in Sessions, NEW r \in Requests,
             Transcript!Begin(s, r) \/ Transcript!Consult(s, r) \/ Transcript!Answer(s, r)
      PROVE  LastRow' /\ RowsContiguous'
  <2>1. PICK role \in Roles :
            /\ log' = [log EXCEPT ![s] = Append(log[s], <<r, role>>)]
            /\ role = "user" \/ <<s, r>> \in OpenExchanges
    BY <1>4 DEF Transcript!Begin, Transcript!Consult, Transcript!Answer, Roles
  <2>2. \A x \in OpenExchanges' : x = <<s, r>> \/ (x \in OpenExchanges /\ x[1] # s)
    BY <1>3, <1>4 DEF Transcript!Begin, Transcript!Consult, Transcript!Answer
  <2> QED
    BY <1>2, <2>1, <2>2, AppendStep
<1>5. ASSUME NEW s \in Sessions, Transcript!Clear(s)
      PROVE  LastRow' /\ RowsContiguous'
  <2>1. log' = [log EXCEPT ![s] = <<>>] /\ OpenExchanges' = OpenExchanges
    BY <1>5 DEF Transcript!Clear
  <2>2. log'[s] = <<>> /\ \A x : x # s => log'[x] = log[x]
    BY <1>2, <2>1
  <2>3. RowsContiguous'
    BY <2>2 DEF RowsContiguous
  <2>4. LastRow'
    BY <2>1, <2>2 DEF LastRow
  <2> QED
    BY <2>3, <2>4
<1>6. ASSUME NEW gone, Transcript!GiveUp(gone)
      PROVE  LastRow' /\ RowsContiguous'
  BY <1>6 DEF Transcript!GiveUp, LastRow, RowsContiguous
<1>7. CASE UNCHANGED <<log, OpenExchanges>>
  BY <1>7 DEF LastRow, RowsContiguous
<1> QED
  BY <1>1, <1>4, <1>5, <1>6, <1>7 DEF Transcript!Next

\* No row of one exchange ever comes between the rows of another, whatever is evicted,
\* cleared or killed meanwhile.
THEOREM ContiguousRows == Spec => []RowsContiguous
<1>1. Init => LastRow /\ RowsContiguous
  BY DEF Init, LastRow, RowsContiguous, OpenExchanges, Asking
<1>2. IInv /\ LastRow /\ RowsContiguous /\ [Next]_vars => LastRow' /\ RowsContiguous'
  BY RowsStep
<1> QED
  BY <1>1, <1>2, Invariance, PTL DEF Spec
-----------------------------------------------------------------------------
(* The rate limiter                                                        *)

\* In what follows q is the deque of a key, a its admissions and t the time.

\* The deque holds the latest admissions.
Latest(q, a) ==
    /\ Len(q) <= Len(a)
    /\ \A i \in 1..Len(q) : q[i] = a[i + (Len(a) - Len(q))]

\* The first n admissions lie outside the window.
FirstOld(n, a, t) == \A i \in 1..Len(a) : i <= n => t - a[i] >= Window

\* Admissions are in the order of time.
InOrder(a, t) ==
    /\ \A i \in 1..Len(a) : a[i] <= t
    /\ \A i, j \in 1..Len(a) : i <= j => a[i] <= a[j]

Spaced(a) ==
    \A i \in 1..Len(a) : i + MaxRequests <= Len(a) => a[i + MaxRequests] - a[i] >= Window

\* The last MaxRequests admissions lie in the window.
Full(a, t) ==
    /\ Len(a) >= MaxRequests
    /\ \A i \in 1..Len(a) : i > Len(a) - MaxRequests => ~(t - a[i] >= Window)

KeyInv(q, a, t) ==
    Latest(q, a) /\ FirstOld(Len(a) - Len(q), a, t) /\ InOrder(a, t) /\ Spaced(a)

\* The inductive invariant.
LimiterInv ==
    /\ LimiterTypeOK
    /\ \A k \in Keys : KeyInv(hits[k], admitted[k], now)
    /\ \A k \in refused : Full(admitted[k], now)

USE LimitAssumption, WindowAssumption, TableAssumption

-----------------------------------------------------------------------------
(* One key                                                                 *)

\* Popping from a deque leaves its last elements.
LEMMA LeftFacts ==
    ASSUME NEW q \in Seq(Nat), NEW n \in 0..Len(q)
    PROVE  /\ Left(q, n) \in Seq(Nat)
           /\ Len(Left(q, n)) = Len(q) - n
           /\ \A i \in 1..(Len(q) - n) : Left(q, n)[i] = q[i + n]
BY DEF Left

\* Time passes.
LEMMA Later ==
    ASSUME NEW q \in Seq(Nat), NEW a \in Seq(Nat), NEW t \in Nat, KeyInv(q, a, t)
    PROVE  KeyInv(q, a, t + 1)
<1>1. \A i \in 1..Len(a) : a[i] \in Nat
    OBVIOUS
<1>2. FirstOld(Len(a) - Len(q), a, t + 1)
    BY <1>1 DEF KeyInv, FirstOld
<1>3. InOrder(a, t + 1)
    BY <1>1 DEF KeyInv, InOrder
<1> QED BY <1>2, <1>3 DEF KeyInv

\* What is left after popping are exactly the admissions in the window.
LEMMA Popped ==
    ASSUME NEW q \in Seq(Nat), NEW a \in Seq(Nat), now \in Nat, KeyInv(q, a, now),
           NEW n \in 0..Len(q), Expires(q, n)
    PROVE  LET left == Left(q, n) IN
           /\ Latest(left, a)
           /\ FirstOld(Len(a) - Len(left), a, now)
           /\ \A i \in 1..Len(a) : i > Len(a) - Len(left) => ~(now - a[i] >= Window)
<1> DEFINE left == Left(q, n)
           d == Len(a) - Len(q)
<1>1. /\ \A i \in 1..Len(a) : a[i] \in Nat
      /\ d \in Nat /\ n \in Nat /\ n <= Len(q) /\ Len(a) \in Nat /\ Len(q) \in Nat
      /\ Len(a) = Len(q) + d
    BY DEF KeyInv, Latest
<1>2. Len(left) = Len(q) - n /\ \A i \in 1..(Len(q) - n) : left[i] = q[i + n]
    BY LeftFacts
<1>3. \A i \in 1..Len(q) : q[i] = a[i + d]
    BY DEF KeyInv, Latest
<1> HIDE DEF left, d
<1>4. Latest(left, a)
    <2>1. ASSUME NEW i \in 1..Len(left) PROVE left[i] = a[i + (Len(a) - Len(left))]
        <3>1. i + n \in 1..Len(q) /\ left[i] = q[i + n]
            BY <1>1, <1>2
        <3>2. q[i + n] = a[(i + n) + d]
            BY <1>3, <3>1
        <3>3. (i + n) + d = i + (Len(a) - Len(left))
            BY <1>1, <1>2
        <3> QED BY <3>1, <3>2, <3>3
    <2> QED BY <1>1, <1>2, <2>1 DEF Latest
<1>5. ASSUME NEW i \in 1..Len(a), i <= Len(a) - Len(left) PROVE now - a[i] >= Window
    <2>1. CASE i <= d
        BY <2>1 DEF KeyInv, FirstOld, d
    <2>2. CASE i > d
        <3>1. (i - d) \in 1..n /\ (i - d) \in 1..Len(q) /\ (i - d) + d = i
            BY <1>1, <1>2, <1>5, <2>2
        <3>2. q[i - d] = a[i] /\ Old(q[i - d])
            BY <1>3, <3>1 DEF Expires
        <3> QED BY <3>2 DEF Old
    <2> QED BY <1>1, <2>1, <2>2
<1>6. ASSUME NEW i \in 1..Len(a), i > Len(a) - Len(left) PROVE ~(now - a[i] >= Window)
    <2>1. n < Len(q) /\ n + 1 \in 1..Len(q) /\ (n + 1) + d \in 1..Len(a) /\ (n + 1) + d <= i
        BY <1>1, <1>2, <1>6
    <2>2. ~Old(q[n + 1]) /\ q[n + 1] = a[(n + 1) + d]
        BY <1>3, <2>1 DEF Expires
    <2>3. a[(n + 1) + d] <= a[i]
        BY <2>1 DEF KeyInv, InOrder
    <2>4. a[(n + 1) + d] \in Nat /\ a[i] \in Nat
        BY <1>1, <2>1
    <2> QED BY <2>2, <2>3, <2>4 DEF Old
<1> QED BY <1>4, <1>5, <1>6 DEF FirstOld, left

\* A request is admitted: the admission MaxRequests before it was popped, now or earlier.
LEMMA Admitted ==
    ASSUME NEW q \in Seq(Nat), NEW a \in Seq(Nat), now \in Nat, KeyInv(q, a, now),
           NEW n \in 0..Len(q), Expires(q, n), Len(Left(q, n)) < MaxRequests
    PROVE  KeyInv(Append(Left(q, n), now), Append(a, now), now)
<1> DEFINE left == Left(q, n)
           grown == Append(left, now)
           all == Append(a, now)
<1>1. /\ left \in Seq(Nat) /\ \A i \in 1..Len(a) : a[i] \in Nat
      /\ Len(left) \in Nat /\ Len(a) \in Nat /\ Len(left) < MaxRequests
    <2>1. left \in Seq(Nat)
        BY LeftFacts
    <2> HIDE DEF left
    <2>2. Len(left) \in Nat /\ Len(a) \in Nat /\ \A i \in 1..Len(a) : a[i] \in Nat
        BY <2>1
    <2> QED BY <2>1, <2>2 DEF left
<1>2. Latest(left, a) /\ FirstOld(Len(a) - Len(left), a, now)
    BY Popped
<1>3. /\ Len(grown) = Len(left) + 1 /\ grown[Len(left) + 1] = now
      /\ \A i \in 1..Len(left) : grown[i] = left[i]
      /\ Len(all) = Len(a) + 1 /\ all[Len(a) + 1] = now
      /\ \A i \in 1..Len(a) : all[i] = a[i]
      /\ \A i \in 1..Len(all) : i \in 1..Len(a) \/ i = Len(a) + 1
      /\ \A i \in 1..Len(grown) : i \in 1..Len(left) \/ i = Len(left) + 1
    <2>1. /\ Len(grown) = Len(left) + 1 /\ grown[Len(left) + 1] = now
          /\ \A i \in 1..Len(left) : grown[i] = left[i]
        BY <1>1
    <2>2. /\ Len(all) = Len(a) + 1 /\ all[Len(a) + 1] = now
          /\ \A i \in 1..Len(a) : all[i] = a[i]
        BY <1>1
    <2> HIDE DEF left, grown, all
    <2>3. \A i \in 1..Len(all) : i \in 1..Len(a) \/ i = Len(a) + 1
        BY <1>1, <2>2
    <2>4. \A i \in 1..Len(grown) : i \in 1..Len(left) \/ i = Len(left) + 1
        BY <1>1, <2>1
    <2> QED BY <2>1, <2>2, <2>3, <2>4
<1>4. Len(left) <= Len(a) /\ \A i \in 1..Len(left) : left[i] = a[i + (Len(a) - Len(left))]
    BY <1>2 DEF Latest
<1>5. InOrder(a, now) /\ Spaced(a)
    BY DEF KeyInv
<1> HIDE DEF left, grown, all
<1>6. Latest(grown, all)
    <2>1. ASSUME NEW i \in 1..Len(grown) PROVE grown[i] = all[i + (Len(all) - Len(grown))]
        <3>1. Len(all) - Len(grown) = Len(a) - Len(left)
            BY <1>1, <1>3
        <3>2. CASE i \in 1..Len(left)
            <4>1. i + (Len(a) - Len(left)) \in 1..Len(a)
                BY <1>1, <1>4, <3>2
            <4> QED BY <1>3, <1>4, <3>1, <3>2, <4>1
        <3>3. CASE i = Len(left) + 1
            <4>1. i + (Len(a) - Len(left)) = Len(a) + 1
                BY <1>1, <3>3
            <4> QED BY <1>3, <3>1, <3>3, <4>1
        <3> QED BY <1>3, <3>2, <3>3
    <2> QED BY <1>1, <1>3, <1>4, <2>1 DEF Latest
<1>7. FirstOld(Len(all) - Len(grown), all, now)
    <2>1. ASSUME NEW i \in 1..Len(all), i <= Len(all) - Len(grown) PROVE now - all[i] >= Window
        <3>1. i \in 1..Len(a) /\ i <= Len(a) - Len(left)
            BY <1>1, <1>3, <2>1
        <3> QED BY <1>2, <1>3, <3>1 DEF FirstOld
    <2> QED BY <2>1 DEF FirstOld
<1>8. InOrder(all, now)
    <2>1. ASSUME NEW i \in 1..Len(all) PROVE all[i] <= now
        <3>1. CASE i \in 1..Len(a)
            BY <1>3, <1>5, <3>1 DEF InOrder
        <3>2. CASE i = Len(a) + 1
            BY <1>3, <3>2
        <3> QED BY <1>3, <3>1, <3>2
    <2>2. ASSUME NEW i \in 1..Len(all), NEW j \in 1..Len(all), i <= j PROVE all[i] <= all[j]
        <3>1. CASE j \in 1..Len(a)
            <4>1. i \in 1..Len(a)
                BY <1>1, <1>3, <2>2, <3>1
            <4> QED BY <1>3, <1>5, <2>2, <3>1, <4>1 DEF InOrder
        <3>2. CASE j = Len(a) + 1
            BY <1>3, <2>1, <3>2
        <3> QED BY <1>3, <3>1, <3>2
    <2> QED BY <2>1, <2>2 DEF InOrder
<1>9. Spaced(all)
    <2>1. ASSUME NEW i \in 1..Len(all), i + MaxRequests <= Len(all)
          PROVE  all[i + MaxRequests] - all[i] >= Window
        <3>1. i \in 1..Len(a)
            BY <1>1, <1>3, <2>1
        <3>2. CASE i + MaxRequests <= Len(a)
            <4>1. i + MaxRequests \in 1..Len(a)
                BY <1>1, <3>1, <3>2
            <4>2. a[i + MaxRequests] - a[i] >= Window
                BY <1>5, <3>1, <3>2 DEF Spaced
            <4> QED BY <1>3, <3>1, <4>1, <4>2
        <3>3. CASE i + MaxRequests = Len(a) + 1
            <4>1. i <= Len(a) - Len(left)
                BY <1>1, <3>1, <3>3
            <4>2. now - a[i] >= Window
                BY <1>2, <3>1, <4>1 DEF FirstOld
            <4> QED BY <1>3, <3>1, <3>3, <4>2
        <3> QED BY <1>1, <1>3, <2>1, <3>2, <3>3
    <2> QED BY <2>1 DEF Spaced
<1> QED BY <1>6, <1>7, <1>8, <1>9 DEF KeyInv, left, grown, all

\* A refused request finds the window full.
LEMMA Refused ==
    ASSUME NEW q \in Seq(Nat), NEW a \in Seq(Nat), now \in Nat, KeyInv(q, a, now),
           NEW n \in 0..Len(q), Expires(q, n), Len(Left(q, n)) >= MaxRequests
    PROVE  KeyInv(Left(q, n), a, now) /\ Full(a, now)
<1> DEFINE left == Left(q, n)
<1>1. /\ left \in Seq(Nat) /\ Len(left) \in Nat /\ Len(a) \in Nat /\ Len(left) >= MaxRequests
    <2>1. left \in Seq(Nat)
        BY LeftFacts
    <2>2. Len(left) >= MaxRequests
        OBVIOUS
    <2> HIDE DEF left
    <2>3. Len(left) \in Nat /\ Len(a) \in Nat
        BY <2>1
    <2> QED BY <2>1, <2>2, <2>3
<1>2. /\ Latest(left, a) /\ FirstOld(Len(a) - Len(left), a, now)
      /\ \A i \in 1..Len(a) : i > Len(a) - Len(left) => ~(now - a[i] >= Window)
    BY Popped
<1>3. Len(left) <= Len(a)
    BY <1>2 DEF Latest
<1> HIDE DEF left
<1>4. Full(a, now)
    BY <1>1, <1>2, <1>3 DEF Full
<1> QED BY <1>2, <1>4 DEF KeyInv, left

\* A stale key holds nothing of the window.
LEMMA Emptied ==
    ASSUME NEW q \in Seq(Nat), NEW a \in Seq(Nat), now \in Nat, KeyInv(q, a, now), Stale(q)
    PROVE  KeyInv(<<>>, a, now)
<1>1. \A i \in 1..Len(a) : a[i] \in Nat
    OBVIOUS
<1>2. ASSUME NEW i \in 1..Len(a) PROVE now - a[i] >= Window
    <2>1. CASE q = <<>>
        BY <2>1 DEF KeyInv, FirstOld
    <2>2. CASE q # <<>>
        <3>1. Len(q) \in 1..Len(q) /\ Old(q[Len(q)]) /\ Len(q) + (Len(a) - Len(q)) = Len(a)
            BY <2>2 DEF Stale
        <3>2. Old(a[Len(a)])
            BY <3>1 DEF KeyInv, Latest
        <3>3. a[i] <= a[Len(a)] /\ Len(a) \in 1..Len(a)
            BY DEF KeyInv, InOrder
        <3> QED BY <1>1, <3>2, <3>3 DEF Old
    <2> QED BY <2>1, <2>2
<1>3. Latest(<<>>, a) /\ FirstOld(Len(a) - Len(<<>>), a, now)
    BY <1>2 DEF Latest, FirstOld
<1> QED BY <1>3 DEF KeyInv

-----------------------------------------------------------------------------
(* All keys                                                                *)

LEMMA LimiterInitInv == LimiterInit => LimiterInv
BY DEF LimiterInit, LimiterInv, LimiterTypeOK, KeyInv, Latest, FirstOld, InOrder, Spaced

\* The types a step starts from, one key at a time.
LEMMA KeyTypes ==
    ASSUME LimiterInv
    PROVE  /\ now \in Nat /\ known \subseteq Keys /\ refused \subseteq Keys
           /\ DOMAIN hits = Keys /\ DOMAIN admitted = Keys
           /\ \A k \in Keys : /\ hits[k] \in Seq(Nat) /\ admitted[k] \in Seq(Nat)
                              /\ KeyInv(hits[k], admitted[k], now)
BY DEF LimiterInv, LimiterTypeOK

LEMMA TickInv == LimiterInv /\ Tick => LimiterInv'
<1> SUFFICES ASSUME LimiterInv, Tick PROVE LimiterInv'
    OBVIOUS
<1>1. LimiterTypeOK'
    BY DEF LimiterInv, LimiterTypeOK, Tick
<1>2. ASSUME NEW k \in Keys PROVE KeyInv(hits[k], admitted[k], now + 1)
    BY KeyTypes, Later
<1>3. now' = now + 1 /\ hits' = hits /\ admitted' = admitted /\ refused' = {}
    BY DEF Tick
<1> QED BY <1>1, <1>2, <1>3 DEF LimiterInv

\* Admitting a request of a key leaves full windows full: that key has none.
LEMMA AdmitInv == ASSUME LimiterInv, NEW k \in Keys, Admit(k) PROVE LimiterInv'
<1>1. PICK n \in 0..Len(hits[k]) :
          /\ Expires(hits[k], n)
          /\ Len(Left(hits[k], n)) < MaxRequests
          /\ admitted' = [admitted EXCEPT ![k] = Append(@, now)]
          /\ \E gone \in Prunable(known \cup {k}, [hits EXCEPT ![k] = Append(Left(hits[k], n), now)]) :
                /\ known' = (known \cup {k}) \ gone
                /\ hits' = [j \in Keys |-> IF j \in gone THEN <<>>
                              ELSE [hits EXCEPT ![k] = Append(Left(hits[k], n), now)][j]]
          /\ UNCHANGED <<now, refused>>
    BY DEF Admit
<1> DEFINE grown == [hits EXCEPT ![k] = Append(Left(hits[k], n), now)]
<1>2. PICK gone \in Prunable(known \cup {k}, grown) :
          /\ known' = (known \cup {k}) \ gone
          /\ hits' = [j \in Keys |-> IF j \in gone THEN <<>> ELSE grown[j]]
    BY <1>1
<1>3. \A j \in gone : j \in known \cup {k} /\ Stale(grown[j])
    BY DEF Prunable
<1>4. now \in 0..MaxTime /\ Left(hits[k], n) \in Seq(0..MaxTime)
    BY DEF LimiterInv, LimiterTypeOK, Left
<1>5. ASSUME NEW j \in Keys
      PROVE  grown[j] \in Seq(Nat) /\ admitted'[j] \in Seq(Nat) /\ KeyInv(grown[j], admitted'[j], now)
    <2>1. CASE j = k
        <3>1. KeyInv(Append(Left(hits[k], n), now), Append(admitted[k], now), now)
            BY <1>1, KeyTypes, Admitted
        <3>2. Left(hits[k], n) \in Seq(Nat) /\ now \in Nat /\ admitted[k] \in Seq(Nat)
            BY KeyTypes, LeftFacts
        <3>3. grown[j] = Append(Left(hits[k], n), now) /\ admitted'[j] = Append(admitted[k], now)
            BY <1>1, <2>1, KeyTypes
        <3>4. Append(Left(hits[k], n), now) \in Seq(Nat) /\ Append(admitted[k], now) \in Seq(Nat)
            BY <3>2
        <3> HIDE DEF grown
        <3> QED BY <3>1, <3>3, <3>4
    <2>2. CASE j # k
        BY <1>1, <2>2, KeyTypes
    <2> QED BY <2>1, <2>2
<1>6. ASSUME NEW j \in Keys PROVE KeyInv(hits'[j], admitted'[j], now)
    <2>1. CASE j \in gone
        BY <1>2, <1>3, <1>5, <2>1, KeyTypes, Emptied
    <2>2. CASE j \notin gone
        BY <1>2, <1>5, <2>2
    <2> QED BY <2>1, <2>2
<1>7. ASSUME NEW j \in refused PROVE j # k /\ admitted'[j] = admitted[j]
    <2>1. CASE j = k
        <3> DEFINE a == admitted[k]  left == Left(hits[k], n)
        <3>1. a \in Seq(Nat) /\ Len(a) \in Nat /\ left \in Seq(Nat) /\ Len(left) \in Nat
            BY KeyTypes, LeftFacts
        <3>2. Full(a, now)
            BY <2>1 DEF LimiterInv
        <3>3. Latest(left, a) /\ FirstOld(Len(a) - Len(left), a, now)
            BY <1>1, KeyTypes, Popped
        <3> HIDE DEF a, left
        <3>4. Len(left) < MaxRequests /\ Len(left) <= Len(a)
            BY <1>1, <3>3 DEF Latest, left
        <3>5. /\ Len(a) - Len(left) \in 1..Len(a) /\ Len(a) - Len(left) > Len(a) - MaxRequests
            <4>1. Len(a) >= MaxRequests
                BY <3>2 DEF Full
            <4> QED BY <3>1, <3>4, <4>1
        <3> QED BY <3>2, <3>3, <3>5 DEF Full, FirstOld
    <2>2. CASE j # k
        BY <1>1, <2>2, KeyTypes
    <2> QED BY <2>1, <2>2
<1>8. LimiterTypeOK'
    <2>1. known' \subseteq Keys /\ refused' \subseteq Keys /\ now' \in 0..MaxTime
        BY <1>1, <1>2, <1>4, KeyTypes
    <2>2. grown \in [Keys -> Seq(0..MaxTime)]
        BY <1>4 DEF LimiterInv, LimiterTypeOK
    <2>3. hits' \in [Keys -> Seq(0..MaxTime)]
        <3> HIDE DEF grown
        <3> DEFINE Deques == Seq(0..MaxTime)
        <3>1. <<>> \in Deques
            OBVIOUS
        <3>2. grown \in [Keys -> Deques]
            BY <2>2
        <3> HIDE DEF Deques
        <3>3. hits' \in [Keys -> Deques]
            BY <1>2, <3>1, <3>2
        <3> QED BY <3>3 DEF Deques
    <2>4. admitted' \in [Keys -> Seq(0..MaxTime)]
        <3>1. admitted \in [Keys -> Seq(0..MaxTime)]
            BY DEF LimiterInv, LimiterTypeOK
        <3>2. Append(admitted[k], now) \in Seq(0..MaxTime)
            BY <1>4, <3>1
        <3> QED BY <1>1, <3>1, <3>2
    <2>5. ASSUME NEW j \in Keys \ known' PROVE hits'[j] = <<>>
        BY <1>2 DEF LimiterInv, LimiterTypeOK
    <2> QED BY <2>1, <2>3, <2>4, <2>5 DEF LimiterTypeOK
<1>9. ASSUME NEW j \in refused' PROVE Full(admitted'[j], now')
    BY <1>1, <1>7 DEF LimiterInv
<1> QED BY <1>1, <1>6, <1>8, <1>9 DEF LimiterInv

LEMMA RefuseInv == ASSUME LimiterInv, NEW k \in Keys, Refuse(k) PROVE LimiterInv'
<1>1. PICK n \in 0..Len(hits[k]) :
          /\ Expires(hits[k], n)
          /\ Len(Left(hits[k], n)) >= MaxRequests
          /\ hits' = [hits EXCEPT ![k] = Left(hits[k], n)]
          /\ known' = known \cup {k}
          /\ refused' = refused \cup {k}
          /\ UNCHANGED <<now, admitted>>
    BY DEF Refuse
<1>2. KeyInv(Left(hits[k], n), admitted[k], now) /\ Full(admitted[k], now)
    BY <1>1, KeyTypes, Refused
<1>3. Left(hits[k], n) \in Seq(0..MaxTime)
    BY DEF LimiterInv, LimiterTypeOK, Left
<1>4. LimiterTypeOK'
    <2>1. hits' \in [Keys -> Seq(0..MaxTime)]
        BY <1>1, <1>3 DEF LimiterInv, LimiterTypeOK
    <2>2. ASSUME NEW j \in Keys \ known' PROVE hits'[j] = <<>>
        <3>1. j \in Keys \ known /\ j # k
            BY <1>1, <2>2
        <3>2. hits[j] = <<>>
            BY <3>1 DEF LimiterInv, LimiterTypeOK
        <3> QED BY <1>1, <3>1, <3>2, KeyTypes
    <2> QED BY <1>1, <2>1, <2>2 DEF LimiterInv, LimiterTypeOK
<1>5. ASSUME NEW j \in Keys PROVE KeyInv(hits'[j], admitted'[j], now')
    BY <1>1, <1>2, KeyTypes
<1>6. ASSUME NEW j \in refused' PROVE Full(admitted'[j], now')
    BY <1>1, <1>2 DEF LimiterInv
<1> QED BY <1>4, <1>5, <1>6 DEF LimiterInv

\* Each deque holds the latest admissions of its key; what has left it is a window old.
THEOREM LimiterInvariant == LimiterSpec => []LimiterInv
<1>1. LimiterInv /\ [LimiterNext]_limiterVars => LimiterInv'
    <2> SUFFICES ASSUME LimiterInv, [LimiterNext]_limiterVars PROVE LimiterInv'
        OBVIOUS
    <2>1. CASE Tick
        BY <2>1, TickInv
    <2>2. ASSUME NEW k \in Keys, Admit(k) PROVE LimiterInv'
        BY <2>2, AdmitInv
    <2>3. ASSUME NEW k \in Keys, Refuse(k) PROVE LimiterInv'
        BY <2>3, RefuseInv
    <2>4. CASE UNCHANGED limiterVars
        BY <2>4 DEF LimiterInv, LimiterTypeOK, limiterVars
    <2> QED BY <2>1, <2>2, <2>3, <2>4 DEF LimiterNext
<1> QED BY LimiterInitInv, <1>1, PTL DEF LimiterSpec

\* WindowBound, for every limit and window: the admission that a new one is compared with
\* has left the deque, popped or pruned, and nothing leaves it before it is a window old.
THEOREM WindowBounded == LimiterSpec => []WindowBound
<1>1. LimiterInv => WindowBound
    BY DEF LimiterInv, KeyInv, Spaced, WindowBound
<1> QED BY <1>1, LimiterInvariant, PTL

\* RefusedWhenFull: the limiter refuses nobody who kept to the limit.
THEOREM RefusalsExact == LimiterSpec => []RefusedWhenFull
<1>1. LimiterInv => RefusedWhenFull
    BY DEF LimiterInv, Full, RefusedWhenFull, Old
<1> QED BY <1>1, LimiterInvariant, PTL

\* LimitExact, for every limit, window, table limit and batch.
THEOREM LimitIsExact == LimiterSpec => []LimitExact
<1>1. LimiterInv => LimiterTypeOK
    BY DEF LimiterInv
<1> QED BY <1>1, LimiterInvariant, WindowBounded, RefusalsExact, PTL DEF LimitExact

-----------------------------------------------------------------------------
(* The size of the table                                                   *)

\* What Busy is, and the keys that ever had a request admitted, of admissions adm.
BusyIn(adm, t) == {k \in Keys : \E i \in 1..Len(adm[k]) : adm[k][i] \in (t - Window + 1)..t}
SeenIn(adm) == {k \in Keys : adm[k] # <<>>}

\* The keys that came are finitely many at any time: nothing is assumed of Keys.
TableInv == IsFiniteSet(known) /\ IsFiniteSet(SeenIn(admitted)) /\ TableBound

\* A part of a finite set has no more elements.
LEMMA Part ==
    ASSUME NEW T, IsFiniteSet(T), NEW S, S \subseteq T
    PROVE  /\ IsFiniteSet(S) /\ Cardinality(S) <= Cardinality(T)
           /\ Cardinality(S) \in Nat /\ Cardinality(T) \in Nat
<1>1. IsFiniteSet(S) /\ Cardinality(S) <= Cardinality(T)
    BY FS_Subset
<1> QED BY <1>1, FS_CardinalityType

\* A new admission makes no key less busy.
LEMMA BusyGrows ==
    ASSUME admitted \in [Keys -> Seq(Nat)], IsFiniteSet(SeenIn(admitted)), now \in Nat, NEW k \in Keys,
           admitted' = [admitted EXCEPT ![k] = Append(admitted[k], now)], NEW t \in Nat
    PROVE  /\ IsFiniteSet(SeenIn(admitted'))
           /\ BusyIn(admitted, t) \subseteq BusyIn(admitted', t) /\ BusyIn(admitted', t) \subseteq SeenIn(admitted')
<1>1. /\ admitted' \in [Keys -> Seq(Nat)]
      /\ \A j \in Keys : Len(admitted[j]) <= Len(admitted'[j]) /\ Len(admitted[j]) \in Nat /\ Len(admitted'[j]) \in Nat
      /\ \A j \in Keys : \A i \in 1..Len(admitted[j]) : admitted'[j][i] = admitted[j][i]
    <2> DEFINE a == admitted[k]
    <2>1. a \in Seq(Nat)
        OBVIOUS
    <2>2. admitted' = [admitted EXCEPT ![k] = Append(a, now)]
        OBVIOUS
    <2> HIDE DEF a
    <2>3. /\ Append(a, now) \in Seq(Nat) /\ Len(Append(a, now)) = Len(a) + 1 /\ Len(a) \in Nat
          /\ \A i \in 1..Len(a) : Append(a, now)[i] = a[i]
        BY <2>1
    <2>4. admitted'[k] = Append(a, now) /\ \A j \in Keys \ {k} : admitted'[j] = admitted[j]
        BY <2>2
    <2>5. \A j \in Keys : Len(admitted[j]) \in Nat
        OBVIOUS
    <2>6. admitted' \in [Keys -> Seq(Nat)]
        BY <2>2, <2>3
    <2> QED BY <2>3, <2>4, <2>5, <2>6 DEF a
<1>2. SeenIn(admitted') \subseteq SeenIn(admitted) \cup {k}
    BY DEF SeenIn
<1>3. IsFiniteSet(SeenIn(admitted) \cup {k})
    BY FS_AddElement
<1>4. IsFiniteSet(SeenIn(admitted'))
    BY <1>2, <1>3, FS_Subset
<1>5. BusyIn(admitted, t) \subseteq BusyIn(admitted', t)
    <2>1. \A j \in Keys : 1..Len(admitted[j]) \subseteq 1..Len(admitted'[j])
        BY <1>1
    <2> QED BY <1>1, <2>1 DEF BusyIn
<1>6. BusyIn(admitted', t) \subseteq SeenIn(admitted')
    <2>1. ASSUME NEW j \in Keys, admitted'[j] = <<>> PROVE j \notin BusyIn(admitted', t)
        <3>1. 1..Len(admitted'[j]) = {}
            BY <2>1
        <3> QED BY <3>1 DEF BusyIn
    <2> QED BY <2>1 DEF BusyIn, SeenIn
<1> QED BY <1>4, <1>5, <1>6

\* A key that is not stale is busy now.
LEMMA NotStaleIsBusy ==
    ASSUME now \in Nat, NEW q \in Seq(Nat), NEW a \in Seq(Nat), Latest(q, a), InOrder(a, now), ~Stale(q)
    PROVE  \E i \in 1..Len(a) : a[i] \in (now - Window + 1)..now
<1>1. q # <<>> /\ ~Old(q[Len(q)])
    BY DEF Stale
<1>2. Len(q) \in 1..Len(q) /\ Len(q) <= Len(a) /\ Len(a) \in 1..Len(a) /\ Len(q) + (Len(a) - Len(q)) = Len(a)
    BY <1>1 DEF Latest
<1>3. q[Len(q)] = a[Len(a)]
    BY <1>2 DEF Latest
<1>4. a[Len(a)] \in Nat /\ a[Len(a)] <= now /\ ~(now - a[Len(a)] >= Window)
    BY <1>1, <1>2, <1>3 DEF InOrder, Old
<1>5. a[Len(a)] \in (now - Window + 1)..now
    BY <1>4
<1> QED BY <1>2, <1>5

\* Admitting a request prunes all that is stale or makes the table no larger.
LEMMA AdmitTable == ASSUME LimiterInv, TableInv, NEW k \in Keys, Admit(k) PROVE TableInv'
<1>1. PICK n \in 0..Len(hits[k]) :
          /\ admitted' = [admitted EXCEPT ![k] = Append(@, now)]
          /\ \E gone \in Prunable(known \cup {k}, [hits EXCEPT ![k] = Append(Left(hits[k], n), now)]) :
                known' = (known \cup {k}) \ gone
          /\ UNCHANGED now
    BY DEF Admit
<1> DEFINE grown == [hits EXCEPT ![k] = Append(Left(hits[k], n), now)]
           table == known \cup {k}
<1>2. PICK gone \in Prunable(table, grown) : known' = table \ gone
    BY <1>1
<1>3. /\ admitted \in [Keys -> Seq(Nat)] /\ now \in Nat /\ known \subseteq Keys
      /\ admitted' = [admitted EXCEPT ![k] = Append(admitted[k], now)]
    BY <1>1 DEF LimiterInv, LimiterTypeOK
<1>4. /\ IsFiniteSet(SeenIn(admitted'))
      /\ \A t \in Nat : BusyIn(admitted, t) \subseteq BusyIn(admitted', t)
      /\ \A t \in Nat : BusyIn(admitted', t) \subseteq SeenIn(admitted')
    <2>1. IsFiniteSet(SeenIn(admitted))
        BY DEF TableInv
    <2>2. 0 \in Nat
        OBVIOUS
    <2> QED BY <1>3, <2>1, <2>2, BusyGrows
<1>5. IsFiniteSet(table) /\ Cardinality(table) <= Cardinality(known) + 1
    <2>1. IsFiniteSet(known)
        BY DEF TableInv
    <2> QED BY <2>1, FS_AddElement, FS_CardinalityType
<1>6. known' \subseteq table
    BY <1>2
<1> HIDE DEF table
<1>7. IsFiniteSet(known') /\ Cardinality(known') <= Cardinality(table)
      /\ Cardinality(known') \in Nat /\ Cardinality(table) \in Nat
    BY <1>5, <1>6, Part
<1>8. \A t \in Nat : IsFiniteSet(BusyIn(admitted', t)) /\ Cardinality(BusyIn(admitted', t)) \in Nat
    BY <1>4, Part
<1> DEFINE stale == {j \in table : Stale(grown[j])}
<1>9. \/ Cardinality(known') <= TableLimit
      \/ \E t \in 0..now : Cardinality(known') <= Cardinality(BusyIn(admitted', t))
  <2>1. CASE Cardinality(table) <= TableLimit
    BY <1>7, <2>1
  <2>2. CASE gone = stale
    <3>1. ASSUME NEW j \in known' PROVE j \in BusyIn(admitted', now)
      <4>1. j \in table /\ ~Stale(grown[j]) /\ j \in Keys
        BY <1>2, <1>3, <2>2, <3>1 DEF table
      <4>2. CASE j = k
        <5> DEFINE a == admitted[k]
                   c == Append(a, now)
        <5>1. a \in Seq(Nat) /\ admitted'[k] = c
          BY <1>3
        <5> HIDE DEF a
        <5>2. Len(c) \in 1..Len(c) /\ c[Len(c)] = now
          BY <1>3, <5>1
        <5>3. now \in (now - Window + 1)..now
          BY <1>3
        <5> HIDE DEF c
        <5> QED BY <4>2, <5>1, <5>2, <5>3 DEF BusyIn
      <4>3. CASE j # k
        <5>1. grown[j] = hits[j] /\ admitted'[j] = admitted[j]
          BY <1>3, <4>1, <4>3, KeyTypes
        <5>2. \E i \in 1..Len(admitted[j]) : admitted[j][i] \in (now - Window + 1)..now
          BY <4>1, <5>1, KeyTypes, NotStaleIsBusy DEF KeyInv
        <5> QED BY <4>1, <5>1, <5>2 DEF BusyIn
      <4> QED BY <4>2, <4>3
    <3>2. known' \subseteq BusyIn(admitted', now)
      BY <3>1
    <3>3. Cardinality(known') <= Cardinality(BusyIn(admitted', now))
      BY <1>3, <1>8, <3>2, Part
    <3> QED BY <1>3, <3>3
  <2>3. CASE Cardinality(table) > TableLimit /\ gone # stale
    <3>1. gone \subseteq table /\ Cardinality(gone) = Batch
      BY <1>7, <2>3, TableAssumption DEF Prunable
    <3>2. gone # {}
      BY <3>1, FS_EmptySet, TableAssumption
    <3>3. PICK j : j \in gone
      BY <3>2
    <3>4. known' \subseteq table \ {j} /\ j \in table
      BY <1>2, <3>1, <3>3
    <3>5. IsFiniteSet(table \ {j}) /\ Cardinality(table \ {j}) = Cardinality(table) - 1
      BY <1>5, <3>4, FS_RemoveElement
    <3>6. Cardinality(known') <= Cardinality(table) - 1
      BY <3>4, <3>5, Part
    <3>7. Cardinality(known) \in Nat
      BY FS_CardinalityType DEF TableInv
    <3>8. Cardinality(known') <= Cardinality(known)
      BY <1>5, <1>7, <3>6, <3>7
    <3>9. CASE Cardinality(known) <= TableLimit
      BY <1>7, <3>7, <3>8, <3>9, TableAssumption
    <3>10. CASE ~(Cardinality(known) <= TableLimit)
      <4>1. PICK t \in 0..now : Cardinality(known) <= Cardinality(BusyIn(admitted, t))
        BY <3>10 DEF TableInv, TableBound, Busy, BusyIn
      <4>2. t \in Nat
        BY <1>3
      <4>3. /\ Cardinality(BusyIn(admitted, t)) <= Cardinality(BusyIn(admitted', t))
            /\ Cardinality(BusyIn(admitted, t)) \in Nat /\ Cardinality(BusyIn(admitted', t)) \in Nat
        BY <1>4, <1>8, <4>2, Part
      <4> QED BY <1>7, <3>7, <3>8, <4>1, <4>3
    <3> QED BY <3>9, <3>10
  <2> QED BY <1>7, <2>1, <2>2, <2>3, TableAssumption
<1> QED BY <1>1, <1>4, <1>7, <1>9 DEF TableInv, TableBound, Busy, BusyIn, SeenIn

\* A refused request's key is in the table.
LEMMA RefuseTable == ASSUME LimiterInv, TableInv, NEW k \in Keys, Refuse(k) PROVE TableInv'
<1>1. PICK n \in 0..Len(hits[k]) :
          /\ Len(Left(hits[k], n)) >= MaxRequests
          /\ known' = known \cup {k} /\ UNCHANGED <<now, admitted>>
    BY DEF Refuse
<1>2. k \in known
    <2>1. hits[k] \in Seq(Nat)
        BY KeyTypes
    <2>2. Len(Left(hits[k], n)) = Len(hits[k]) - n
        BY <2>1, LeftFacts
    <2>3. hits[k] # <<>>
        BY <1>1, <2>1, <2>2
    <2> QED BY <2>3 DEF LimiterInv, LimiterTypeOK
<1>3. known' = known
    BY <1>1, <1>2
<1> QED BY <1>1, <1>3 DEF TableInv, TableBound, Busy, SeenIn

\* Above its limit the table holds no more keys than were busy at one time.
THEOREM TableBounded == LimiterSpec => []TableBound
<1>1. LimiterInit => TableInv
    <2> SUFFICES ASSUME LimiterInit PROVE TableInv
        OBVIOUS
    <2>1. known = {} /\ SeenIn(admitted) = {}
        BY DEF LimiterInit, SeenIn
    <2> QED BY <2>1, FS_EmptySet, TableAssumption DEF TableInv, TableBound
<1>2. LimiterInv /\ TableInv /\ [LimiterNext]_limiterVars => TableInv'
    <2> SUFFICES ASSUME LimiterInv, TableInv, [LimiterNext]_limiterVars PROVE TableInv'
        OBVIOUS
    <2>1. CASE Tick
        <3>1. now' = now + 1 /\ UNCHANGED <<known, admitted>> /\ now \in Nat
            BY <2>1 DEF Tick, LimiterInv, LimiterTypeOK
        <3>2. 0..now \subseteq 0..now'
            BY <3>1
        <3> QED BY <3>1, <3>2 DEF TableInv, TableBound, Busy, SeenIn
    <2>2. ASSUME NEW k \in Keys, Admit(k) PROVE TableInv'
        BY <2>2, AdmitTable
    <2>3. ASSUME NEW k \in Keys, Refuse(k) PROVE TableInv'
        BY <2>3, RefuseTable
    <2>4. CASE UNCHANGED limiterVars
        BY <2>4 DEF limiterVars, TableInv, TableBound, Busy, SeenIn
    <2> QED BY <2>1, <2>2, <2>3, <2>4 DEF LimiterNext
<1>3. TableInv => TableBound
    BY DEF TableInv
<1> QED BY <1>1, <1>2, <1>3, LimiterInvariant, PTL DEF LimiterSpec
=============================================================================
