----------------------- MODULE WhatsAppWebhook_proofs -----------------------
(***************************************************************************)
(* Proofs about WhatsAppWebhook, for any messages, senders and payloads,   *)
(* any size of the window of seen ids and any number of tasks, failures    *)
(* and restarts.                                                           *)
(***************************************************************************)
EXTENDS WhatsAppWebhook, FiniteSetTheorems, TLAPS

-----------------------------------------------------------------------------
(* Sequences without repetition                                            *)

\* What Append does, element by element.
LEMMA AppendElements ==
    ASSUME NEW S, NEW q \in Seq(S), NEW e \in S
    PROVE  /\ Append(q, e) \in Seq(S)
           /\ Len(q) \in Nat
           /\ Len(Append(q, e)) = Len(q) + 1
           /\ \A i \in 1..Len(q) : Append(q, e)[i] = q[i]
           /\ Append(q, e)[Len(q) + 1] = e
OBVIOUS

\* The members of a sequence are what stands at its places.
LEMMA Members ==
    ASSUME NEW S, NEW q \in Seq(S)
    PROVE  /\ ToSet(q) = {q[i] : i \in 1..Len(q)}
           /\ ToSet(q) \subseteq S
BY DEF ToSet

\* Appending something new adds one member and repeats none.
LEMMA AppendNew ==
    ASSUME NEW S, NEW q \in Seq(S), NEW e \in S, NoRepetition(q), e \notin ToSet(q)
    PROVE  /\ Append(q, e) \in Seq(S)
           /\ NoRepetition(Append(q, e))
           /\ ToSet(Append(q, e)) = ToSet(q) \cup {e}
<1>1. /\ Append(q, e) \in Seq(S)
      /\ Len(q) \in Nat
      /\ Len(Append(q, e)) = Len(q) + 1
      /\ \A i \in 1..Len(q) : Append(q, e)[i] = q[i]
      /\ Append(q, e)[Len(q) + 1] = e
  BY AppendElements
<1>2. \A i \in 1..Len(Append(q, e)) : i \in 1..Len(q) \/ i = Len(q) + 1
  BY <1>1
<1>3. \A i \in 1..Len(q) : q[i] # e
  BY Members
<1>4. NoRepetition(Append(q, e))
  BY <1>1, <1>2, <1>3 DEF NoRepetition
<1>5. /\ ToSet(q) = {q[i] : i \in 1..Len(q)}
      /\ ToSet(Append(q, e)) = {Append(q, e)[i] : i \in 1..Len(Append(q, e))}
  BY <1>1, Members
<1>6. Len(q) + 1 \in 1..Len(Append(q, e)) /\ 1..Len(q) \subseteq 1..Len(Append(q, e))
  BY <1>1
<1>7. ToSet(Append(q, e)) = ToSet(q) \cup {e}
  BY <1>1, <1>2, <1>5, <1>6
<1> QED
  BY <1>1, <1>4, <1>7

\* Taking the head away removes one member and repeats none.
LEMMA TailRest ==
    ASSUME NEW S, NEW q \in Seq(S), NoRepetition(q), q # <<>>
    PROVE  /\ Tail(q) \in Seq(S)
           /\ Len(Tail(q)) = Len(q) - 1
           /\ Len(q) \in Nat \ {0}
           /\ Head(q) \in ToSet(q)
           /\ NoRepetition(Tail(q))
           /\ ToSet(Tail(q)) = ToSet(q) \ {Head(q)}
<1>1. /\ Tail(q) \in Seq(S)
      /\ Len(q) \in Nat \ {0}
      /\ Len(Tail(q)) = Len(q) - 1
      /\ \A i \in 1..Len(Tail(q)) : Tail(q)[i] = q[i + 1]
      /\ Head(q) = q[1]
  OBVIOUS
<1>2. /\ ToSet(q) = {q[i] : i \in 1..Len(q)}
      /\ ToSet(Tail(q)) = {Tail(q)[i] : i \in 1..Len(Tail(q))}
  BY <1>1, Members
<1>3. /\ 1 \in 1..Len(q)
      /\ \A i \in 1..Len(Tail(q)) : i + 1 \in 1..Len(q) /\ i + 1 # 1
  BY <1>1
<1>4. NoRepetition(Tail(q))
  <2>1. SUFFICES ASSUME NEW i \in 1..Len(Tail(q)), NEW j \in 1..Len(Tail(q)), Tail(q)[i] = Tail(q)[j]
                 PROVE  i = j
    BY DEF NoRepetition
  <2>2. q[i + 1] = q[j + 1]
    BY <1>1, <2>1
  <2>3. i + 1 = j + 1
    BY <1>3, <2>2 DEF NoRepetition
  <2> QED
    BY <2>3
<1>5. ToSet(Tail(q)) \subseteq ToSet(q) \ {Head(q)}
  <2>1. SUFFICES ASSUME NEW i \in 1..Len(Tail(q))
                 PROVE  Tail(q)[i] \in ToSet(q) /\ Tail(q)[i] # q[1]
    BY <1>1, <1>2
  <2> QED
    BY <1>1, <1>2, <1>3 DEF NoRepetition
<1>6. ToSet(q) \ {Head(q)} \subseteq ToSet(Tail(q))
  <2>1. SUFFICES ASSUME NEW i \in 1..Len(q), q[i] # q[1]
                 PROVE  \E j \in 1..Len(Tail(q)) : Tail(q)[j] = q[i]
    BY <1>1, <1>2
  <2>2. i - 1 \in 1..Len(Tail(q)) /\ (i - 1) + 1 = i
    BY <1>1, <2>1
  <2> QED
    BY <1>1, <2>2
<1> QED
  BY <1>1, <1>2, <1>3, <1>4, <1>5, <1>6

-----------------------------------------------------------------------------
(* The inductive invariant                                                 *)

\* The task that asks is at the head of its sender's queue.
HeadAsks ==
    \A t \in 1..Len(tasks) :
        tasks[t].stage = "ask" => queue[SenderOf(t)] # <<>> /\ Head(queue[SenderOf(t)]) = t

\* The tasks that wait to ask about m.
Waiting(m) == {t \in 1..Len(tasks) : tasks[t].stage = "lock" /\ Message(t) = m}

\* Each time m is new entitles one task to ask about it, which has asked or waits.
Budget ==
    \A m \in Ids :
        asked[m] + Cardinality(Waiting(m)) <= forgotten[m] + (IF m \in seenIds THEN 1 ELSE 0)

IInv == TypeOK /\ SeenAgree /\ QueueExact /\ HeadAsks /\ Budget

\* What the type invariant says of one task.
LEMMA TaskFacts ==
    ASSUME TypeOK, NEW t \in 1..Len(tasks)
    PROVE  /\ tasks \in Seq(Tasks) /\ Len(tasks) \in Nat /\ Len(tasks) <= MaxTasks
           /\ t \in 1..MaxTasks
           /\ tasks[t] \in Tasks
           /\ tasks[t].payload \in Seq(Ids)
           /\ tasks[t].stage \in {"lock", "ask", "send", "failed"} =>
                  /\ tasks[t].index \in 1..Len(tasks[t].payload)
                  /\ Message(t) \in Ids
                  /\ SenderOf(t) \in Senders
<1>1. tasks \in Seq(Tasks) /\ Len(tasks) \in Nat /\ Len(tasks) <= MaxTasks
  BY DEF TypeOK
<1>2. MaxTasks \in Nat
  BY BoundsAssumption
<1>3. tasks[t] \in Tasks
  BY <1>1
<1>4. tasks[t].payload \in Seq(Ids) /\ tasks[t].index \in Nat \ {0}
  BY <1>3, PayloadsAssumption DEF Tasks
<1>5. ASSUME tasks[t].stage \in {"lock", "ask", "send", "failed"}
      PROVE  /\ tasks[t].index \in 1..Len(tasks[t].payload)
             /\ Message(t) \in Ids
             /\ SenderOf(t) \in Senders
  <2>1. tasks[t].index <= Len(tasks[t].payload)
    BY <1>5 DEF TypeOK
  <2>2. tasks[t].index \in 1..Len(tasks[t].payload)
    BY <2>1, <1>4
  <2>3. Message(t) \in Ids
    BY <2>2, <1>4 DEF Message
  <2> QED
    BY <2>2, <2>3, SenderAssumption DEF SenderOf
<1> QED
  BY <1>1, <1>2, <1>3, <1>4, <1>5

\* Replacing the record of one task leaves the others as they are.
LEMMA TaskUpdate ==
    ASSUME TypeOK, NEW t \in 1..Len(tasks), NEW r \in Tasks, tasks' = [tasks EXCEPT ![t] = r]
    PROVE  /\ tasks' \in Seq(Tasks)
           /\ Len(tasks') = Len(tasks)
           /\ tasks'[t] = r
           /\ \A u \in 1..Len(tasks) : u # t => tasks'[u] = tasks[u]
BY DEF TypeOK

\* Marking a new id keeps the window exact, and every id's budget but its own.
LEMMA MarkSeenFacts ==
    ASSUME TypeOK, SeenAgree, NEW m \in Ids, m \notin seenIds, MarkSeen(m)
    PROVE  /\ seenIds' \subseteq Ids /\ seenOrder' \in Seq(Ids)
           /\ forgotten' \in [Ids -> Nat]
           /\ SeenAgree'
           /\ m \in seenIds' /\ forgotten'[m] = forgotten[m]
           /\ \A x \in Ids : x # m =>
                  \/ forgotten'[x] = forgotten[x] /\ (x \in seenIds <=> x \in seenIds')
                  \/ forgotten'[x] = forgotten[x] + 1 /\ x \in seenIds /\ x \notin seenIds'
<1> DEFINE order == Append(seenOrder, m)
<1>0. /\ seenOrder \in Seq(Ids) /\ seenIds \subseteq Ids /\ forgotten \in [Ids -> Nat]
      /\ seenIds = ToSet(seenOrder) /\ NoRepetition(seenOrder)
      /\ Len(seenOrder) \in Nat /\ Len(seenOrder) <= SeenLimit /\ SeenLimit \in Nat \ {0}
  BY BoundsAssumption DEF TypeOK, SeenAgree
<1>1. /\ order \in Seq(Ids)
      /\ NoRepetition(order)
      /\ ToSet(order) = seenIds \cup {m}
      /\ Len(order) = Len(seenOrder) + 1
      /\ \A i \in 1..Len(seenOrder) : order[i] = seenOrder[i]
  BY <1>0, AppendNew, AppendElements
<1>2. CASE Len(order) <= SeenLimit
  <2>1. seenOrder' = order /\ seenIds' = seenIds \cup {m} /\ forgotten' = forgotten
    BY <1>0, <1>1, <1>2 DEF MarkSeen
  <2>2. SeenAgree'
    BY <2>1, <1>1, <1>2 DEF SeenAgree
  <2> QED
    BY <2>1, <2>2, <1>0, <1>1
<1>3. CASE Len(order) > SeenLimit
  <2> DEFINE oldest == Head(order)
  <2>1. /\ seenOrder' = Tail(order)
        /\ seenIds' = (seenIds \cup {m}) \ {oldest}
        /\ forgotten' = [forgotten EXCEPT ![oldest] = @ + 1]
    BY <1>3 DEF MarkSeen
  <2>2. order # <<>>
    BY <1>1
  <2>3. /\ Tail(order) \in Seq(Ids)
        /\ Len(Tail(order)) = Len(order) - 1
        /\ oldest \in ToSet(order)
        /\ NoRepetition(Tail(order))
        /\ ToSet(Tail(order)) = ToSet(order) \ {oldest}
    BY <1>1, <2>2, TailRest
  <2>4. oldest \in seenIds /\ oldest \in Ids /\ oldest # m
    <3>1. Len(seenOrder) >= 1 /\ oldest = order[1] /\ order[1] = seenOrder[1]
      BY <1>0, <1>1, <1>3
    <3>2. seenOrder[1] \in ToSet(seenOrder)
      BY <3>1, <1>0, Members
    <3> QED
      BY <3>1, <3>2, <1>0
  <2>5. SeenAgree'
    BY <2>1, <2>3, <1>0, <1>1 DEF SeenAgree
  <2>6. \A x \in Ids : x # oldest => forgotten'[x] = forgotten[x]
    BY <2>1, <1>0
  <2>7. forgotten'[oldest] = forgotten[oldest] + 1 /\ forgotten' \in [Ids -> Nat]
    BY <2>1, <2>4, <1>0
  <2> QED
    BY <2>1, <2>3, <2>4, <2>5, <2>6, <2>7, <1>0
<1> QED
  BY <1>0, <1>1, <1>2, <1>3

\* What the steps of one task do to the list of tasks: its stage and place change, and
\* nothing of another task.
Changed(t, stages) ==
    /\ tasks' \in Seq(Tasks)
    /\ Len(tasks') = Len(tasks)
    /\ tasks'[t].payload = tasks[t].payload
    /\ tasks'[t].stage \in stages
    /\ \A u \in 1..Len(tasks) : u # t => tasks'[u] = tasks[u]

\* What moving a task comes to.
LEMMA MovedTask ==
    ASSUME TypeOK, NEW t \in 1..Len(tasks), NEW i \in Nat \ {0}, NEW g \in Live \cup Over, NEW n \in 0..MaxParts,
           tasks' = Moved(t, i, g, n)
    PROVE  Changed(t, {g}) /\ tasks'[t].index = i
<1> DEFINE r == [payload |-> tasks[t].payload, index |-> i, stage |-> g, left |-> n]
<1>1. tasks[t].payload \in Payloads
  BY TaskFacts DEF Tasks
<1>2. r \in Tasks /\ r.payload = tasks[t].payload /\ r.stage = g /\ r.index = i
  BY <1>1 DEF Tasks
<1>3. tasks' = [tasks EXCEPT ![t] = r]
  BY DEF Moved
<1>4. /\ tasks' \in Seq(Tasks)
      /\ Len(tasks') = Len(tasks)
      /\ tasks'[t] = r
      /\ \A u \in 1..Len(tasks) : u # t => tasks'[u] = tasks[u]
  BY <1>2, <1>3, TaskUpdate
<1> QED
  BY <1>2, <1>4 DEF Changed

\* The fields of a task, and the stages it may come to.
LEMMA TaskFields ==
    ASSUME TypeOK, NEW t \in 1..Len(tasks)
    PROVE  /\ tasks[t].index \in Nat \ {0} /\ tasks[t].left \in 0..MaxParts
           /\ tasks[t].stage \in Live \cup Over
           /\ 0 \in 0..MaxParts /\ MaxParts \in Nat
           /\ {"next", "lock", "ask", "send", "done", "failed", "cancelled"} = Live \cup Over
BY TaskFacts, BoundsAssumption DEF Tasks, Live, Over

LEMMA TakeTask ==
    ASSUME TypeOK, NEW t \in 1..Len(tasks), Take(t)
    PROVE  \E k \in 1..Len(tasks[t].payload) :
               /\ tasks[t].payload[k] \in Ids /\ tasks[t].payload[k] \notin seenIds
               /\ MarkSeen(tasks[t].payload[k])
               /\ queue' = [queue EXCEPT ![Sender[tasks[t].payload[k]]] = Append(@, t)]
               /\ Changed(t, {"lock"}) /\ tasks'[t].index = k
<1>1. PICK k \in Fresh(t) :
          /\ MarkSeen(tasks[t].payload[k])
          /\ tasks' = Moved(t, k, "lock", 0)
          /\ queue' = [queue EXCEPT ![Sender[tasks[t].payload[k]]] = Append(@, t)]
  BY DEF Take
<1>2. k \in Nat \ {0} /\ k \in 1..Len(tasks[t].payload) /\ tasks[t].payload[k] \in Ids
  BY <1>1, TaskFields, TaskFacts DEF Fresh
<1>3. tasks[t].payload[k] \notin seenIds
  BY <1>1 DEF Fresh, IsDuplicate
<1>4. Changed(t, {"lock"}) /\ tasks'[t].index = k
  BY <1>1, <1>2, TaskFields, MovedTask
<1> QED
  BY <1>1, <1>2, <1>3, <1>4

\* The steps that leave the task at its message.
LEMMA StayTask ==
    ASSUME TypeOK, NEW t \in 1..Len(tasks)
    PROVE  /\ Finish(t) => Changed(t, {"done"}) /\ tasks'[t].index = tasks[t].index
           /\ Ask(t) => Changed(t, {"ask"}) /\ tasks'[t].index = tasks[t].index
           /\ Answer(t) => Changed(t, {"send"}) /\ tasks'[t].index = tasks[t].index
           /\ SendFails(t) => Changed(t, {"failed"}) /\ tasks'[t].index = tasks[t].index
<1>1. ASSUME NEW g \in Live \cup Over, NEW n \in 0..MaxParts, tasks' = Moved(t, tasks[t].index, g, n)
      PROVE  Changed(t, {g}) /\ tasks'[t].index = tasks[t].index
  BY <1>1, TaskFields, MovedTask
<1>2. Finish(t) => Changed(t, {"done"}) /\ tasks'[t].index = tasks[t].index
  BY <1>1, TaskFields DEF Finish
<1>3. Ask(t) => Changed(t, {"ask"}) /\ tasks'[t].index = tasks[t].index
  BY <1>1, TaskFields DEF Ask
<1>4. Answer(t) => Changed(t, {"send"}) /\ tasks'[t].index = tasks[t].index
  <2>1. SUFFICES ASSUME Answer(t)
                 PROVE  Changed(t, {"send"}) /\ tasks'[t].index = tasks[t].index
    OBVIOUS
  <2>2. PICK n \in 1..MaxParts : tasks' = Moved(t, tasks[t].index, "send", n)
    BY <2>1 DEF Answer
  <2>3. MaxParts \in Nat
    BY TaskFields
  <2>4. n \in 0..MaxParts
    BY <2>3
  <2> QED
    BY <1>1, <2>2, <2>4, TaskFields
<1>5. SendFails(t) => Changed(t, {"failed"}) /\ tasks'[t].index = tasks[t].index
  BY <1>1, TaskFields DEF SendFails
<1> QED
  BY <1>2, <1>3, <1>4, <1>5

\* Sending a part, and going on after the last one.
LEMMA SendTask ==
    ASSUME TypeOK, NEW t \in 1..Len(tasks), Send(t)
    PROVE  Changed(t, {"send", "next"})
           /\ (tasks'[t].stage = "send" => tasks'[t].index = tasks[t].index)
<1>1. CASE tasks[t].left > 1
  <2>1. tasks' = Moved(t, tasks[t].index, "send", tasks[t].left - 1)
    BY <1>1 DEF Send
  <2>2. tasks[t].left \in 0..MaxParts /\ MaxParts \in Nat
    BY TaskFields
  <2>3. tasks[t].left - 1 \in 0..MaxParts
    BY <1>1, <2>2
  <2>4. Changed(t, {"send"}) /\ tasks'[t].index = tasks[t].index
    BY <2>1, <2>3, TaskFields, MovedTask
  <2> QED
    BY <2>4 DEF Changed
<1>2. CASE ~(tasks[t].left > 1)
  <2>1. tasks' = Moved(t, tasks[t].index + 1, "next", 0)
    BY <1>2 DEF Send
  <2>2. tasks[t].index + 1 \in Nat \ {0}
    BY TaskFields
  <2>3. Changed(t, {"next"})
    BY <2>1, <2>2, TaskFields, MovedTask
  <2> QED
    BY <2>3 DEF Changed
<1> QED
  BY <1>1, <1>2

-----------------------------------------------------------------------------
(* What a step of one task leaves alone                                    *)

\* The other tasks stand where they stood.
LEMMA ChangedOthers ==
    ASSUME TypeOK, NEW t \in 1..Len(tasks), NEW G, Changed(t, G)
    PROVE  /\ 1..Len(tasks') = 1..Len(tasks)
           /\ \A u \in 1..Len(tasks) : u # t =>
                  /\ tasks'[u] = tasks[u]
                  /\ Message(u)' = Message(u) /\ SenderOf(u)' = SenderOf(u)
           /\ tasks'[t].index = tasks[t].index =>
                  Message(t)' = Message(t) /\ SenderOf(t)' = SenderOf(t)
           /\ Message(t)' = tasks[t].payload[tasks'[t].index]
BY DEF Changed, Message, SenderOf

\* The list of tasks stays typed if the moved task is within its payload.
LEMMA ChangedTyped ==
    ASSUME TypeOK, NEW t \in 1..Len(tasks), NEW G, Changed(t, G),
           tasks'[t].stage \in {"lock", "ask", "send", "failed"}
               => tasks'[t].index <= Len(tasks[t].payload)
    PROVE  /\ tasks' \in Seq(Tasks) /\ Len(tasks') <= MaxTasks
           /\ \A u \in 1..Len(tasks') :
                  tasks'[u].stage \in {"lock", "ask", "send", "failed"}
                  => tasks'[u].index <= Len(tasks'[u].payload)
<1>1. /\ tasks' \in Seq(Tasks) /\ Len(tasks') = Len(tasks) /\ Len(tasks) <= MaxTasks
      /\ tasks'[t].payload = tasks[t].payload
      /\ \A u \in 1..Len(tasks) : u # t => tasks'[u] = tasks[u]
  BY DEF Changed, TypeOK
<1>2. ASSUME NEW u \in 1..Len(tasks), tasks'[u].stage \in {"lock", "ask", "send", "failed"}
      PROVE  tasks'[u].index <= Len(tasks'[u].payload)
  <2>1. CASE u = t
    BY <1>1, <1>2, <2>1
  <2>2. CASE u # t
    BY <1>1, <1>2, <2>2 DEF TypeOK
  <2> QED
    BY <2>1, <2>2
<1> QED
  BY <1>1, <1>2

\* The tasks that hold or await the lock of a sender.
LockUsers(s) == {t \in 1..Len(tasks) : tasks[t].stage \in {"lock", "ask"} /\ SenderOf(t) = s}

\* A step of a task that has nothing to do with a lock keeps what is said of locks.
LEMMA QuietStep ==
    ASSUME IInv, NEW t \in 1..Len(tasks), NEW G, Changed(t, G), G \cap {"lock", "ask"} = {},
           tasks[t].stage \notin {"lock", "ask"},
           queue' = queue, seenIds' = seenIds, seenOrder' = seenOrder,
           asked' = asked, forgotten' = forgotten
    PROVE  SeenAgree' /\ QueueExact' /\ HeadAsks' /\ Budget'
<1>0. TypeOK /\ SeenAgree /\ QueueExact /\ HeadAsks /\ Budget
  BY DEF IInv
<1>1. /\ 1..Len(tasks') = 1..Len(tasks)
      /\ \A u \in 1..Len(tasks) : u # t =>
             /\ tasks'[u] = tasks[u]
             /\ Message(u)' = Message(u) /\ SenderOf(u)' = SenderOf(u)
      /\ tasks'[t].stage \notin {"lock", "ask"}
  BY <1>0, ChangedOthers DEF Changed
<1>2. SeenAgree'
  BY <1>0 DEF SeenAgree
<1>3. \A s : LockUsers(s)' = LockUsers(s)
  BY <1>1 DEF LockUsers
<1>4. QueueExact'
  BY <1>0, <1>3 DEF QueueExact, LockUsers
<1>5. HeadAsks'
  BY <1>0, <1>1 DEF HeadAsks
<1>6. \A m : Waiting(m)' = Waiting(m)
  BY <1>1 DEF Waiting
<1>7. Budget'
  BY <1>0, <1>6 DEF Budget
<1> QED
  BY <1>2, <1>4, <1>5, <1>7

\* The tasks that wait to ask about a message are finitely many.
LEMMA WaitingFinite ==
    ASSUME TypeOK, NEW m
    PROVE  IsFiniteSet(Waiting(m)) /\ Cardinality(Waiting(m)) \in Nat
<1>1. Len(tasks) \in Nat
  BY DEF TypeOK
<1>2. IsFiniteSet(1..Len(tasks))
  BY <1>1, FS_Interval
<1>3. Waiting(m) \subseteq 1..Len(tasks)
  BY DEF Waiting
<1> QED
  BY <1>2, <1>3, FS_Subset, FS_CardinalityType

-----------------------------------------------------------------------------
(* The actions keep the inductive invariant                                *)

LEMMA InitInv == Init => IInv
<1> SUFFICES ASSUME Init PROVE IInv
  OBVIOUS
<1> USE DEF Init
<1>1. Len(tasks) = 0 /\ 1..Len(tasks) = {}
  OBVIOUS
<1>2. TypeOK
  BY <1>1, BoundsAssumption DEF TypeOK
<1>3. ToSet(<<>>) = {}
  BY DEF ToSet
<1>4. SeenAgree
  BY <1>3, BoundsAssumption DEF SeenAgree, NoRepetition
<1>5. QueueExact
  BY <1>1, <1>3 DEF QueueExact, NoRepetition
<1>6. HeadAsks
  BY <1>1 DEF HeadAsks
<1>7. Budget
  <2>1. \A m : Waiting(m) = {}
    BY <1>1 DEF Waiting
  <2>2. \A m : Cardinality(Waiting(m)) = 0
    BY <2>1, FS_EmptySet
  <2>3. \A m \in Ids : asked[m] = 0 /\ forgotten[m] = 0 /\ m \notin seenIds
    OBVIOUS
  <2> QED
    BY <2>2, <2>3 DEF Budget
<1> QED
  BY <1>2, <1>4, <1>5, <1>6, <1>7 DEF IInv

LEMMA ReceiveInv ==
    ASSUME IInv, NEW p \in Payloads, Receive(p)
    PROVE  IInv'
<1> DEFINE r == [payload |-> p, index |-> 1, stage |-> "next", left |-> 0]
<1>0. TypeOK /\ SeenAgree /\ QueueExact /\ HeadAsks /\ Budget
  BY DEF IInv
<1>1. /\ tasks' = Append(tasks, r) /\ Len(tasks) < MaxTasks
      /\ pending' \in {pending, pending \ {p}}
      /\ UNCHANGED <<seenIds, seenOrder, queue, asked, answered, forgotten, failures, restarts>>
  BY DEF Receive
<1>2. r \in Tasks
  BY BoundsAssumption DEF Tasks, Live
<1>3. /\ tasks' \in Seq(Tasks) /\ Len(tasks) \in Nat /\ Len(tasks') = Len(tasks) + 1
      /\ \A u \in 1..Len(tasks) : tasks'[u] = tasks[u]
      /\ tasks'[Len(tasks) + 1] = r
  BY <1>0, <1>1, <1>2, AppendElements DEF TypeOK
<1>4. /\ \A u \in 1..Len(tasks') : u \in 1..Len(tasks) \/ tasks'[u].stage = "next"
      /\ 1..Len(tasks) \subseteq 1..Len(tasks')
  <2>1. \A u \in 1..Len(tasks') : u \in 1..Len(tasks) \/ u = Len(tasks) + 1
    BY <1>3
  <2> QED
    BY <2>1, <1>3
<1>5. \A u \in 1..Len(tasks) : Message(u)' = Message(u) /\ SenderOf(u)' = SenderOf(u)
  BY <1>3 DEF Message, SenderOf
<1>6. TypeOK'
  <2>1. pending' \subseteq Payloads
    BY <1>0, <1>1 DEF TypeOK
  <2>2. Len(tasks') <= MaxTasks
    BY <1>1, <1>3, BoundsAssumption
  <2>3. \A u \in 1..Len(tasks') : tasks'[u].stage \in {"lock", "ask", "send", "failed"}
                                  => tasks'[u].index <= Len(tasks'[u].payload)
    BY <1>0, <1>3, <1>4 DEF TypeOK
  <2> QED
    BY <1>0, <1>1, <1>3, <2>1, <2>2, <2>3 DEF TypeOK
<1>7. SeenAgree'
  BY <1>0, <1>1 DEF SeenAgree
<1>8. QueueExact'
  <2>1. \A s : LockUsers(s)' = LockUsers(s)
    BY <1>3, <1>4, <1>5 DEF LockUsers
  <2> QED
    BY <2>1, <1>0, <1>1 DEF QueueExact, LockUsers
<1>9. HeadAsks'
  BY <1>0, <1>1, <1>3, <1>4, <1>5 DEF HeadAsks
<1>10. Budget'
  <2>1. \A m : Waiting(m)' = Waiting(m)
    BY <1>3, <1>4, <1>5 DEF Waiting
  <2> QED
    BY <2>1, <1>0, <1>1 DEF Budget
<1> QED
  BY <1>6, <1>7, <1>8, <1>9, <1>10 DEF IInv

LEMMA TakeInv ==
    ASSUME IInv, NEW t \in 1..Len(tasks), Take(t)
    PROVE  IInv'
<1>0. TypeOK /\ SeenAgree /\ QueueExact /\ HeadAsks /\ Budget
  BY DEF IInv
<1>1. PICK k \in 1..Len(tasks[t].payload) :
          /\ tasks[t].payload[k] \in Ids /\ tasks[t].payload[k] \notin seenIds
          /\ MarkSeen(tasks[t].payload[k])
          /\ queue' = [queue EXCEPT ![Sender[tasks[t].payload[k]]] = Append(@, t)]
          /\ Changed(t, {"lock"}) /\ tasks'[t].index = k
  BY <1>0, TakeTask
<1>m. PICK m \in Ids : m = tasks[t].payload[k]
  BY <1>1
<1>s. PICK s \in Senders : s = Sender[m]
  BY SenderAssumption
<1>2. /\ tasks[t].stage = "next"
      /\ UNCHANGED <<pending, asked, answered, failures, restarts>>
      /\ m \notin seenIds /\ MarkSeen(m)
      /\ queue' = [queue EXCEPT ![s] = Append(@, t)]
  BY <1>1, <1>m, <1>s DEF Take
<1>3. /\ 1..Len(tasks') = 1..Len(tasks)
      /\ \A u \in 1..Len(tasks) : u # t =>
             /\ tasks'[u] = tasks[u]
             /\ Message(u)' = Message(u) /\ SenderOf(u)' = SenderOf(u)
      /\ tasks'[t].stage = "lock"
      /\ Message(t)' = m /\ SenderOf(t)' = s
  <2>1. Message(t)' = m
    BY <1>0, <1>1, <1>m, ChangedOthers
  <2>2. tasks'[t].stage = "lock"
    BY <1>1 DEF Changed
  <2>3. SenderOf(t)' = s
    BY <2>1, <1>s DEF SenderOf
  <2> QED
    BY <2>1, <2>2, <2>3, <1>0, <1>1, ChangedOthers
<1>4. t \in 1..MaxTasks /\ queue \in [Senders -> Seq(1..MaxTasks)]
  BY <1>0, TaskFacts DEF TypeOK
<1>5. /\ seenIds' \subseteq Ids /\ seenOrder' \in Seq(Ids)
      /\ forgotten' \in [Ids -> Nat]
      /\ SeenAgree'
      /\ m \in seenIds' /\ forgotten'[m] = forgotten[m]
      /\ \A x \in Ids : x # m =>
             \/ forgotten'[x] = forgotten[x] /\ (x \in seenIds <=> x \in seenIds')
             \/ forgotten'[x] = forgotten[x] + 1 /\ x \in seenIds /\ x \notin seenIds'
  BY <1>0, <1>2, MarkSeenFacts
<1>6. t \notin ToSet(queue[s]) /\ NoRepetition(queue[s]) /\ queue[s] \in Seq(1..MaxTasks)
  BY <1>0, <1>2, <1>4 DEF QueueExact
<1>7. /\ queue'[s] = Append(queue[s], t)
      /\ queue'[s] \in Seq(1..MaxTasks)
      /\ NoRepetition(queue'[s])
      /\ ToSet(queue'[s]) = ToSet(queue[s]) \cup {t}
      /\ \A x \in Senders : x # s => queue'[x] = queue[x]
      /\ queue' \in [Senders -> Seq(1..MaxTasks)]
  <2>1. queue'[s] = Append(queue[s], t) /\ \A x \in Senders : x # s => queue'[x] = queue[x]
    BY <1>2, <1>4
  <2>2. /\ Append(queue[s], t) \in Seq(1..MaxTasks)
        /\ NoRepetition(Append(queue[s], t))
        /\ ToSet(Append(queue[s], t)) = ToSet(queue[s]) \cup {t}
    <3>1. \A T, q : q \in Seq(T) /\ t \in T /\ NoRepetition(q) /\ t \notin ToSet(q) =>
              /\ Append(q, t) \in Seq(T)
              /\ NoRepetition(Append(q, t))
              /\ ToSet(Append(q, t)) = ToSet(q) \cup {t}
      BY AppendNew
    <3> QED
      BY <3>1, <1>4, <1>6
  <2>3. queue' \in [Senders -> Seq(1..MaxTasks)]
    BY <1>2, <1>4, <2>2
  <2> QED
    BY <2>1, <2>2, <2>3
<1>8. TypeOK'
  <2>1. /\ tasks' \in Seq(Tasks) /\ Len(tasks') <= MaxTasks
        /\ \A u \in 1..Len(tasks') :
               tasks'[u].stage \in {"lock", "ask", "send", "failed"}
               => tasks'[u].index <= Len(tasks'[u].payload)
    <3>1. Len(tasks[t].payload) \in Nat
      BY <1>0, TaskFacts
    <3>2. tasks'[t].index <= Len(tasks[t].payload)
      BY <1>1, <3>1
    <3> QED
      BY <1>0, <1>1, <3>2, ChangedTyped
  <2> QED
    BY <2>1, <1>0, <1>2, <1>5, <1>7 DEF TypeOK
<1>9. QueueExact'
  <2>1. LockUsers(s)' = LockUsers(s) \cup {t}
    BY <1>2, <1>3 DEF LockUsers
  <2>2. \A x \in Senders : x # s => LockUsers(x)' = LockUsers(x)
    BY <1>2, <1>3 DEF LockUsers
  <2>3. \A x \in Senders : ToSet(queue[x]) = LockUsers(x) /\ NoRepetition(queue[x])
    BY <1>0 DEF QueueExact, LockUsers
  <2>4. \A x \in Senders : ToSet(queue'[x]) = LockUsers(x)' /\ NoRepetition(queue'[x])
    BY <2>1, <2>2, <2>3, <1>4, <1>7
  <2> QED
    BY <2>4 DEF QueueExact, LockUsers, NoRepetition, ToSet
<1>10. HeadAsks'
  <2>1. SUFFICES ASSUME NEW u \in 1..Len(tasks), tasks'[u].stage = "ask"
                 PROVE  queue'[SenderOf(u)'] # <<>> /\ Head(queue'[SenderOf(u)']) = u
    BY <1>3 DEF HeadAsks
  <2>2. u # t /\ tasks[u].stage = "ask" /\ SenderOf(u)' = SenderOf(u) /\ SenderOf(u) \in Senders
    BY <2>1, <1>0, <1>3, TaskFacts
  <2>3. queue[SenderOf(u)] # <<>> /\ Head(queue[SenderOf(u)]) = u
    BY <2>2, <1>0 DEF HeadAsks
  <2>4. CASE SenderOf(u) = s
    <3>1. queue[s] \in Seq(1..MaxTasks) /\ queue[s] # <<>> /\ t \in 1..MaxTasks
      BY <2>3, <2>4, <1>4, <1>6
    <3>2. Append(queue[s], t) # <<>> /\ Head(Append(queue[s], t)) = Head(queue[s])
      BY <3>1
    <3> QED
      BY <3>2, <2>2, <2>3, <2>4, <1>7
  <2>5. CASE SenderOf(u) # s
    BY <2>2, <2>3, <2>5, <1>7
  <2> QED
    BY <2>4, <2>5
<1>11. Budget'
  <2>1. SUFFICES ASSUME NEW x \in Ids
                 PROVE  asked'[x] + Cardinality(Waiting(x)')
                            <= forgotten'[x] + (IF x \in seenIds' THEN 1 ELSE 0)
    BY DEF Budget
  <2>2. /\ asked'[x] = asked[x] /\ asked[x] \in Nat /\ forgotten[x] \in Nat
        /\ Cardinality(Waiting(x)) \in Nat /\ IsFiniteSet(Waiting(x))
        /\ asked[x] + Cardinality(Waiting(x)) <= forgotten[x] + (IF x \in seenIds THEN 1 ELSE 0)
    BY <1>0, <1>2, WaitingFinite DEF Budget, TypeOK
  <2>3. CASE x = m
    <3>1. Waiting(x)' = Waiting(x) \cup {t} /\ t \notin Waiting(x)
      BY <2>3, <1>2, <1>3 DEF Waiting
    <3>2. Cardinality(Waiting(x)') = Cardinality(Waiting(x)) + 1
      BY <3>1, <2>2, FS_AddElement
    <3> QED
      BY <2>2, <2>3, <3>2, <1>2, <1>5
  <2>4. CASE x # m
    <3>1. Waiting(x)' = Waiting(x)
      BY <2>4, <1>2, <1>3 DEF Waiting
    <3> QED
      BY <2>2, <2>4, <3>1, <1>5
  <2> QED
    BY <2>3, <2>4
<1> QED
  BY <1>5, <1>8, <1>9, <1>10, <1>11 DEF IInv

\* The steps that do not touch the lock: the end of a payload, sending, a failing send.
LEMMA QuietInv ==
    ASSUME IInv, NEW t \in 1..Len(tasks), Finish(t) \/ Send(t) \/ SendFails(t)
    PROVE  IInv'
<1>0. TypeOK /\ SeenAgree /\ QueueExact /\ HeadAsks /\ Budget
  BY DEF IInv
<1>1. /\ tasks[t].stage \in {"next", "send"}
      /\ UNCHANGED <<pending, seenIds, seenOrder, queue, asked, forgotten, restarts>>
  BY DEF Finish, Send, SendFails
<1>2. PICK G : /\ Changed(t, G) /\ G \cap {"lock", "ask"} = {}
               /\ tasks'[t].stage \in {"lock", "ask", "send", "failed"}
                      => tasks'[t].index = tasks[t].index /\ tasks[t].stage = "send"
  <2>1. CASE Finish(t)
    <3>1. Changed(t, {"done"}) /\ {"done"} \cap {"lock", "ask"} = {}
      BY <1>0, <2>1, StayTask
    <3>2. tasks'[t].stage = "done"
      BY <3>1 DEF Changed
    <3> QED
      BY <3>1, <3>2
  <2>2. CASE Send(t)
    <3>1. /\ Changed(t, {"send", "next"}) /\ {"send", "next"} \cap {"lock", "ask"} = {}
          /\ (tasks'[t].stage = "send" => tasks'[t].index = tasks[t].index)
      BY <1>0, <2>2, SendTask
    <3>2. tasks'[t].stage \in {"send", "next"} /\ tasks[t].stage = "send"
      BY <3>1, <2>2 DEF Changed, Send
    <3> QED
      BY <3>1, <3>2
  <2>3. CASE SendFails(t)
    <3>1. /\ Changed(t, {"failed"}) /\ {"failed"} \cap {"lock", "ask"} = {}
          /\ tasks'[t].index = tasks[t].index
      BY <1>0, <2>3, StayTask
    <3>2. tasks[t].stage = "send"
      BY <2>3 DEF SendFails
    <3> QED
      BY <3>1, <3>2
  <2> QED
    BY <2>1, <2>2, <2>3
<1>3. TypeOK'
  <2>1. tasks'[t].stage \in {"lock", "ask", "send", "failed"}
            => tasks'[t].index <= Len(tasks[t].payload)
    BY <1>0, <1>2 DEF TypeOK
  <2>2. /\ tasks' \in Seq(Tasks) /\ Len(tasks') <= MaxTasks
        /\ \A u \in 1..Len(tasks') :
               tasks'[u].stage \in {"lock", "ask", "send", "failed"}
               => tasks'[u].index <= Len(tasks'[u].payload)
    BY <1>0, <1>2, <2>1, ChangedTyped
  <2>3. answered' \in [Ids -> Nat]
    <3>1. CASE answered' = answered
      BY <1>0, <3>1 DEF TypeOK
    <3>2. CASE answered' = [answered EXCEPT ![Message(t)] = answered[Message(t)] + 1] /\ Send(t)
      <4>1. Message(t) \in Ids
        BY <1>0, <3>2, TaskFacts DEF Send
      <4>2. answered \in [Ids -> Nat] /\ answered[Message(t)] + 1 \in Nat
        BY <1>0, <4>1 DEF TypeOK
      <4> QED
        BY <3>2, <4>1, <4>2
    <3> QED
      BY <3>1, <3>2 DEF Finish, Send, SendFails
  <2>4. failures' \in 0..MaxFailures
    BY <1>0, BoundsAssumption DEF TypeOK, Finish, Send, SendFails
  <2> QED
    BY <1>0, <1>1, <2>2, <2>3, <2>4 DEF TypeOK
<1>4. SeenAgree' /\ QueueExact' /\ HeadAsks' /\ Budget'
  BY <1>1, <1>2, QuietStep
<1> QED
  BY <1>3, <1>4 DEF IInv

LEMMA AskInv ==
    ASSUME IInv, NEW t \in 1..Len(tasks), Ask(t)
    PROVE  IInv'
<1>0. TypeOK /\ SeenAgree /\ QueueExact /\ HeadAsks /\ Budget
  BY DEF IInv
<1>1. /\ tasks[t].stage = "lock" /\ Head(queue[SenderOf(t)]) = t
      /\ asked' = [asked EXCEPT ![Message(t)] = asked[Message(t)] + 1]
      /\ UNCHANGED <<pending, seenIds, seenOrder, queue, answered, forgotten, failures, restarts>>
  BY DEF Ask
<1>2. Changed(t, {"ask"}) /\ tasks'[t].index = tasks[t].index /\ tasks'[t].stage = "ask"
  <2>1. Changed(t, {"ask"}) /\ tasks'[t].index = tasks[t].index
    BY <1>0, StayTask
  <2> QED
    BY <2>1 DEF Changed
<1>m. PICK m \in Ids : m = Message(t)
  BY <1>0, <1>1, TaskFacts
<1>s. PICK s \in Senders : s = SenderOf(t)
  BY <1>0, <1>1, TaskFacts
<1>3. /\ 1..Len(tasks') = 1..Len(tasks)
      /\ \A u \in 1..Len(tasks) : u # t =>
             /\ tasks'[u] = tasks[u]
             /\ Message(u)' = Message(u) /\ SenderOf(u)' = SenderOf(u)
      /\ Message(t)' = m /\ SenderOf(t)' = s
  BY <1>0, <1>2, <1>m, <1>s, ChangedOthers
<1>4. TypeOK'
  <2>1. tasks'[t].index <= Len(tasks[t].payload)
    BY <1>0, <1>1, <1>2 DEF TypeOK
  <2>2. /\ tasks' \in Seq(Tasks) /\ Len(tasks') <= MaxTasks
        /\ \A u \in 1..Len(tasks') :
               tasks'[u].stage \in {"lock", "ask", "send", "failed"}
               => tasks'[u].index <= Len(tasks'[u].payload)
    BY <1>0, <1>2, <2>1, ChangedTyped
  <2>3. asked' \in [Ids -> Nat]
    BY <1>0, <1>1, <1>m DEF TypeOK
  <2> QED
    BY <1>0, <1>1, <2>2, <2>3 DEF TypeOK
<1>5. SeenAgree'
  BY <1>0, <1>1 DEF SeenAgree
<1>6. QueueExact'
  <2>1. \A x : LockUsers(x)' = LockUsers(x)
    BY <1>1, <1>2, <1>3, <1>s DEF LockUsers
  <2> QED
    BY <2>1, <1>0, <1>1 DEF QueueExact, LockUsers
<1>7. HeadAsks'
  <2>1. queue[s] # <<>>
    <3>1. t \in ToSet(queue[s])
      BY <1>0, <1>1, <1>s DEF QueueExact
    <3>2. queue[s] \in Seq(1..MaxTasks)
      BY <1>0, <1>s DEF TypeOK
    <3>3. ToSet(queue[s]) = {queue[s][i] : i \in 1..Len(queue[s])}
      BY <3>2, Members
    <3> QED
      BY <3>1, <3>3
  <2> QED
    BY <2>1, <1>0, <1>1, <1>3, <1>s DEF HeadAsks
<1>8. Budget'
  <2>1. SUFFICES ASSUME NEW x \in Ids
                 PROVE  asked'[x] + Cardinality(Waiting(x)') <= forgotten[x] + (IF x \in seenIds THEN 1 ELSE 0)
    BY <1>1 DEF Budget
  <2>2. /\ asked[x] \in Nat /\ forgotten[x] \in Nat
        /\ Cardinality(Waiting(x)) \in Nat /\ IsFiniteSet(Waiting(x))
        /\ asked[x] + Cardinality(Waiting(x)) <= forgotten[x] + (IF x \in seenIds THEN 1 ELSE 0)
    BY <1>0, WaitingFinite DEF Budget, TypeOK
  <2>3. CASE x = m
    <3>1. Waiting(x)' = Waiting(x) \ {t} /\ t \in Waiting(x)
      BY <2>3, <1>1, <1>2, <1>3, <1>m DEF Waiting
    <3>2. Cardinality(Waiting(x)') = Cardinality(Waiting(x)) - 1
      BY <3>1, <2>2, FS_RemoveElement
    <3>3. asked'[x] = asked[x] + 1
      BY <1>0, <1>1, <1>m, <2>3 DEF TypeOK
    <3> QED
      BY <2>2, <3>2, <3>3
  <2>4. CASE x # m
    <3>1. Waiting(x)' = Waiting(x)
      BY <2>4, <1>1, <1>2, <1>3, <1>m DEF Waiting
    <3>2. asked'[x] = asked[x]
      BY <1>0, <1>1, <1>m, <2>4 DEF TypeOK
    <3> QED
      BY <2>2, <3>1, <3>2
  <2> QED
    BY <2>3, <2>4
<1> QED
  BY <1>4, <1>5, <1>6, <1>7, <1>8 DEF IInv

LEMMA AnswerInv ==
    ASSUME IInv, NEW t \in 1..Len(tasks), Answer(t)
    PROVE  IInv'
<1>0. TypeOK /\ SeenAgree /\ QueueExact /\ HeadAsks /\ Budget
  BY DEF IInv
<1>s. PICK s \in Senders : s = SenderOf(t)
  BY <1>0, TaskFacts DEF Answer
<1>1. /\ tasks[t].stage = "ask"
      /\ queue' = [queue EXCEPT ![s] = Tail(queue[s])]
      /\ UNCHANGED <<pending, seenIds, seenOrder, asked, answered, forgotten, failures, restarts>>
  BY <1>s DEF Answer
<1>2. Changed(t, {"send"}) /\ tasks'[t].index = tasks[t].index /\ tasks'[t].stage = "send"
  <2>1. Changed(t, {"send"}) /\ tasks'[t].index = tasks[t].index
    BY <1>0, StayTask
  <2> QED
    BY <2>1 DEF Changed
<1>3. /\ 1..Len(tasks') = 1..Len(tasks)
      /\ \A u \in 1..Len(tasks) : u # t =>
             /\ tasks'[u] = tasks[u]
             /\ Message(u)' = Message(u) /\ SenderOf(u)' = SenderOf(u)
  BY <1>0, <1>2, ChangedOthers
<1>4. queue[s] # <<>> /\ Head(queue[s]) = t
  BY <1>0, <1>1, <1>s DEF HeadAsks
<1>5. /\ queue \in [Senders -> Seq(1..MaxTasks)]
      /\ queue[s] \in Seq(1..MaxTasks) /\ NoRepetition(queue[s])
  BY <1>0 DEF TypeOK, QueueExact
<1>6. /\ queue'[s] = Tail(queue[s])
      /\ \A x \in Senders : x # s => queue'[x] = queue[x]
      /\ queue' \in [Senders -> Seq(1..MaxTasks)]
      /\ NoRepetition(queue'[s])
      /\ ToSet(queue'[s]) = ToSet(queue[s]) \ {t}
  <2>1. queue'[s] = Tail(queue[s]) /\ \A x \in Senders : x # s => queue'[x] = queue[x]
    BY <1>1, <1>5
  <2>2. \A T, q : q \in Seq(T) /\ NoRepetition(q) /\ q # <<>> =>
            /\ Tail(q) \in Seq(T)
            /\ NoRepetition(Tail(q))
            /\ ToSet(Tail(q)) = ToSet(q) \ {Head(q)}
    BY TailRest
  <2>3. /\ Tail(queue[s]) \in Seq(1..MaxTasks)
        /\ NoRepetition(Tail(queue[s]))
        /\ ToSet(Tail(queue[s])) = ToSet(queue[s]) \ {t}
    BY <2>2, <1>4, <1>5
  <2>4. queue' \in [Senders -> Seq(1..MaxTasks)]
    BY <1>1, <1>5, <2>3
  <2> QED
    BY <2>1, <2>3, <2>4
<1>7. TypeOK'
  <2>1. tasks'[t].index <= Len(tasks[t].payload)
    BY <1>0, <1>1, <1>2 DEF TypeOK
  <2>2. /\ tasks' \in Seq(Tasks) /\ Len(tasks') <= MaxTasks
        /\ \A u \in 1..Len(tasks') :
               tasks'[u].stage \in {"lock", "ask", "send", "failed"}
               => tasks'[u].index <= Len(tasks'[u].payload)
    BY <1>0, <1>2, <2>1, ChangedTyped
  <2> QED
    BY <1>0, <1>1, <1>6, <2>2 DEF TypeOK
<1>8. SeenAgree'
  BY <1>0, <1>1 DEF SeenAgree
<1>9. QueueExact'
  <2>1. LockUsers(s)' = LockUsers(s) \ {t}
    BY <1>1, <1>2, <1>3, <1>s DEF LockUsers
  <2>2. \A x \in Senders : x # s => LockUsers(x)' = LockUsers(x)
    BY <1>1, <1>2, <1>3, <1>s DEF LockUsers
  <2>3. \A x \in Senders : ToSet(queue[x]) = LockUsers(x) /\ NoRepetition(queue[x])
    BY <1>0 DEF QueueExact, LockUsers
  <2>4. \A x \in Senders : ToSet(queue'[x]) = LockUsers(x)' /\ NoRepetition(queue'[x])
    BY <2>1, <2>2, <2>3, <1>6
  <2> QED
    BY <2>4 DEF QueueExact, LockUsers, NoRepetition, ToSet
<1>10. HeadAsks'
  <2>1. SUFFICES ASSUME NEW u \in 1..Len(tasks), tasks'[u].stage = "ask"
                 PROVE  queue'[SenderOf(u)'] # <<>> /\ Head(queue'[SenderOf(u)']) = u
    BY <1>3 DEF HeadAsks
  <2>2. u # t /\ tasks[u].stage = "ask" /\ SenderOf(u)' = SenderOf(u) /\ SenderOf(u) \in Senders
    BY <2>1, <1>0, <1>2, <1>3, TaskFacts
  <2>3. queue[SenderOf(u)] # <<>> /\ Head(queue[SenderOf(u)]) = u
    BY <2>2, <1>0 DEF HeadAsks
  <2>4. SenderOf(u) # s
    BY <2>2, <2>3, <1>4
  <2> QED
    BY <2>2, <2>3, <2>4, <1>6
<1>11. Budget'
  <2>1. \A m : Waiting(m)' = Waiting(m)
    BY <1>1, <1>2, <1>3 DEF Waiting
  <2> QED
    BY <2>1, <1>0, <1>1 DEF Budget
<1> QED
  BY <1>7, <1>8, <1>9, <1>10, <1>11 DEF IInv

LEMMA RestartInv ==
    ASSUME IInv, Restart
    PROVE  IInv'
<1> DEFINE after(t) == IF tasks[t].stage \in Live THEN [tasks[t] EXCEPT !.stage = "cancelled"] ELSE tasks[t]
<1>0. TypeOK /\ SeenAgree /\ QueueExact /\ HeadAsks /\ Budget
  BY DEF IInv
<1>1. /\ tasks' = [t \in 1..Len(tasks) |-> after(t)]
      /\ queue' = [s \in Senders |-> <<>>]
      /\ seenIds' = {} /\ seenOrder' = <<>>
      /\ forgotten' = [m \in Ids |-> IF m \in seenIds THEN forgotten[m] + 1 ELSE forgotten[m]]
      /\ restarts < MaxRestarts /\ restarts' = restarts + 1
      /\ UNCHANGED <<pending, asked, answered, failures>>
  BY DEF Restart
<1>2. \A t \in 1..Len(tasks) :
          /\ after(t) \in Tasks /\ after(t).stage \in Over
          /\ after(t).index = tasks[t].index /\ after(t).payload = tasks[t].payload
          /\ after(t).stage = "failed" => tasks[t].stage = "failed"
  BY <1>0, TaskFacts DEF Tasks, Live, Over
<1> HIDE DEF after
<1>3. /\ tasks' \in Seq(Tasks) /\ Len(tasks') = Len(tasks) /\ 1..Len(tasks') = 1..Len(tasks)
      /\ \A t \in 1..Len(tasks) : tasks'[t] = after(t)
  <2>1. Len(tasks) \in Nat
    BY <1>0 DEF TypeOK
  <2> QED
    BY <1>1, <1>2, <2>1
<1>4. \A t \in 1..Len(tasks') : tasks'[t].stage \notin {"lock", "ask", "send"}
  BY <1>2, <1>3 DEF Over
<1>5. ToSet(<<>>) = {}
  BY DEF ToSet
<1>6. TypeOK'
  <2>1. \A t \in 1..Len(tasks') : tasks'[t].stage \in {"lock", "ask", "send", "failed"}
            => tasks'[t].index <= Len(tasks'[t].payload)
    BY <1>0, <1>2, <1>3, <1>4 DEF TypeOK
  <2>2. forgotten' \in [Ids -> Nat]
    BY <1>0, <1>1 DEF TypeOK
  <2>3. queue' \in [Senders -> Seq(1..MaxTasks)]
    BY <1>1
  <2>4. restarts' \in 0..MaxRestarts
    BY <1>0, <1>1, BoundsAssumption DEF TypeOK
  <2>5. seenIds' \subseteq Ids /\ seenOrder' \in Seq(Ids)
    BY <1>1
  <2> QED
    BY <1>0, <1>1, <1>3, <2>1, <2>2, <2>3, <2>4, <2>5 DEF TypeOK
<1>7. SeenAgree'
  BY <1>1, <1>5, BoundsAssumption DEF SeenAgree, NoRepetition
<1>8. QueueExact'
  <2>1. \A s \in Senders : queue'[s] = <<>>
    BY <1>1
  <2>2. NoRepetition(<<>>)
    BY DEF NoRepetition
  <2>3. \A s \in Senders :
            {t \in 1..Len(tasks') : tasks'[t].stage \in {"lock", "ask"} /\ SenderOf(t)' = s} = {}
    BY <1>4
  <2>4. \A s \in Senders : ToSet(queue'[s]) = {} /\ NoRepetition(queue'[s])
    BY <2>1, <2>2, <1>5
  <2> QED
    BY <2>3, <2>4 DEF QueueExact, NoRepetition, ToSet
<1>9. HeadAsks'
  BY <1>4 DEF HeadAsks
<1>10. Budget'
  <2>1. SUFFICES ASSUME NEW m \in Ids
                 PROVE  asked'[m] + Cardinality(Waiting(m)')
                            <= forgotten'[m] + (IF m \in seenIds' THEN 1 ELSE 0)
    BY DEF Budget
  <2>2. /\ asked[m] \in Nat /\ forgotten[m] \in Nat /\ Cardinality(Waiting(m)) \in Nat
        /\ asked[m] + Cardinality(Waiting(m)) <= forgotten[m] + (IF m \in seenIds THEN 1 ELSE 0)
    BY <1>0, WaitingFinite DEF Budget, TypeOK
  <2>3. Waiting(m)' = {}
    BY <1>4 DEF Waiting
  <2>4. Cardinality(Waiting(m)') = 0
    BY <2>3, FS_EmptySet
  <2> QED
    BY <1>1, <2>2, <2>4, SMT
<1> QED
  BY <1>6, <1>7, <1>8, <1>9, <1>10 DEF IInv

-----------------------------------------------------------------------------
(* The theorems                                                            *)

\* The inductive invariant holds in every state: it holds at the start, and each action
\* of the server, of Meta and of the restart keeps it.
THEOREM Invariance == Spec => []IInv
<1>1. Init => IInv
  BY InitInv
<1>2. IInv /\ [Next]_vars => IInv'
  <2> SUFFICES ASSUME IInv, [Next]_vars PROVE IInv'
    OBVIOUS
  <2>1. CASE \E p \in Payloads : Receive(p)
    BY <2>1, ReceiveInv
  <2>2. CASE \E t \in 1..Len(tasks) : Step(t) \/ SendFails(t)
    <3>1. PICK t \in 1..Len(tasks) : Step(t) \/ SendFails(t)
      BY <2>2
    <3>2. CASE Take(t)
      BY <3>2, TakeInv
    <3>3. CASE Finish(t) \/ Send(t) \/ SendFails(t)
      BY <3>3, QuietInv
    <3>4. CASE Ask(t)
      BY <3>4, AskInv
    <3>5. CASE Answer(t)
      BY <3>5, AnswerInv
    <3> QED
      BY <3>1, <3>2, <3>3, <3>4, <3>5 DEF Step
  <2>3. CASE Restart
    BY <2>3, RestartInv
  <2>4. CASE UNCHANGED vars
    BY <2>4 DEF vars, IInv, TypeOK, SeenAgree, QueueExact, HeadAsks, Budget, Waiting, SenderOf, Message
  <2> QED
    BY <2>1, <2>2, <2>3, <2>4 DEF Next
<1> QED
  BY <1>1, <1>2, PTL DEF Spec

\* Every variable keeps its type; a task at a message is within its payload.
THEOREM TypeCorrect == Spec => []TypeOK
<1>1. IInv => TypeOK
  BY DEF IInv
<1> QED
  BY <1>1, Invariance, PTL

\* The set and the list of the seen ids (_seen_ids, _seen_order) never drift apart.
THEOREM SeenAgreement == Spec => []SeenAgree
<1>1. IInv => SeenAgree
  BY DEF IInv
<1> QED
  BY <1>1, Invariance, PTL

\* A sender's lock is held or awaited by exactly the tasks at one of its messages.
THEOREM LocksExact == Spec => []QueueExact
<1>1. IInv => QueueExact
  BY DEF IInv
<1> QED
  BY <1>1, Invariance, PTL

\* The records of seen ids agree, and no lock is left behind or taken twice.
THEOREM TablesStayExact == Spec => []TablesExact
<1>1. IInv => TablesExact
  BY DEF IInv, TablesExact
<1> QED
  BY <1>1, Invariance, PTL

\* However often a payload is posted and however tasks interleave, the agent is asked
\* about a message once, and once more for each time its id was forgotten.
THEOREM AskedOncePerSight == Spec => []AskedOnce
<1>1. IInv => AskedOnce
  <2> SUFFICES ASSUME IInv, NEW m \in Ids PROVE asked[m] <= 1 + forgotten[m]
    BY DEF AskedOnce
  <2>1. /\ asked[m] \in Nat /\ forgotten[m] \in Nat /\ Cardinality(Waiting(m)) \in Nat
        /\ asked[m] + Cardinality(Waiting(m)) <= forgotten[m] + (IF m \in seenIds THEN 1 ELSE 0)
    BY WaitingFinite DEF IInv, Budget, TypeOK
  <2> QED
    BY <2>1
<1> QED
  BY <1>1, Invariance, PTL

-----------------------------------------------------------------------------
(* A window with room                                                      *)

\* No more messages than the window of seen ids holds.
WindowHolds == IsFiniteSet(Ids) /\ Cardinality(Ids) <= SeenLimit

\* An id is forgotten by a restart only.
ForgottenByRestart == \A m \in Ids : forgotten[m] <= restarts

AskedOncePerLife == \A m \in Ids : asked[m] <= 1 + restarts

\* There is room for an id that is not in the list.
LEMMA RoomForOne ==
    ASSUME WindowHolds, TypeOK, SeenAgree, NEW m \in Ids, m \notin seenIds
    PROVE  Len(seenOrder) < SeenLimit
<1>1. /\ seenOrder \in Seq(Ids) /\ Len(seenOrder) \in Nat
      /\ \A i, j \in 1..Len(seenOrder) : seenOrder[i] = seenOrder[j] => i = j
      /\ \A i \in 1..Len(seenOrder) : seenOrder[i] # m
  BY Members DEF TypeOK, SeenAgree, NoRepetition
<1> DEFINE others == Ids \ {m}
           n == Len(seenOrder)
<1>2. /\ IsFiniteSet(others) /\ Cardinality(others) = Cardinality(Ids) - 1
      /\ Cardinality(Ids) \in Nat /\ Cardinality(others) \in Nat
  BY FS_RemoveElement, FS_CardinalityType DEF WindowHolds
<1>3. n \in Nat /\ seenOrder \in [1..n -> others]
  BY <1>1
<1> HIDE DEF others, n
<1>4. IsFiniteSet(1..n) /\ Cardinality(1..n) = n
  <2>1. IsFiniteSet(1..n) /\ Cardinality(1..n) = IF 1 > n THEN 0 ELSE n - 1 + 1
    BY <1>3, FS_Interval
  <2> QED
    BY <2>1, <1>3
<1>5. ~(Cardinality(others) < n)
  <2>1. \A i, j \in 1..n : seenOrder[i] = seenOrder[j] => i = j
    BY <1>1 DEF n
  <2> QED
    BY <2>1, <1>2, <1>3, <1>4, FS_PigeonHole
<1>6. n < SeenLimit
  BY <1>2, <1>3, <1>5, BoundsAssumption DEF WindowHolds
<1> QED
  BY <1>6 DEF n

\* A new id then drives none out.
LEMMA MarkForgetsNone ==
    ASSUME WindowHolds, IInv, NEW t \in 1..Len(tasks), Take(t)
    PROVE  forgotten' = forgotten
<1>1. PICK m \in Ids : m \notin seenIds /\ MarkSeen(m)
  BY TakeTask DEF IInv
<1>2. Len(seenOrder) \in Nat /\ Len(seenOrder) < SeenLimit
  BY <1>1, RoomForOne DEF IInv, TypeOK
<1>3. Len(Append(seenOrder, m)) = Len(seenOrder) + 1
  BY <1>1, AppendElements DEF IInv, TypeOK
<1>4. ~(Len(Append(seenOrder, m)) > SeenLimit)
  BY <1>2, <1>3, BoundsAssumption
<1> QED
  BY <1>1, <1>4 DEF MarkSeen

\* With a window for all messages (_seen_limit), the agent is asked about a message at most once in each
\* life of the process, however often and in whatever order its payloads are posted.
THEOREM AskedOnceWithRoom ==
    ASSUME WindowHolds PROVE Spec => []AskedOncePerLife
<1>1. Init => ForgottenByRestart
  BY DEF Init, ForgottenByRestart
<1>2. IInv /\ ForgottenByRestart /\ [Next]_vars => ForgottenByRestart'
  <2> SUFFICES ASSUME IInv, ForgottenByRestart, [Next]_vars PROVE ForgottenByRestart'
    OBVIOUS
  <2>1. forgotten \in [Ids -> Nat] /\ restarts \in Nat
    BY BoundsAssumption DEF IInv, TypeOK
  <2>2. ASSUME NEW t \in 1..Len(tasks), Step(t) \/ SendFails(t)
        PROVE  UNCHANGED <<forgotten, restarts>>
    BY <2>2, MarkForgetsNone DEF Step, Take, Finish, Ask, Answer, Send, SendFails
  <2>3. CASE \E p \in Payloads : Receive(p)
    BY <2>3 DEF Receive, ForgottenByRestart
  <2>4. CASE \E t \in 1..Len(tasks) : Step(t) \/ SendFails(t)
    BY <2>2, <2>4 DEF ForgottenByRestart
  <2>5. CASE Restart
    <3>1. /\ restarts' = restarts + 1
          /\ forgotten' = [m \in Ids |-> IF m \in seenIds THEN forgotten[m] + 1 ELSE forgotten[m]]
      BY <2>5 DEF Restart
    <3> QED
      BY <2>1, <3>1 DEF ForgottenByRestart
  <2>6. CASE UNCHANGED vars
    BY <2>6 DEF vars, ForgottenByRestart
  <2> QED
    BY <2>3, <2>4, <2>5, <2>6 DEF Next
<1>3. IInv /\ AskedOnce /\ ForgottenByRestart => AskedOncePerLife
  <2> SUFFICES ASSUME IInv, AskedOnce, ForgottenByRestart, NEW m \in Ids PROVE asked[m] <= 1 + restarts
    BY DEF AskedOncePerLife
  <2>1. asked[m] \in Nat /\ forgotten[m] \in Nat /\ restarts \in Nat
    BY BoundsAssumption DEF IInv, TypeOK
  <2>2. asked[m] <= 1 + forgotten[m] /\ forgotten[m] <= restarts
    BY DEF AskedOnce, ForgottenByRestart
  <2> QED
    BY <2>1, <2>2
<1> QED
  BY <1>1, <1>2, <1>3, Invariance, AskedOncePerSight, PTL DEF Spec

-----------------------------------------------------------------------------
(* Nobody is stuck                                                         *)

\* The task can take its next step.
CanGoOn(t) ==
    \/ tasks[t].stage \in {"next", "ask", "send"}
    \/ tasks[t].stage = "lock" /\ Head(queue[SenderOf(t)]) = t

\* A task under way can go on, or waits in its sender's line, whose head is a task of the same sender
\* that can.
NobodyStuck ==
    \A t \in 1..Len(tasks) : tasks[t].stage \in Live =>
        \/ CanGoOn(t)
        \/ \E u \in 1..Len(tasks) :
              SenderOf(u) = SenderOf(t) /\ Head(queue[SenderOf(t)]) = u /\ CanGoOn(u)

\* No lock is held by a task that failed, ended or was cancelled, and no tasks wait for one another.
THEOREM NobodyIsStuck == Spec => []NobodyStuck
<1>1. IInv => NobodyStuck
  <2> SUFFICES ASSUME IInv, NEW t \in 1..Len(tasks), tasks[t].stage \in Live, ~CanGoOn(t)
               PROVE  \E u \in 1..Len(tasks) :
                         SenderOf(u) = SenderOf(t) /\ Head(queue[SenderOf(t)]) = u /\ CanGoOn(u)
    BY DEF NobodyStuck
  <2>1. tasks[t].stage = "lock"
    BY DEF CanGoOn, Live
  <2> DEFINE s == SenderOf(t)
             q == queue[s]
  <2>2. s \in Senders /\ q \in Seq(1..MaxTasks)
    BY <2>1, TaskFacts DEF IInv, TypeOK
  <2>3. /\ ToSet(q) = {u \in 1..Len(tasks) : tasks[u].stage \in {"lock", "ask"} /\ SenderOf(u) = s}
        /\ NoRepetition(q)
    BY <2>2 DEF IInv, QueueExact
  <2>4. t \in ToSet(q)
    BY <2>1, <2>3
  <2> HIDE DEF q
  <2>5. q # <<>>
    BY <2>4 DEF ToSet
  <2>6. Head(q) \in ToSet(q)
    BY <2>2, <2>3, <2>5, TailRest
  <2>7. PICK u \in 1..Len(tasks) :
            u = Head(q) /\ tasks[u].stage \in {"lock", "ask"} /\ SenderOf(u) = s
    BY <2>3, <2>6
  <2>8. CanGoOn(u)
    BY <2>7 DEF CanGoOn, q
  <2> QED
    BY <2>7, <2>8 DEF q
<1> QED
  BY <1>1, Invariance, PTL

\* How far a task has come with the message it is at.
Place(task) ==
    CASE task.stage = "next" -> 0
      [] task.stage = "lock" -> 1
      [] task.stage = "ask" -> 2
      [] task.stage = "send" -> 3 + (MaxParts - task.left)
      [] OTHER -> 4 + MaxParts

Further(task, later) ==
    \/ task.index < later.index
    \/ task.index = later.index /\ Place(task) < Place(later)

\* No step takes a task back to what it did, a step of its own takes it further, and one that is over stays
\* so: with NobodyStuck, what TasksEnd needs besides fairness.
TasksGoForward ==
    [][\A t \in 1..Len(tasks) :
          /\ tasks'[t] = tasks[t] \/ Further(tasks[t], tasks'[t])
          /\ Step(t) \/ SendFails(t) => tasks'[t] # tasks[t]
          /\ tasks[t].stage \in Over => tasks'[t] = tasks[t]]_vars

\* Nothing is further than itself.
LEMMA NotFurther == ASSUME NEW a \in Tasks PROVE ~Further(a, a)
<1>1. a.index \in Nat /\ Place(a) \in Int
  BY BoundsAssumption DEF Tasks, Place
<1> QED
  BY <1>1 DEF Further

\* The step of one task.
LEMMA OneGoesForward ==
    ASSUME TypeOK, NEW t \in 1..Len(tasks), Step(t) \/ SendFails(t)
    PROVE  /\ Further(tasks[t], tasks'[t]) /\ tasks[t].stage \notin Over
           /\ \A u \in 1..Len(tasks) : u # t => tasks'[u] = tasks[u]
<1> DEFINE a == tasks[t]
           New(i, g, n) == [payload |-> a.payload, index |-> i, stage |-> g, left |-> n]
<1>1. /\ a \in Tasks /\ a.index \in Nat \ {0} /\ a.left \in 0..MaxParts /\ a.payload \in Payloads
      /\ MaxParts \in Nat \ {0}
  BY TaskFacts, BoundsAssumption DEF Tasks
<1>2. ASSUME NEW i \in Nat \ {0}, NEW g \in Live \cup Over, NEW n \in 0..MaxParts, tasks' = Moved(t, i, g, n)
      PROVE  /\ tasks'[t] = New(i, g, n)
             /\ \A u \in 1..Len(tasks) : u # t => tasks'[u] = tasks[u]
  <2>1. New(i, g, n) \in Tasks
    BY <1>1 DEF Tasks
  <2>2. tasks' = [tasks EXCEPT ![t] = New(i, g, n)]
    BY <1>2 DEF Moved
  <2> HIDE DEF New, a
  <2> QED
    BY <2>1, <2>2, TaskUpdate
<1>3. \A i, g, n : New(i, g, n).index = i /\ New(i, g, n).stage = g /\ New(i, g, n).left = n
  OBVIOUS
<1>4. 0 \in 0..MaxParts /\ 1..MaxParts \subseteq 0..MaxParts
  BY <1>1
<1> HIDE DEF New
<1>5. CASE Take(t)
  <2>1. PICK k \in Fresh(t) : tasks' = Moved(t, k, "lock", 0) /\ a.stage = "next"
    BY <1>5 DEF Take
  <2>2. k \in Nat \ {0} /\ a.index <= k
    BY <1>1, <2>1, TaskFacts DEF Fresh
  <2>3. tasks'[t] = New(k, "lock", 0)
    BY <1>2, <1>4, <2>1, <2>2 DEF Live
  <2> QED
    BY <1>1, <1>2, <1>3, <1>4, <2>1, <2>2, <2>3 DEF Further, Place, Live, Over
<1>6. CASE Finish(t)
  BY <1>1, <1>2, <1>3, <1>4, <1>6 DEF Finish, Further, Place, Live, Over
<1>7. CASE Ask(t)
  BY <1>1, <1>2, <1>3, <1>4, <1>7 DEF Ask, Further, Place, Live, Over
<1>8. CASE Answer(t)
  <2>1. PICK n \in 1..MaxParts : tasks' = Moved(t, a.index, "send", n) /\ a.stage = "ask"
    BY <1>8 DEF Answer
  <2>2. n \in Nat /\ n <= MaxParts /\ n \in 0..MaxParts
    BY <1>1, <2>1
  <2>3. tasks'[t] = New(a.index, "send", n)
    BY <1>1, <1>2, <2>1, <2>2 DEF Live
  <2> QED
    BY <1>1, <1>2, <1>3, <2>1, <2>2, <2>3 DEF Further, Place, Live, Over
<1>9. CASE Send(t)
  <2>1. CASE a.left > 1
    <3>1. tasks' = Moved(t, a.index, "send", a.left - 1) /\ a.stage = "send"
      BY <1>9, <2>1 DEF Send
    <3>2. a.left - 1 \in 0..MaxParts
      BY <1>1, <2>1
    <3>3. tasks'[t] = New(a.index, "send", a.left - 1)
      BY <1>1, <1>2, <3>1, <3>2 DEF Live
    <3>4. Place(a) = 3 + (MaxParts - a.left)
      BY <3>1 DEF Place
    <3>5. tasks'[t].index = a.index /\ tasks'[t].stage = "send" /\ tasks'[t].left = a.left - 1
      BY <1>3, <3>3
    <3>6. Place(tasks'[t]) = 3 + (MaxParts - (a.left - 1))
      BY <3>5 DEF Place
    <3>7. a.left \in Int /\ MaxParts \in Int
      BY <1>1
    <3>8. Place(a) < Place(tasks'[t])
      <4> HIDE DEF a
      <4> QED
        BY <3>4, <3>6, <3>7
    <3>9. \A u \in 1..Len(tasks) : u # t => tasks'[u] = tasks[u]
      BY <1>1, <1>2, <3>1, <3>2 DEF Live
    <3> QED
      BY <3>1, <3>5, <3>8, <3>9 DEF Further, Over
  <2>2. CASE ~(a.left > 1)
    <3>1. tasks' = Moved(t, a.index + 1, "next", 0) /\ a.stage = "send"
      BY <1>9, <2>2 DEF Send
    <3>2. tasks'[t] = New(a.index + 1, "next", 0)
      BY <1>1, <1>2, <1>4, <3>1 DEF Live
    <3> QED
      BY <1>1, <1>2, <1>3, <1>4, <3>1, <3>2 DEF Further, Live, Over
  <2> QED
    BY <2>1, <2>2
<1>10. CASE SendFails(t)
  BY <1>1, <1>2, <1>3, <1>10 DEF SendFails, Further, Place, Live, Over
<1> QED
  BY <1>5, <1>6, <1>7, <1>8, <1>9, <1>10 DEF Step

\* A task takes finitely many steps, bounded by its messages and parts.
THEOREM TasksAdvance == Spec => TasksGoForward
<1>1. ASSUME IInv, [Next]_vars
      PROVE  [\A t \in 1..Len(tasks) :
                 /\ tasks'[t] = tasks[t] \/ Further(tasks[t], tasks'[t])
                 /\ Step(t) \/ SendFails(t) => tasks'[t] # tasks[t]
                 /\ tasks[t].stage \in Over => tasks'[t] = tasks[t]]_vars
  <2> SUFFICES ASSUME Next, NEW t \in 1..Len(tasks)
               PROVE  /\ tasks'[t] = tasks[t] \/ Further(tasks[t], tasks'[t])
                      /\ Step(t) \/ SendFails(t) => tasks'[t] # tasks[t]
                      /\ tasks[t].stage \in Over => tasks'[t] = tasks[t]
    BY <1>1
  <2>0. TypeOK /\ tasks \in Seq(Tasks) /\ tasks[t] \in Tasks /\ Len(tasks) \in Nat
    BY <1>1, TaskFacts DEF IInv
  <2>1. Step(t) \/ SendFails(t) => tasks'[t] # tasks[t]
    BY <2>0, NotFurther, OneGoesForward
  <2>2. ASSUME NEW u \in 1..Len(tasks), Step(u) \/ SendFails(u)
        PROVE  /\ tasks'[t] = tasks[t] \/ Further(tasks[t], tasks'[t])
               /\ tasks[t].stage \in Over => tasks'[t] = tasks[t]
    <3>1. CASE u = t
      BY <2>0, <2>2, <3>1, OneGoesForward
    <3>2. CASE u # t
      BY <2>0, <2>2, <3>2, OneGoesForward
    <3> QED
      BY <3>1, <3>2
  <2>3. ASSUME NEW p \in Payloads, Receive(p) PROVE tasks'[t] = tasks[t]
    <3>1. PICK n : tasks' = Append(tasks, n)
      BY <2>3 DEF Receive
    <3> QED
      BY <2>0, <3>1
  <2>4. ASSUME Restart
        PROVE  /\ tasks'[t] = tasks[t] \/ Further(tasks[t], tasks'[t])
               /\ tasks[t].stage \in Over => tasks'[t] = tasks[t]
    <3>1. tasks'[t] = IF tasks[t].stage \in Live THEN [tasks[t] EXCEPT !.stage = "cancelled"] ELSE tasks[t]
      BY <2>0, <2>4 DEF Restart
    <3>2. \/ tasks'[t] = tasks[t]
          \/ /\ tasks'[t].index = tasks[t].index /\ tasks'[t].stage = "cancelled"
             /\ tasks[t].stage \in Live
      BY <2>0, <3>1 DEF Tasks
    <3>3. tasks[t].index \in Nat /\ tasks[t].left \in 0..MaxParts /\ MaxParts \in Nat
      BY <2>0, BoundsAssumption DEF Tasks
    <3> QED
      BY <3>2, <3>3 DEF Further, Place, Live, Over
  <2> QED
    BY <2>1, <2>2, <2>3, <2>4 DEF Next
<1> QED
  BY <1>1, Invariance, PTL DEF Spec, TasksGoForward

-----------------------------------------------------------------------------
(* What becomes of the messages                                            *)

\* m stands in the payload of a task that has not come past it, or stopped before it did.
Kept(m) ==
    \E t \in 1..Len(tasks) :
        /\ tasks[t].stage # "done"
        /\ \E k \in tasks[t].index..Len(tasks[t].payload) : tasks[t].payload[k] = m

Accounted(m) == answered[m] > 0 \/ Kept(m)

\* Every payload that Meta is done with has a task.
Posted == \A p \in Payloads : p \in pending \/ \E t \in 1..Len(tasks) : tasks[t].payload = p

\* An id is marked for the sake of the task that is at its message until it is answered.
SeenHeld ==
    \A m \in seenIds :
        \/ answered[m] > 0
        \/ \E t \in 1..Len(tasks) : tasks[t].stage \in {"lock", "ask", "send", "failed"} /\ Message(t) = m

\* No task comes past a message that is neither answered nor with another task.
PassedHeld ==
    \A t \in 1..Len(tasks) : \A j \in 1..Len(tasks[t].payload) :
        j < tasks[t].index \/ tasks[t].stage = "done" => Accounted(tasks[t].payload[j])

Course == Posted /\ SeenHeld /\ PassedHeld

\* The message a task is at stands in its payload from its index on.
LEMMA AtMessage ==
    ASSUME TypeOK, NEW t \in 1..Len(tasks), tasks[t].stage \in {"lock", "ask", "send", "failed"}
    PROVE  /\ tasks[t].index \in tasks[t].index..Len(tasks[t].payload)
           /\ tasks[t].payload[tasks[t].index] = Message(t)
BY TaskFacts, TaskFields DEF Message

\* A marked id is accounted for, by its answer or by the task that is at it.
LEMMA SeenAccounted ==
    ASSUME TypeOK, SeenHeld, NEW m \in seenIds
    PROVE  Accounted(m)
BY AtMessage DEF SeenHeld, Accounted, Kept

\* A step of one task that comes past no message but answered and marked ones.
LEMMA CourseStep ==
    ASSUME TypeOK, Course, NEW t \in 1..Len(tasks), NEW G, Changed(t, G), pending' = pending,
           tasks'[t].index \in Nat,
           \A m \in Ids : answered[m] > 0 => answered'[m] > 0,
           \A m \in seenIds' \ seenIds :
              tasks'[t].stage \in {"lock", "ask", "send", "failed"} /\ Message(t)' = m,
           tasks[t].stage \in {"lock", "ask", "send", "failed"} =>
              \/ tasks'[t].stage \in {"lock", "ask", "send", "failed"} /\ Message(t)' = Message(t)
              \/ answered'[Message(t)] > 0,
           \A j \in 1..Len(tasks[t].payload) : j < tasks'[t].index \/ tasks'[t].stage = "done" =>
              \/ j < tasks[t].index \/ tasks[t].stage = "done"
              \/ answered'[tasks[t].payload[j]] > 0
              \/ tasks[t].stage = "next" /\ tasks[t].payload[j] \in seenIds
    PROVE  Course'
<1>1. /\ 1..Len(tasks') = 1..Len(tasks) /\ tasks'[t].payload = tasks[t].payload
      /\ \A u \in 1..Len(tasks) : u # t => tasks'[u] = tasks[u] /\ Message(u)' = Message(u)
  BY ChangedOthers DEF Changed
<1>2. \A u \in 1..Len(tasks) : /\ tasks[u].payload \in Seq(Ids) /\ tasks[u].index \in Nat \ {0}
                               /\ Len(tasks[u].payload) \in Nat
  BY TaskFacts, TaskFields
<1>3. \A u \in 1..Len(tasks) : \A k \in 1..Len(tasks[u].payload) : tasks[u].payload[k] \in Ids
  BY <1>2
<1>4. seenIds \subseteq Ids
  BY DEF TypeOK
<1>5. ASSUME NEW m \in seenIds
      PROVE  \/ answered'[m] > 0
             \/ \E u \in 1..Len(tasks) : tasks[u].stage \in {"lock", "ask", "send", "failed"} /\ Message(u) = m
  BY <1>4 DEF Course, SeenHeld
<1>6. ASSUME NEW m \in Ids, answered'[m] > 0 \/ Kept(m)' PROVE Accounted(m)'
  BY <1>6 DEF Accounted
<1>7. ASSUME NEW u \in 1..Len(tasks), u # t, NEW k \in tasks[u].index..Len(tasks[u].payload),
             tasks[u].stage # "done", NEW m, tasks[u].payload[k] = m
      PROVE  Kept(m)'
  BY <1>1, <1>7 DEF Kept
<1>8. ASSUME NEW m \in seenIds, tasks[t].stage = "next" PROVE Accounted(m)'
  <2>1. CASE answered'[m] > 0
    BY <2>1, <1>4, <1>6
  <2>2. CASE \E u \in 1..Len(tasks) : tasks[u].stage \in {"lock", "ask", "send", "failed"} /\ Message(u) = m
    <3>1. PICK u \in 1..Len(tasks) : tasks[u].stage \in {"lock", "ask", "send", "failed"} /\ Message(u) = m
      BY <2>2
    <3>2. /\ tasks[u].index \in tasks[u].index..Len(tasks[u].payload)
          /\ tasks[u].payload[tasks[u].index] = m
      BY <3>1, AtMessage
    <3>3. u # t /\ tasks[u].stage # "done"
      BY <3>1, <1>8
    <3>4. Kept(m)'
      BY <3>2, <3>3, <1>7
    <3> QED
      BY <3>4, <1>4, <1>6
  <2> QED
    BY <1>5, <2>1, <2>2
<1>9. ASSUME NEW m \in Ids, Accounted(m) PROVE Accounted(m)'
  <2>1. CASE answered[m] > 0
    BY <2>1, <1>6
  <2>2. CASE Kept(m)
    <3>1. PICK u \in 1..Len(tasks) : \E k \in tasks[u].index..Len(tasks[u].payload) :
              tasks[u].stage # "done" /\ tasks[u].payload[k] = m
      BY <2>2 DEF Kept
    <3>k. PICK k \in tasks[u].index..Len(tasks[u].payload) : tasks[u].payload[k] = m
      BY <3>1
    <3>2. CASE u # t
      BY <3>1, <3>k, <3>2, <1>6, <1>7
    <3>3. CASE u = t
      <4>1. k \in 1..Len(tasks[t].payload) /\ k >= tasks[t].index
        BY <3>3, <1>2
      <4>2. ~(k < tasks[t].index)
        BY <4>1, <1>2
      <4>3. CASE k >= tasks'[t].index /\ tasks'[t].stage # "done"
        <5>1. k \in tasks'[t].index..Len(tasks'[t].payload)
          BY <4>1, <4>3, <1>1, <1>2
        <5>2. Kept(m)'
          BY <3>k, <3>3, <4>3, <5>1, <1>1 DEF Kept
        <5> QED
          BY <5>2, <1>6
      <4>4. CASE k < tasks'[t].index \/ tasks'[t].stage = "done"
        <5>1. answered'[m] > 0 \/ (tasks[t].stage = "next" /\ m \in seenIds)
          BY <3>1, <3>k, <3>3, <4>1, <4>2, <4>4
        <5> QED
          BY <5>1, <1>6, <1>8
      <4>5. k \in Nat
        BY <4>1
      <4> QED
        BY <4>3, <4>4, <4>5
    <3> QED
      BY <3>2, <3>3
  <2> QED
    BY <1>9, <2>1, <2>2 DEF Accounted
<1>10. Posted'
  BY <1>1 DEF Course, Posted
<1>11. SeenHeld'
  <2>1. SUFFICES ASSUME NEW m \in seenIds'
                 PROVE  \/ answered'[m] > 0
                        \/ \E u \in 1..Len(tasks) :
                              tasks'[u].stage \in {"lock", "ask", "send", "failed"} /\ Message(u)' = m
    BY <1>1 DEF SeenHeld
  <2>2. CASE m \in seenIds
    <3>1. CASE answered'[m] > 0
      BY <3>1
    <3>2. CASE \E u \in 1..Len(tasks) : tasks[u].stage \in {"lock", "ask", "send", "failed"} /\ Message(u) = m
      BY <3>2, <1>1
    <3> QED
      BY <2>2, <3>1, <3>2, <1>5
  <2>3. CASE m \notin seenIds
    BY <2>1, <2>3
  <2> QED
    BY <2>2, <2>3
<1>12. PassedHeld'
  <2>1. ASSUME NEW u \in 1..Len(tasks), NEW j \in 1..Len(tasks[u].payload),
               j < tasks'[u].index \/ tasks'[u].stage = "done",
               NEW m \in Ids, m = tasks[u].payload[j]
        PROVE  Accounted(m)'
    <3>1. CASE j < tasks[u].index \/ tasks[u].stage = "done"
      <4>1. Accounted(m)
        BY <2>1, <3>1 DEF Course, PassedHeld
      <4> QED
        BY <4>1, <1>9
    <3>2. CASE ~(j < tasks[u].index \/ tasks[u].stage = "done")
      <4>1. u = t
        BY <2>1, <3>2, <1>1
      <4>2. answered'[m] > 0 \/ (tasks[t].stage = "next" /\ m \in seenIds)
        BY <2>1, <3>2, <4>1
      <4> QED
        BY <4>2, <1>6, <1>8
    <3> QED
      BY <3>1, <3>2
  <2>2. \A u \in 1..Len(tasks) : tasks'[u].payload = tasks[u].payload
    BY <1>1
  <2> QED
    BY <2>1, <2>2, <1>1, <1>3 DEF PassedHeld
<1> QED
  BY <1>10, <1>11, <1>12 DEF Course

LEMMA TakeCourse ==
    ASSUME IInv, Course, NEW t \in 1..Len(tasks), Take(t)
    PROVE  Course'
<1>0. TypeOK /\ SeenAgree
  BY DEF IInv
<1>1. PICK k \in Fresh(t) :
          /\ \A j \in Fresh(t) : k <= j
          /\ MarkSeen(tasks[t].payload[k])
          /\ tasks' = Moved(t, k, "lock", 0)
  BY DEF Take
<1>2. tasks[t].stage = "next" /\ pending' = pending /\ answered' = answered
  BY DEF Take
<1>3. /\ k \in Nat \ {0} /\ k \in 1..Len(tasks[t].payload) /\ tasks[t].payload[k] \in Ids
      /\ tasks[t].payload[k] \notin seenIds /\ Len(tasks[t].payload) \in Nat /\ tasks[t].index \in Nat
  BY <1>0, TaskFields, TaskFacts DEF Fresh, IsDuplicate
<1>4. Changed(t, {"lock"}) /\ tasks'[t].index = k
  BY <1>0, <1>1, <1>3, TaskFields, MovedTask
<1>5. tasks'[t].stage = "lock" /\ Message(t)' = tasks[t].payload[k]
  BY <1>0, <1>4, ChangedOthers DEF Changed
<1>6. \A m \in seenIds' \ seenIds : m = tasks[t].payload[k]
  BY <1>1 DEF MarkSeen
<1>7. ASSUME NEW j \in 1..Len(tasks[t].payload), j < k, ~(j < tasks[t].index)
      PROVE  tasks[t].payload[j] \in seenIds
  <2>1. j \in tasks[t].index..Len(tasks[t].payload)
    BY <1>3, <1>7
  <2>2. j \notin Fresh(t)
    BY <1>1, <1>3, <1>7
  <2> QED
    BY <2>1, <2>2 DEF Fresh, IsDuplicate
<1> QED
  BY <1>0, <1>2, <1>3, <1>4, <1>5, <1>6, <1>7, CourseStep

\* A task that stays at its message, whatever becomes of its answer.
LEMMA StayCourse ==
    ASSUME IInv, Course, NEW t \in 1..Len(tasks), Ask(t) \/ Answer(t) \/ SendFails(t)
    PROVE  Course'
<1>0. TypeOK
  BY DEF IInv
<1>1. /\ pending' = pending /\ answered' = answered
      /\ seenIds' = seenIds /\ tasks[t].stage # "next"
  BY DEF Ask, Answer, SendFails
<1>2. PICK G : /\ Changed(t, G) /\ G \subseteq {"ask", "send", "failed"}
               /\ tasks'[t].index = tasks[t].index
  BY <1>0, StayTask
<1>3. tasks'[t].stage \in {"ask", "send", "failed"} /\ Message(t)' = Message(t)
  BY <1>0, <1>2, ChangedOthers DEF Changed
<1>4. tasks'[t].index \in Nat
  BY <1>0, <1>2, TaskFields
<1> QED
  BY <1>0, <1>1, <1>2, <1>3, <1>4, CourseStep

LEMMA FinishCourse ==
    ASSUME IInv, Course, NEW t \in 1..Len(tasks), Finish(t)
    PROVE  Course'
<1>0. TypeOK
  BY DEF IInv
<1>1. /\ pending' = pending /\ answered' = answered /\ seenIds' = seenIds
      /\ tasks[t].stage = "next" /\ Fresh(t) = {}
  BY DEF Finish
<1>2. Changed(t, {"done"}) /\ tasks'[t].index = tasks[t].index /\ tasks[t].index \in Nat
  BY <1>0, StayTask, TaskFields
<1>3. ASSUME NEW j \in 1..Len(tasks[t].payload), ~(j < tasks[t].index)
      PROVE  tasks[t].payload[j] \in seenIds
  <2>1. Len(tasks[t].payload) \in Nat
    BY <1>0, TaskFacts
  <2>2. j \in tasks[t].index..Len(tasks[t].payload)
    BY <2>1, <1>2, <1>3
  <2> QED
    BY <2>2, <1>1 DEF Fresh, IsDuplicate
<1> QED
  BY <1>0, <1>1, <1>2, <1>3, CourseStep

LEMMA SendCourse ==
    ASSUME IInv, Course, NEW t \in 1..Len(tasks), Send(t)
    PROVE  Course'
<1>0. TypeOK
  BY DEF IInv
<1>1. pending' = pending /\ seenIds' = seenIds /\ tasks[t].stage = "send"
  BY DEF Send
<1>2. /\ tasks[t].index \in Nat \ {0} /\ Message(t) \in Ids
      /\ answered \in [Ids -> Nat] /\ tasks[t].left \in 0..MaxParts /\ MaxParts \in Nat
  BY <1>0, <1>1, TaskFields, TaskFacts DEF TypeOK
<1>3. CASE tasks[t].left > 1
  <2>1. tasks' = Moved(t, tasks[t].index, "send", tasks[t].left - 1) /\ answered' = answered
    BY <1>3 DEF Send
  <2>2. tasks[t].left - 1 \in 0..MaxParts
    BY <1>2, <1>3
  <2>3. Changed(t, {"send"}) /\ tasks'[t].index = tasks[t].index
    BY <1>0, <2>1, <2>2, TaskFields, MovedTask
  <2>4. tasks'[t].stage = "send" /\ Message(t)' = Message(t)
    BY <1>0, <2>3, ChangedOthers DEF Changed
  <2> QED
    BY <1>0, <1>1, <1>2, <2>1, <2>3, <2>4, CourseStep
<1>4. CASE ~(tasks[t].left > 1)
  <2>1. /\ tasks' = Moved(t, tasks[t].index + 1, "next", 0)
        /\ answered' = [answered EXCEPT ![Message(t)] = @ + 1]
    BY <1>4 DEF Send
  <2>2. tasks[t].index + 1 \in Nat \ {0}
    BY <1>2
  <2>3. Changed(t, {"next"}) /\ tasks'[t].index = tasks[t].index + 1
    BY <1>0, <2>1, <2>2, TaskFields, MovedTask
  <2>4. tasks'[t].stage = "next"
    BY <2>3 DEF Changed
  <2>5. answered'[Message(t)] > 0 /\ \A m \in Ids : answered[m] > 0 => answered'[m] > 0
    BY <1>2, <2>1
  <2>6. ASSUME NEW j \in 1..Len(tasks[t].payload), j < tasks'[t].index, ~(j < tasks[t].index)
        PROVE  answered'[tasks[t].payload[j]] > 0
    <3>1. j = tasks[t].index
      BY <1>2, <2>3, <2>6
    <3> QED
      BY <3>1, <2>5 DEF Message
  <2> QED
    BY <1>0, <1>1, <2>2, <2>3, <2>4, <2>5, <2>6, CourseStep
<1> QED
  BY <1>3, <1>4

LEMMA ReceiveCourse ==
    ASSUME IInv, Course, NEW p \in Payloads, Receive(p)
    PROVE  Course'
<1> DEFINE r == [payload |-> p, index |-> 1, stage |-> "next", left |-> 0]
<1>1. /\ tasks' = Append(tasks, r) /\ pending' \in {pending, pending \ {p}}
      /\ seenIds' = seenIds /\ answered' = answered
  BY DEF Receive
<1>2. r \in Tasks /\ r.payload = p /\ r.stage = "next" /\ r.index = 1 /\ tasks \in Seq(Tasks)
  BY BoundsAssumption DEF IInv, TypeOK, Tasks, Live
<1> HIDE DEF r
<1>3. /\ Len(tasks) \in Nat /\ Len(tasks') = Len(tasks) + 1
      /\ \A u \in 1..Len(tasks) : tasks'[u] = tasks[u]
      /\ tasks'[Len(tasks) + 1] = r
  BY <1>1, <1>2, AppendElements
<1>4. /\ \A u \in 1..Len(tasks') : u \in 1..Len(tasks) \/ tasks'[u] = r
      /\ 1..Len(tasks) \subseteq 1..Len(tasks') /\ Len(tasks) + 1 \in 1..Len(tasks')
  <2>1. \A u \in 1..Len(tasks') : u \in 1..Len(tasks) \/ u = Len(tasks) + 1
    BY <1>3
  <2> QED
    BY <2>1, <1>3
<1>5. Posted'
  <2>1. \A q \in Payloads : q \in pending' \/ \E u \in 1..Len(tasks') : tasks'[u].payload = q
    BY <1>1, <1>2, <1>3, <1>4 DEF Course, Posted
  <2> QED
    BY <2>1 DEF Posted
<1>6. SeenHeld'
  BY <1>1, <1>3, <1>4 DEF Course, SeenHeld, Message
<1>7. \A m : Accounted(m) => Accounted(m)'
  BY <1>1, <1>3, <1>4 DEF Accounted, Kept
<1>8. ASSUME NEW u \in 1..Len(tasks'), NEW j \in 1..Len(tasks'[u].payload),
             j < tasks'[u].index \/ tasks'[u].stage = "done", NEW m, m = tasks'[u].payload[j]
      PROVE  Accounted(m)'
  <2>1. u \in 1..Len(tasks)
    BY <1>2, <1>4, <1>8
  <2>2. tasks'[u] = tasks[u]
    BY <2>1, <1>3
  <2>3. Accounted(m)
    BY <2>1, <2>2, <1>8 DEF Course, PassedHeld
  <2> QED
    BY <2>3, <1>7
<1>9. PassedHeld'
  BY <1>8 DEF PassedHeld
<1> QED
  BY <1>5, <1>6, <1>9 DEF Course

\* What a restart cancels is kept, as lost with its task.
LEMMA RestartCourse ==
    ASSUME IInv, Course, Restart
    PROVE  Course'
<1>1. /\ tasks' = [t \in 1..Len(tasks) |->
              IF tasks[t].stage \in Live THEN [tasks[t] EXCEPT !.stage = "cancelled"] ELSE tasks[t]]
      /\ seenIds' = {} /\ pending' = pending /\ answered' = answered
  BY DEF Restart
<1>2. Len(tasks) \in Nat
  BY DEF IInv, TypeOK
<1>3. Len(tasks') = Len(tasks) /\ 1..Len(tasks') = 1..Len(tasks)
  BY <1>1, <1>2
<1>4. ASSUME NEW t \in 1..Len(tasks)
      PROVE  /\ tasks'[t].payload = tasks[t].payload /\ tasks'[t].index = tasks[t].index
             /\ tasks'[t].stage = "done" <=> tasks[t].stage = "done"
  <2>1. tasks[t] \in Tasks
    BY TaskFacts DEF IInv
  <2> QED
    BY <1>1, <2>1 DEF Tasks, Live
<1>5. Posted'
  BY <1>1, <1>3, <1>4 DEF Course, Posted
<1>6. SeenHeld'
  BY <1>1 DEF SeenHeld
<1>7. \A m : Accounted(m) => Accounted(m)'
  BY <1>1, <1>3, <1>4 DEF Accounted, Kept
<1>8. ASSUME NEW u \in 1..Len(tasks'), NEW j \in 1..Len(tasks'[u].payload),
             j < tasks'[u].index \/ tasks'[u].stage = "done", NEW m, m = tasks'[u].payload[j]
      PROVE  Accounted(m)'
  <2>1. Accounted(m)
    BY <1>3, <1>4, <1>8 DEF Course, PassedHeld
  <2> QED
    BY <2>1, <1>7
<1>9. PassedHeld'
  BY <1>8 DEF PassedHeld
<1> QED
  BY <1>5, <1>6, <1>9 DEF Course

\* The handling of a payload accounts for its messages in every state.
THEOREM CourseInvariance == Spec => []Course
<1>1. Init => Course
  BY DEF Init, Course, Posted, SeenHeld, PassedHeld
<1>2. IInv /\ Course /\ [Next]_vars => Course'
  <2> SUFFICES ASSUME IInv, Course, [Next]_vars PROVE Course'
    OBVIOUS
  <2>1. CASE \E p \in Payloads : Receive(p)
    BY <2>1, ReceiveCourse
  <2>2. CASE \E t \in 1..Len(tasks) : Step(t) \/ SendFails(t)
    BY <2>2, TakeCourse, FinishCourse, StayCourse, SendCourse DEF Step
  <2>3. CASE Restart
    BY <2>3, RestartCourse
  <2>4. CASE UNCHANGED vars
    BY <2>4 DEF vars, Course, Posted, SeenHeld, PassedHeld, Accounted, Kept, Message
  <2> QED
    BY <2>1, <2>2, <2>3, <2>4 DEF Next
<1> QED
  BY <1>1, <1>2, Invariance, PTL DEF Spec

\* handle_payload: a message that was acknowledged and will not be answered stands in the
\* payload of a task that failed or was cancelled at it or before it.
THEOREM LostOnlyWithItsTask == Spec => []LostWithItsTask
<1>1. IInv /\ Course => LostWithItsTask
  <2> SUFFICES ASSUME IInv, Course, NEW m \in Ids, Lost(m)
               PROVE  \E t \in 1..Len(tasks) :
                          /\ tasks[t].stage \in {"failed", "cancelled"}
                          /\ \E k \in tasks[t].index..Len(tasks[t].payload) : tasks[t].payload[k] = m
    BY DEF LostWithItsTask
  <2>1. \A t \in 1..Len(tasks) : /\ tasks[t].stage \in Live \cup Over
                                 /\ tasks[t].index \in Nat \ {0} /\ tasks[t].payload \in Seq(Ids)
    BY TaskFacts, TaskFields DEF IInv
  <2>2. PICK p \in Payloads : m \in ToSet(p)
    BY DEF Lost
  <2>3. PICK t \in 1..Len(tasks) : tasks[t].payload = p
    BY <2>2 DEF Lost, Course, Posted
  <2>4. p \in Seq(Ids) /\ Len(p) \in Nat
    BY <2>1, <2>3
  <2>5. PICK j \in 1..Len(p) : p[j] = m
    BY <2>2, <2>4, Members
  <2>6. Kept(m)
    <3>1. CASE j < tasks[t].index \/ tasks[t].stage = "done"
      <4>1. Accounted(m)
        BY <2>3, <2>5, <3>1 DEF Course, PassedHeld
      <4> QED
        BY <4>1 DEF Accounted, Lost
    <3>2. CASE ~(j < tasks[t].index \/ tasks[t].stage = "done")
      <4>1. j \in tasks[t].index..Len(tasks[t].payload)
        BY <2>1, <2>3, <2>4, <3>2
      <4> QED
        BY <4>1, <2>3, <2>5, <3>2 DEF Kept
    <3> QED
      BY <3>1, <3>2
  <2>7. PICK u \in 1..Len(tasks) :
            /\ tasks[u].stage # "done"
            /\ \E k \in tasks[u].index..Len(tasks[u].payload) : tasks[u].payload[k] = m
    BY <2>6 DEF Kept
  <2>8. tasks[u].stage \notin Live
    BY <2>7 DEF Lost, InHand
  <2>9. tasks[u].stage \in {"failed", "cancelled"}
    BY <2>1, <2>7, <2>8 DEF Over
  <2> QED
    BY <2>7, <2>9
<1> QED
  BY <1>1, Invariance, CourseInvariance, PTL
=============================================================================
