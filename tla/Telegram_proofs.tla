-------------------------- MODULE Telegram_proofs --------------------------
(***************************************************************************)
(* Proofs about the two Telegram adapters: TelegramWebhook, for any        *)
(* updates, chats and senders that are refused, and any number of tasks,   *)
(* parts, failures and restarts; and PollingBot, for any number of         *)
(* updates, messages, attempts, failures and crashes.                      *)
(***************************************************************************)
EXTENDS TelegramWebhook, PollingBot, WellFoundedInduction, TLAPS

-----------------------------------------------------------------------------
(* The webhook: the inductive invariant                                    *)

Stages == Waiting \cup {"send"} \cup Over
Stage(t) == tasks[t].stage

Increasing(q) == \A i, j \in 1..Len(q) : i < j => q[i] < q[j]

\* A chat's line is increasing and is made of exactly its tasks that wait for or have the lock.
LineOf(c) ==
    /\ Increasing(queue[c])
    /\ \A i \in 1..Len(queue[c]) :
          /\ queue[c][i] \in 1..Len(tasks)
          /\ Stage(queue[c][i]) \in {"lock", "ask"}
          /\ ChatOf(queue[c][i]) = c
    /\ \A t \in 1..Len(tasks) :
          Stage(t) \in {"lock", "ask"} /\ ChatOf(t) = c
          => \E i \in 1..Len(queue[c]) : queue[c][i] = t

LineExact == \A c \in Chats : LineOf(c)

\* The task that asks is at the head of its chat's line.
HeadAsks ==
    \A t \in 1..Len(tasks) :
        Stage(t) = "ask" => 1 \in 1..Len(queue[ChatOf(t)]) /\ queue[ChatOf(t)][1] = t

\* The tasks that have not begun come after all others.
NewLast ==
    \A t, j \in 1..Len(tasks) : t < j /\ Stage(t) = "new" => Stage(j) = "new"

\* A task that sends has a part left, one that came to its end has none.
PartsLeft ==
    \A t \in 1..Len(tasks) :
        (Stage(t) = "done" => tasks[t].left = 0) /\ (Stage(t) = "send" => tasks[t].left # 0)

\* An acknowledged update has a task.
HasTask ==
    \A u \in Updates : u \in pending \/ \E t \in 1..Len(tasks) : tasks[t].update = u

IInv ==
    TypeOK /\ LineExact /\ HeadAsks /\ NewLast /\ AskedInTurn /\ PartsLeft /\ HasTask

-----------------------------------------------------------------------------
(* One task moves                                                          *)

\* What the type invariant says of one task.
LEMMA TaskFacts ==
    ASSUME TypeOK, NEW t \in 1..Len(tasks)
    PROVE  /\ tasks \in Seq(Tasks) /\ Len(tasks) \in Nat /\ t \in Nat
           /\ tasks[t] \in Tasks
           /\ tasks[t].update \in Updates /\ Stage(t) \in Stages /\ tasks[t].left \in 0..MaxParts
           /\ ChatOf(t) \in Chats
           /\ queue[ChatOf(t)] \in Seq(1..MaxTasks)
<1>1. tasks \in Seq(Tasks) /\ Len(tasks) \in Nat /\ t \in Nat
  BY DEF TypeOK
<1>2. tasks[t] \in Tasks
  BY <1>1
<1>3. tasks[t].update \in Updates /\ Stage(t) \in Stages /\ tasks[t].left \in 0..MaxParts
  BY <1>2 DEF Tasks, Stage, Stages
<1>4. ChatOf(t) \in Chats
  BY <1>3, ChatAssumption DEF ChatOf
<1> QED
  BY <1>1, <1>2, <1>3, <1>4 DEF TypeOK

\* Moved changes one task's stage and parts and nobody's update.
LEMMA MovedFacts ==
    ASSUME TypeOK, NEW t \in 1..Len(tasks), NEW s \in Stages, NEW n \in 0..MaxParts,
           tasks' = Moved(t, s, n)
    PROVE  /\ tasks' \in Seq(Tasks) /\ Len(tasks') = Len(tasks) /\ Len(tasks) \in Nat
           /\ Len(tasks') <= MaxTasks
           /\ Stage(t)' = s /\ tasks'[t].left = n
           /\ \A j \in 1..Len(tasks) : j # t => tasks'[j] = tasks[j]
           /\ \A j \in 1..Len(tasks) : tasks'[j].update = tasks[j].update
           /\ \A j \in 1..Len(tasks) : ChatOf(j)' = ChatOf(j)
           /\ \A j \in 1..Len(tasks) : j # t => Stage(j)' = Stage(j)
<1>1. tasks \in Seq(Tasks) /\ Len(tasks) \in Nat /\ tasks[t].update \in Updates
      /\ Len(tasks) <= MaxTasks
  BY TaskFacts DEF TypeOK
<1> DEFINE new == [update |-> tasks[t].update, stage |-> s, left |-> n]
<1>2. new \in Tasks
  BY <1>1 DEF Tasks, Stages
<1>3. tasks' = [tasks EXCEPT ![t] = new]
  BY DEF Moved
<1>4. tasks' \in Seq(Tasks) /\ Len(tasks') = Len(tasks)
  BY <1>1, <1>2, <1>3
<1>5. tasks'[t] = new /\ \A j \in 1..Len(tasks) : j # t => tasks'[j] = tasks[j]
  BY <1>1, <1>3
<1>6. \A j \in 1..Len(tasks) : tasks'[j].update = tasks[j].update
  BY <1>5
<1> QED
  BY <1>1, <1>4, <1>5, <1>6 DEF Stage, ChatOf

\* A step of one task that leaves the lines alone, between stages that are not in them, or from
\* waiting for the lock to having it.
LEMMA StayInLine ==
    ASSUME IInv, NEW t \in 1..Len(tasks), NEW s \in Stages, NEW n \in 0..MaxParts,
           tasks' = Moved(t, s, n), queue' = queue,
           Stage(t) \in {"lock", "ask"} <=> s \in {"lock", "ask"}
    PROVE  LineExact'
<1>1. /\ Len(tasks') = Len(tasks)
      /\ \A j \in 1..Len(tasks) : ChatOf(j)' = ChatOf(j)
      /\ \A j \in 1..Len(tasks) : Stage(j)' \in {"lock", "ask"} <=> Stage(j) \in {"lock", "ask"}
  BY MovedFacts DEF IInv
<1> QED
  BY <1>1 DEF IInv, LineExact, LineOf, Increasing

\* What stays as it is when a task leaves the stages `new` and, unless it is at an end, goes on.
LEMMA OthersStay ==
    ASSUME IInv, NEW t \in 1..Len(tasks), NEW s \in Stages \ {"new"}, NEW n \in 0..MaxParts,
           tasks' = Moved(t, s, n), s = "done" => n = 0, s = "send" => n # 0,
           Stage(t) # "new" \/ \A j \in 1..(t - 1) : Stage(j) # "new",
           UNCHANGED pending
    PROVE  /\ tasks' \in Seq(Tasks) /\ Len(tasks') <= MaxTasks
           /\ NewLast' /\ PartsLeft' /\ HasTask'
<1>1. /\ tasks' \in Seq(Tasks) /\ Len(tasks') = Len(tasks) /\ Len(tasks) \in Nat
      /\ Len(tasks') <= MaxTasks
      /\ Stage(t)' = s /\ tasks'[t].left = n
      /\ \A j \in 1..Len(tasks) : j # t => tasks'[j] = tasks[j]
      /\ \A j \in 1..Len(tasks) : tasks'[j].update = tasks[j].update
      /\ \A j \in 1..Len(tasks) : j # t => Stage(j)' = Stage(j)
  BY MovedFacts DEF IInv
<1>2. NewLast'
  <2> SUFFICES ASSUME NEW k \in 1..Len(tasks), NEW j \in 1..Len(tasks), k < j, Stage(k)' = "new"
               PROVE  Stage(j)' = "new"
    BY <1>1 DEF NewLast
  <2>1. k # t /\ Stage(k) = "new"
    BY <1>1
  <2>2. Stage(j) = "new"
    BY <2>1 DEF IInv, NewLast
  <2>3. j # t
    BY <2>1, <2>2, <1>1
  <2> QED
    BY <2>2, <2>3, <1>1
<1>3. PartsLeft'
  BY <1>1 DEF IInv, PartsLeft, Stage
<1>4. HasTask'
  BY <1>1 DEF IInv, HasTask
<1> QED
  BY <1>1, <1>2, <1>3, <1>4

\* A task whose turn has not come and does not come now, or whose turn came before.
LEMMA TurnsStay ==
    ASSUME IInv, NEW t \in 1..Len(tasks), NEW s \in Stages \ {"new"}, NEW n \in 0..MaxParts,
           tasks' = Moved(t, s, n),
           s \in Waiting => Stage(t) \in Waiting,
           s \in {"ask", "send", "done", "failed"}
           => \A j \in 1..(t - 1) : ChatOf(j) = ChatOf(t) => Stage(j) \notin Waiting
    PROVE  AskedInTurn'
<1>1. /\ Len(tasks') = Len(tasks) /\ Len(tasks) \in Nat
      /\ Stage(t)' = s
      /\ \A j \in 1..Len(tasks) : ChatOf(j)' = ChatOf(j)
      /\ \A j \in 1..Len(tasks) : j # t => Stage(j)' = Stage(j)
  BY MovedFacts DEF IInv
<1> SUFFICES ASSUME NEW k \in 1..Len(tasks), Stage(k)' \in {"ask", "send", "done", "failed"},
                    NEW j \in 1..(k - 1), ChatOf(j) = ChatOf(k)
             PROVE  Stage(j)' \notin Waiting
  BY <1>1 DEF AskedInTurn, Stage
<1>2. j \in 1..Len(tasks) /\ j # k
  BY <1>1
<1>3. CASE k = t
  BY <1>1, <1>2, <1>3
<1>4. CASE k # t
  <2>1. Stage(k) \in {"ask", "send", "done", "failed"}
    BY <1>1, <1>4
  <2>2. Stage(j) \notin Waiting
    BY <2>1 DEF IInv, AskedInTurn, Stage
  <2> QED
    BY <1>1, <1>2, <2>2
<1> QED
  BY <1>3, <1>4

-----------------------------------------------------------------------------
(* Whose turn it is                                                        *)

\* Before the task at the head of a line no task of the chat waits.
LEMMA HeadIsNext ==
    ASSUME IInv, NEW t \in 1..Len(tasks), Stage(t) \in {"lock", "ask"},
           1 \in 1..Len(queue[ChatOf(t)]), queue[ChatOf(t)][1] = t,
           NEW j \in 1..(t - 1), ChatOf(j) = ChatOf(t)
    PROVE  Stage(j) \notin Waiting
<1>1. j \in 1..Len(tasks) /\ j \in Nat /\ t \in Nat /\ ChatOf(t) \in Chats
  BY TaskFacts DEF IInv
<1>2. Stage(j) # "new"
  BY <1>1 DEF IInv, NewLast
<1>3. ASSUME Stage(j) \in {"lock", "ask"} PROVE FALSE
  <2>1. PICK i \in 1..Len(queue[ChatOf(t)]) : queue[ChatOf(t)][i] = j
    BY <1>1, <1>3 DEF IInv, LineExact, LineOf
  <2>2. queue[ChatOf(t)] \in Seq(1..MaxTasks) /\ i \in Nat
    BY TaskFacts DEF IInv
  <2>3. i = 1 \/ 1 < i
    BY <2>2
  <2>4. j = t \/ t < j
    BY <1>1, <2>1, <2>3 DEF IInv, LineExact, LineOf, Increasing
  <2> QED
    BY <1>1, <2>4
<1> QED
  BY <1>2, <1>3 DEF Waiting

\* The line has a head when a task of it is at work.
LEMMA LineHead ==
    ASSUME IInv, NEW t \in 1..Len(tasks), Stage(t) = "lock", Head(queue[ChatOf(t)]) = t
    PROVE  1 \in 1..Len(queue[ChatOf(t)]) /\ queue[ChatOf(t)][1] = t
<1>1. ChatOf(t) \in Chats /\ queue[ChatOf(t)] \in Seq(1..MaxTasks)
  BY TaskFacts DEF IInv
<1>2. PICK i \in 1..Len(queue[ChatOf(t)]) : queue[ChatOf(t)][i] = t
  BY <1>1 DEF IInv, LineExact, LineOf
<1> QED
  BY <1>1, <1>2

\* The head of a line leaves it.
LEMMA LeaveLine ==
    ASSUME IInv, NEW t \in 1..Len(tasks), Stage(t) \in {"lock", "ask"},
           1 \in 1..Len(queue[ChatOf(t)]), queue[ChatOf(t)][1] = t,
           NEW n \in 1..MaxParts, tasks' = Moved(t, "send", n),
           queue' = [queue EXCEPT ![ChatOf(t)] = Tail(@)]
    PROVE  LineExact' /\ HeadAsks' /\ queue' \in [Chats -> Seq(1..MaxTasks)]
<1> DEFINE c == ChatOf(t)
           q == queue[c]
<1>1. /\ c \in Chats /\ q \in Seq(1..MaxTasks) /\ t \in Nat
      /\ queue \in [Chats -> Seq(1..MaxTasks)]
  BY TaskFacts DEF IInv, TypeOK
<1>9. "send" \in Stages /\ n \in 0..MaxParts
  BY BoundsAssumption DEF Stages
<1>2. /\ Len(tasks') = Len(tasks) /\ Len(tasks) \in Nat
      /\ Stage(t)' = "send"
      /\ \A j \in 1..Len(tasks) : ChatOf(j)' = ChatOf(j)
      /\ \A j \in 1..Len(tasks) : j # t => Stage(j)' = Stage(j)
  BY <1>9, MovedFacts DEF IInv
<1>8. \A j \in 1..Len(tasks) :
        /\ tasks'[j].update = tasks[j].update
        /\ j # t => tasks'[j] = tasks[j]
  BY <1>9, MovedFacts DEF IInv
<1>3. /\ Tail(q) \in Seq(1..MaxTasks) /\ Len(q) \in Nat \ {0} /\ Len(Tail(q)) = Len(q) - 1
      /\ \A i \in 1..Len(Tail(q)) : Tail(q)[i] = q[i + 1] /\ i + 1 \in 1..Len(q)
  BY <1>1
<1>4. /\ queue' \in [Chats -> Seq(1..MaxTasks)]
      /\ queue'[c] = Tail(q)
      /\ \A d \in Chats : d # c => queue'[d] = queue[d]
  BY <1>1, <1>3
<1>5. \A i \in 2..Len(q) : q[i] # t
  <2> SUFFICES ASSUME NEW i \in 2..Len(q) PROVE q[i] # t
    OBVIOUS
  <2>1. q[1] < q[i]
    BY <1>1, <1>3 DEF IInv, LineExact, LineOf, Increasing
  <2> QED
    BY <1>1, <2>1
<1>6. ASSUME NEW d \in Chats PROVE LineOf(d)'
  <2>1. CASE d # c
    <3>1. \A i \in 1..Len(queue[d]) : queue[d][i] # t
      BY <2>1 DEF IInv, LineExact, LineOf
    <3>2. \A j \in 1..Len(tasks) : ChatOf(j) = d => j # t
      BY <2>1
    <3>3. LineOf(d) /\ queue'[d] = queue[d] /\ Len(tasks') = Len(tasks)
      BY <1>2, <1>4, <2>1 DEF IInv, LineExact
    <3>4. \A i \in 1..Len(queue[d]) : tasks'[queue[d][i]] = tasks[queue[d][i]]
      BY <1>8, <3>1, <3>3 DEF LineOf
    <3>5. \A j \in 1..Len(tasks) : Chat[tasks'[j].update] = d => tasks'[j] = tasks[j]
      BY <1>8, <3>2 DEF ChatOf
    <3>6. \A i \in 1..Len(queue[d]) : /\ queue[d][i] \in 1..Len(tasks)
                                       /\ tasks'[queue[d][i]].stage \in {"lock", "ask"}
                                       /\ Chat[tasks'[queue[d][i]].update] = d
      BY <3>3, <3>4 DEF LineOf, Stage, ChatOf
    <3>7. \A j \in 1..Len(tasks) :
             tasks'[j].stage \in {"lock", "ask"} /\ Chat[tasks'[j].update] = d
             => \E i \in 1..Len(queue[d]) : queue[d][i] = j
      BY <3>3, <3>5 DEF LineOf, Stage, ChatOf
    <3> QED
      BY <3>3, <3>6, <3>7 DEF LineOf, Increasing, Stage, ChatOf
  <2>2. CASE d = c
    <3>1. ASSUME NEW i \in 1..Len(Tail(q)), NEW j \in 1..Len(Tail(q)), i < j
          PROVE  Tail(q)[i] < Tail(q)[j]
      <4>1. Increasing(q)
        BY <1>1 DEF IInv, LineExact, LineOf
      <4>2. i + 1 \in 1..Len(q) /\ j + 1 \in 1..Len(q) /\ i + 1 < j + 1
        BY <1>3, <3>1
      <4>3. q[i + 1] < q[j + 1]
        BY <4>1, <4>2 DEF Increasing
      <4> QED
        BY <1>3, <4>3
    <3>2. ASSUME NEW i \in 1..Len(Tail(q))
          PROVE  /\ Tail(q)[i] \in 1..Len(tasks)
                 /\ tasks'[Tail(q)[i]].stage \in {"lock", "ask"}
                 /\ Chat[tasks'[Tail(q)[i]].update] = c
      <4>1. i + 1 \in 1..Len(q) /\ i + 1 \in 2..Len(q) /\ Tail(q)[i] = q[i + 1]
        BY <1>3
      <4>2. /\ q[i + 1] \in 1..Len(tasks)
            /\ Stage(q[i + 1]) \in {"lock", "ask"} /\ ChatOf(q[i + 1]) = c
        BY <1>1, <4>1 DEF IInv, LineExact, LineOf
      <4>3. q[i + 1] # t
        BY <1>5, <4>1
      <4> QED
        BY <1>8, <4>1, <4>2, <4>3 DEF Stage, ChatOf
    <3>3. ASSUME NEW j \in 1..Len(tasks),
                 tasks'[j].stage \in {"lock", "ask"}, Chat[tasks'[j].update] = c
          PROVE  \E i \in 1..Len(Tail(q)) : Tail(q)[i] = j
      <4>1. j # t /\ Stage(j) \in {"lock", "ask"} /\ ChatOf(j) = c
        BY <1>2, <1>8, <3>3 DEF Stage, ChatOf
      <4>2. PICK i \in 1..Len(q) : q[i] = j
        BY <1>1, <4>1 DEF IInv, LineExact, LineOf
      <4>3. i # 1
        BY <4>1, <4>2
      <4>4. i - 1 \in 1..Len(Tail(q)) /\ Tail(q)[i - 1] = q[i]
        BY <1>3, <4>3
      <4> QED
        BY <4>2, <4>4
    <3>4. queue'[d] = Tail(q) /\ Len(tasks') = Len(tasks)
      BY <1>2, <1>4, <2>2
    <3> HIDE DEF q, c
    <3> QED
      BY <2>2, <3>1, <3>2, <3>3, <3>4 DEF LineOf, Increasing, Stage, ChatOf
  <2> QED
    BY <2>1, <2>2
<1>7. HeadAsks'
  <2> SUFFICES ASSUME NEW j \in 1..Len(tasks), Stage(j)' = "ask"
               PROVE  1 \in 1..Len(queue'[ChatOf(j)]) /\ queue'[ChatOf(j)][1] = j
    BY <1>2 DEF HeadAsks
  <2>1. j # t /\ Stage(j) = "ask"
    BY <1>2
  <2>2. 1 \in 1..Len(queue[ChatOf(j)]) /\ queue[ChatOf(j)][1] = j /\ ChatOf(j) \in Chats
    BY <2>1, TaskFacts DEF IInv, HeadAsks
  <2>3. ChatOf(j) # c
    BY <2>1, <2>2
  <2> QED
    BY <1>4, <2>2, <2>3
<1> QED
  BY <1>4, <1>6, <1>7 DEF LineExact

\* The heads stay when a task that does not ask stays or begins to wait at another place.
LEMMA HeadsStay ==
    ASSUME IInv, NEW t \in 1..Len(tasks), NEW s \in Stages \ {"ask"}, NEW n \in 0..MaxParts,
           tasks' = Moved(t, s, n), queue' = queue
    PROVE  HeadAsks'
<1>1. /\ Len(tasks') = Len(tasks)
      /\ Stage(t)' = s
      /\ \A j \in 1..Len(tasks) : ChatOf(j)' = ChatOf(j)
      /\ \A j \in 1..Len(tasks) : j # t => Stage(j)' = Stage(j)
  BY MovedFacts DEF IInv
<1> QED
  BY <1>1 DEF IInv, HeadAsks

-----------------------------------------------------------------------------
(* The actions                                                             *)

LEMMA InitInv == Init => IInv
<1> SUFFICES ASSUME Init PROVE IInv
  OBVIOUS
<1>1. tasks = <<>> /\ Len(tasks) = 0
  BY DEF Init
<1>2. TypeOK
  BY <1>1, BoundsAssumption DEF Init, TypeOK
<1>3. LineExact
  BY <1>1 DEF Init, LineExact, LineOf, Increasing
<1>4. HeadAsks /\ NewLast /\ AskedInTurn /\ PartsLeft
  BY <1>1 DEF HeadAsks, NewLast, AskedInTurn, PartsLeft
<1>5. HasTask
  BY DEF Init, HasTask
<1> QED
  BY <1>2, <1>3, <1>4, <1>5 DEF IInv

\* A new task comes last, and nobody's turn.
LEMMA ReceiveInv == ASSUME IInv, NEW u \in Updates, Receive(u) PROVE IInv'
<1> DEFINE new == [update |-> u, stage |-> "new", left |-> 0]
           n == Len(tasks)
<1>1. /\ tasks \in Seq(Tasks) /\ n \in Nat /\ n < MaxTasks /\ MaxTasks \in Nat
      /\ tasks' = Append(tasks, new)
      /\ UNCHANGED <<queue, failures, restarts>>
      /\ pending' \in {pending, pending \ {u}}
  BY BoundsAssumption DEF IInv, TypeOK, Receive
<1>2. new \in Tasks
  BY BoundsAssumption DEF Tasks, Waiting
<1>3. /\ tasks' \in Seq(Tasks) /\ Len(tasks') = n + 1
      /\ \A j \in 1..n : tasks'[j] = tasks[j]
      /\ tasks'[n + 1] = new
  BY <1>1, <1>2
<1>4. /\ tasks'[n + 1].stage = "new"
      /\ \A j \in 1..Len(tasks') : j \in 1..n \/ j = n + 1
      /\ \A j \in 1..n : j \in 1..Len(tasks')
  BY <1>1, <1>3
<1>5. TypeOK'
  BY <1>1, <1>3 DEF IInv, TypeOK
<1>6. LineExact'
  <2> SUFFICES ASSUME NEW c \in Chats PROVE LineOf(c)'
    BY DEF LineExact
  <2>1. LineOf(c) /\ queue'[c] = queue[c]
    BY <1>1 DEF IInv, LineExact
  <2>2. \A i \in 1..Len(queue[c]) : queue[c][i] \in 1..n
    BY <2>1 DEF LineOf
  <2>3. /\ \A i \in 1..Len(queue[c]) : tasks'[queue[c][i]] = tasks[queue[c][i]]
        /\ \A i \in 1..Len(queue[c]) : queue[c][i] \in 1..Len(tasks')
    BY <1>3, <1>4, <2>2
  <2>4. \A j \in 1..Len(tasks') :
           tasks'[j].stage \in {"lock", "ask"} => j \in 1..n /\ tasks'[j] = tasks[j]
    BY <1>3, <1>4
  <2>5. /\ \A i \in 1..Len(queue[c]) : tasks'[queue[c][i]].stage \in {"lock", "ask"}
                                        /\ Chat[tasks'[queue[c][i]].update] = c
        /\ Increasing(queue[c])
    BY <2>1, <2>3 DEF LineOf, Stage, ChatOf
  <2>6. \A j \in 1..Len(tasks') :
           tasks'[j].stage \in {"lock", "ask"} /\ Chat[tasks'[j].update] = c
           => \E i \in 1..Len(queue[c]) : queue[c][i] = j
    BY <2>1, <2>4 DEF LineOf, Stage, ChatOf
  <2> QED
    BY <2>1, <2>3, <2>5, <2>6 DEF LineOf, Increasing, Stage, ChatOf
<1>7. HeadAsks'
  BY <1>1, <1>3, <1>4 DEF IInv, HeadAsks, Stage, ChatOf
<1>8. NewLast'
  BY <1>1, <1>3, <1>4 DEF IInv, NewLast, Stage
<1>9. AskedInTurn'
  <2> SUFFICES ASSUME NEW t \in 1..Len(tasks'),
                      tasks'[t].stage \in {"ask", "send", "done", "failed"},
                      NEW j \in 1..(t - 1), Chat[tasks'[j].update] = Chat[tasks'[t].update]
               PROVE  tasks'[j].stage \notin Waiting
    BY DEF AskedInTurn, ChatOf
  <2>1. t \in 1..n /\ j \in 1..n
    BY <1>1, <1>4
  <2> QED
    BY <1>3, <2>1 DEF IInv, AskedInTurn, ChatOf
<1>10. PartsLeft'
  BY <1>3, <1>4 DEF IInv, PartsLeft, Stage
<1>11. HasTask'
  BY <1>1, <1>3, <1>4 DEF IInv, HasTask
<1> QED
  BY <1>5, <1>6, <1>7, <1>8, <1>9, <1>10, <1>11 DEF IInv

\* Whoever begins is the first of those that have not, so it is the last in its line.
LEMMA BeginInv == ASSUME IInv, NEW t \in 1..Len(tasks), Begin(t) PROVE IInv'
<1>1. /\ Stage(t) = "new"
      /\ \A j \in 1..(t - 1) : Stage(j) # "new"
      /\ UNCHANGED <<pending, failures, restarts>>
  BY DEF Begin, Stage
<1>2. /\ ChatOf(t) \in Chats /\ t \in Nat /\ Len(tasks) \in Nat
      /\ queue \in [Chats -> Seq(1..MaxTasks)] /\ t \in 1..MaxTasks
      /\ 0 \in 0..MaxParts
  BY TaskFacts, BoundsAssumption DEF IInv, TypeOK
<1>3. CASE tasks[t].update \in Refused
  <2>1. tasks' = Moved(t, "refused", 0) /\ queue' = queue
    BY <1>3 DEF Begin
  <2>2. "refused" \in Stages \ {"new", "ask", "lock"} /\ "refused" \notin Waiting
    BY DEF Stages, Over, Waiting
  <2>3. LineExact' /\ HeadAsks' /\ AskedInTurn'
    BY <1>1, <1>2, <2>1, <2>2, StayInLine, HeadsStay, TurnsStay
  <2>4. tasks' \in Seq(Tasks) /\ Len(tasks') <= MaxTasks /\ NewLast' /\ PartsLeft' /\ HasTask'
    BY <1>1, <1>2, <2>1, <2>2, OthersStay
  <2> QED
    BY <1>1, <2>1, <2>3, <2>4 DEF IInv, TypeOK
<1>4. CASE tasks[t].update \notin Refused
  <2> DEFINE c == ChatOf(t)
             q == queue[c]
  <2>1. tasks' = Moved(t, "lock", 0) /\ queue' = [queue EXCEPT ![c] = Append(@, t)]
    BY <1>4 DEF Begin
  <2>2. "lock" \in Stages \ {"new", "ask"}
    BY DEF Stages, Waiting
  <2>3. AskedInTurn'
    BY <1>1, <1>2, <2>1, <2>2, TurnsStay DEF Waiting
  <2>4. tasks' \in Seq(Tasks) /\ Len(tasks') <= MaxTasks /\ NewLast' /\ PartsLeft' /\ HasTask'
    BY <1>1, <1>2, <2>1, <2>2, OthersStay
  <2>5. /\ Len(tasks') = Len(tasks)
        /\ Stage(t)' = "lock"
        /\ \A j \in 1..Len(tasks) : ChatOf(j)' = ChatOf(j)
        /\ \A j \in 1..Len(tasks) : j # t => Stage(j)' = Stage(j)
    BY <1>2, <2>1, <2>2, MovedFacts DEF IInv
  <2>11. \A j \in 1..Len(tasks) :
           /\ tasks'[j].update = tasks[j].update
           /\ j # t => tasks'[j] = tasks[j]
    BY <1>2, <2>1, <2>2, MovedFacts DEF IInv
  <2>6. /\ q \in Seq(1..MaxTasks) /\ Len(q) \in Nat
        /\ Append(q, t) \in Seq(1..MaxTasks) /\ Len(Append(q, t)) = Len(q) + 1
        /\ \A i \in 1..Len(q) : Append(q, t)[i] = q[i]
        /\ Append(q, t)[Len(q) + 1] = t
    BY <1>2
  <2>7. /\ queue' \in [Chats -> Seq(1..MaxTasks)]
        /\ queue'[c] = Append(q, t)
        /\ \A d \in Chats : d # c => queue'[d] = queue[d]
    BY <1>2, <2>1, <2>6
  <2>8. \A d \in Chats : \A i \in 1..Len(queue[d]) : queue[d][i] # t /\ queue[d][i] < t
    <3> SUFFICES ASSUME NEW d \in Chats, NEW i \in 1..Len(queue[d])
                 PROVE  queue[d][i] # t /\ queue[d][i] < t
      OBVIOUS
    <3>1. queue[d][i] \in 1..Len(tasks) /\ Stage(queue[d][i]) \in {"lock", "ask"}
      BY DEF IInv, LineExact, LineOf
    <3>2. ~(t < queue[d][i])
      BY <1>1, <3>1 DEF IInv, NewLast
    <3>3. queue[d][i] # t
      BY <1>1, <3>1
    <3> QED
      BY <1>2, <3>1, <3>2, <3>3
  <2>9. ASSUME NEW d \in Chats PROVE LineOf(d)'
    <3>1. CASE d # c
      <4>1. LineOf(d) /\ queue'[d] = queue[d] /\ Len(tasks') = Len(tasks)
        BY <2>5, <2>7, <3>1 DEF IInv, LineExact
      <4>2. \A i \in 1..Len(queue[d]) : tasks'[queue[d][i]] = tasks[queue[d][i]]
        BY <2>8, <2>11, <4>1 DEF LineOf
      <4>3. \A j \in 1..Len(tasks) : Chat[tasks'[j].update] = d => tasks'[j] = tasks[j]
        BY <2>11, <3>1 DEF ChatOf
      <4>4. \A i \in 1..Len(queue[d]) : /\ queue[d][i] \in 1..Len(tasks)
                                         /\ tasks'[queue[d][i]].stage \in {"lock", "ask"}
                                         /\ Chat[tasks'[queue[d][i]].update] = d
        BY <4>1, <4>2 DEF LineOf, Stage, ChatOf
      <4>5. \A j \in 1..Len(tasks) :
               tasks'[j].stage \in {"lock", "ask"} /\ Chat[tasks'[j].update] = d
               => \E i \in 1..Len(queue[d]) : queue[d][i] = j
        BY <4>1, <4>3 DEF LineOf, Stage, ChatOf
      <4> QED
        BY <4>1, <4>4, <4>5 DEF LineOf, Increasing, Stage, ChatOf
    <3>2. CASE d = c
      <4>1. LineOf(c) /\ \A i \in 1..(Len(q) + 1) : i \in 1..Len(q) \/ i = Len(q) + 1
        BY <1>2, <2>6 DEF IInv, LineExact
      <4>2. Increasing(Append(q, t))
        BY <1>2, <2>6, <2>8, <4>1 DEF LineOf, Increasing
      <4>3. ASSUME NEW i \in 1..Len(Append(q, t))
            PROVE  /\ Append(q, t)[i] \in 1..Len(tasks)
                   /\ tasks'[Append(q, t)[i]].stage \in {"lock", "ask"}
                   /\ Chat[tasks'[Append(q, t)[i]].update] = c
        <5>1. CASE i \in 1..Len(q)
          <6>1. /\ q[i] \in 1..Len(tasks) /\ q[i] # t
                /\ Stage(q[i]) \in {"lock", "ask"} /\ ChatOf(q[i]) = c
            BY <1>2, <2>8, <4>1, <5>1 DEF LineOf
          <6> QED
            BY <2>6, <2>11, <5>1, <6>1 DEF Stage, ChatOf
        <5>2. CASE i = Len(q) + 1
          BY <2>5, <2>6, <2>11, <5>2 DEF Stage, ChatOf
        <5> QED
          BY <2>6, <4>1, <5>1, <5>2
      <4>4. ASSUME NEW j \in 1..Len(tasks),
                   tasks'[j].stage \in {"lock", "ask"}, Chat[tasks'[j].update] = c
            PROVE  \E i \in 1..Len(Append(q, t)) : Append(q, t)[i] = j
        <5>1. CASE j = t
          BY <2>6, <5>1
        <5>2. CASE j # t
          <6>1. Stage(j) \in {"lock", "ask"} /\ ChatOf(j) = c
            BY <2>11, <4>4, <5>2 DEF Stage, ChatOf
          <6>2. PICK i \in 1..Len(q) : q[i] = j
            BY <4>1, <6>1 DEF LineOf
          <6> QED
            BY <2>6, <6>2
        <5> QED
          BY <5>1, <5>2
      <4>5. queue'[d] = Append(q, t) /\ Len(tasks') = Len(tasks)
        BY <2>5, <2>7, <3>2
      <4> HIDE DEF q, c
      <4> QED
        BY <3>2, <4>2, <4>3, <4>4, <4>5 DEF LineOf, Increasing, Stage, ChatOf
    <3> QED
      BY <3>1, <3>2
  <2>10. HeadAsks'
    <3> SUFFICES ASSUME NEW j \in 1..Len(tasks), Stage(j)' = "ask"
                 PROVE  1 \in 1..Len(queue'[ChatOf(j)]) /\ queue'[ChatOf(j)][1] = j
      BY <2>5 DEF HeadAsks
    <3>1. j # t /\ Stage(j) = "ask"
      BY <2>5
    <3>2. 1 \in 1..Len(queue[ChatOf(j)]) /\ queue[ChatOf(j)][1] = j /\ ChatOf(j) \in Chats
      BY <3>1, TaskFacts DEF IInv, HeadAsks
    <3>3. CASE ChatOf(j) = c
      BY <2>6, <2>7, <3>2, <3>3
    <3>4. CASE ChatOf(j) # c
      BY <2>7, <3>2, <3>4
    <3> QED
      BY <3>3, <3>4
  <2> QED
    BY <1>1, <2>3, <2>4, <2>7, <2>9, <2>10 DEF IInv, TypeOK, LineExact
<1> QED
  BY <1>3, <1>4

\* The head of the line begins to ask.
LEMMA TypeInv == ASSUME IInv, NEW t \in 1..Len(tasks), Type(t) PROVE IInv'
<1>1. /\ Stage(t) = "lock" /\ Head(queue[ChatOf(t)]) = t
      /\ tasks' = Moved(t, "ask", 0)
      /\ UNCHANGED <<pending, queue, failures, restarts>>
  BY DEF Type, Stage
<1>2. "ask" \in Stages \ {"new"} /\ "ask" \in Waiting /\ "lock" \in Waiting /\ 0 \in 0..MaxParts
  BY BoundsAssumption DEF Stages, Waiting
<1>3. 1 \in 1..Len(queue[ChatOf(t)]) /\ queue[ChatOf(t)][1] = t
  BY <1>1, LineHead
<1>4. LineExact'
  BY <1>1, <1>2, StayInLine
<1>5. HeadAsks'
  <2>1. /\ Len(tasks') = Len(tasks)
        /\ \A j \in 1..Len(tasks) : ChatOf(j)' = ChatOf(j)
        /\ \A j \in 1..Len(tasks) : j # t => Stage(j)' = Stage(j)
    BY <1>1, <1>2, MovedFacts DEF IInv
  <2> QED
    BY <1>1, <1>3, <2>1 DEF IInv, HeadAsks
<1>6. \A j \in 1..(t - 1) : ChatOf(j) = ChatOf(t) => Stage(j) \notin Waiting
  BY <1>1, <1>3, HeadIsNext
<1>7. AskedInTurn'
  BY <1>1, <1>2, <1>6, TurnsStay
<1>8. tasks' \in Seq(Tasks) /\ Len(tasks') <= MaxTasks /\ NewLast' /\ PartsLeft' /\ HasTask'
  BY <1>1, <1>2, OthersStay
<1> QED
  BY <1>1, <1>4, <1>5, <1>7, <1>8 DEF IInv, TypeOK

\* A task that leaves the lock to send its answer, whether the agent was asked or not.
LEMMA LeaveInv ==
    ASSUME IInv, NEW t \in 1..Len(tasks), Stage(t) \in {"lock", "ask"},
           1 \in 1..Len(queue[ChatOf(t)]), queue[ChatOf(t)][1] = t,
           NEW n \in 1..MaxParts, tasks' = Moved(t, "send", n),
           queue' = [queue EXCEPT ![ChatOf(t)] = Tail(@)],
           failures' \in 0..MaxFailures, UNCHANGED <<pending, restarts>>
    PROVE  IInv'
<1>1. "send" \in Stages \ {"new"} /\ "send" \notin Waiting
  BY DEF Stages, Waiting
<1>2. LineExact' /\ HeadAsks' /\ queue' \in [Chats -> Seq(1..MaxTasks)]
  BY LeaveLine
<1>3. \A j \in 1..(t - 1) : ChatOf(j) = ChatOf(t) => Stage(j) \notin Waiting
  BY HeadIsNext
<1>4. AskedInTurn'
  BY <1>1, <1>3, TurnsStay
<1>5. tasks' \in Seq(Tasks) /\ Len(tasks') <= MaxTasks /\ NewLast' /\ PartsLeft' /\ HasTask'
  BY <1>1, OthersStay
<1> QED
  BY <1>2, <1>4, <1>5 DEF IInv, TypeOK

LEMMA TypeFailsInv == ASSUME IInv, NEW t \in 1..Len(tasks), TypeFails(t) PROVE IInv'
<1>1. /\ Stage(t) = "lock" /\ Head(queue[ChatOf(t)]) = t
      /\ tasks' = Moved(t, "send", 1)
      /\ queue' = [queue EXCEPT ![ChatOf(t)] = Tail(@)]
      /\ UNCHANGED <<pending, restarts>>
  BY DEF TypeFails, Stage
<1>2. 1 \in 1..MaxParts /\ failures' \in 0..MaxFailures
  BY BoundsAssumption DEF TypeFails, IInv, TypeOK
<1>3. 1 \in 1..Len(queue[ChatOf(t)]) /\ queue[ChatOf(t)][1] = t
  BY <1>1, LineHead
<1> QED
  BY <1>1, <1>2, <1>3, LeaveInv

LEMMA AnswerInv == ASSUME IInv, NEW t \in 1..Len(tasks), Answer(t) PROVE IInv'
<1>1. PICK n \in 1..MaxParts : tasks' = Moved(t, "send", n)
  BY DEF Answer
<1>2. /\ Stage(t) = "ask"
      /\ queue' = [queue EXCEPT ![ChatOf(t)] = Tail(@)]
      /\ UNCHANGED <<pending, failures, restarts>>
  BY DEF Answer, Stage
<1>3. failures' \in 0..MaxFailures
  BY <1>2, BoundsAssumption DEF IInv, TypeOK
<1>4. 1 \in 1..Len(queue[ChatOf(t)]) /\ queue[ChatOf(t)][1] = t
  BY <1>2 DEF IInv, HeadAsks
<1> QED
  BY <1>1, <1>2, <1>3, <1>4, LeaveInv

\* A task whose turn is over goes on, or ends, outside the lock.
LEMMA SentInv ==
    ASSUME IInv, NEW t \in 1..Len(tasks), Stage(t) = "send",
           NEW s \in {"send", "done", "failed"}, NEW n \in 0..MaxParts,
           tasks' = Moved(t, s, n), s = "done" => n = 0, s = "send" => n # 0,
           failures' \in 0..MaxFailures, UNCHANGED <<pending, queue, restarts>>
    PROVE  IInv'
<1>1. s \in Stages \ {"new", "ask"} /\ s \notin Waiting /\ s \notin {"lock", "ask"}
  BY DEF Stages, Waiting, Over
<1>2. LineExact'
  BY <1>1, StayInLine
<1>3. HeadAsks'
  BY <1>1, HeadsStay
<1>4. \A j \in 1..(t - 1) : ChatOf(j) = ChatOf(t) => Stage(j) \notin Waiting
  BY DEF IInv, AskedInTurn, Stage
<1>5. AskedInTurn'
  BY <1>1, <1>4, TurnsStay
<1>6. tasks' \in Seq(Tasks) /\ Len(tasks') <= MaxTasks /\ NewLast' /\ PartsLeft' /\ HasTask'
  BY <1>1, OthersStay
<1> QED
  BY <1>2, <1>3, <1>5, <1>6 DEF IInv, TypeOK

LEMMA SendInv == ASSUME IInv, NEW t \in 1..Len(tasks), Send(t) PROVE IInv'
<1> DEFINE left == tasks[t].left - 1
<1>1. /\ Stage(t) = "send"
      /\ tasks' = Moved(t, IF left = 0 THEN "done" ELSE "send", left)
      /\ UNCHANGED <<pending, queue, failures, restarts>>
  BY DEF Send, Stage
<1>2. left \in 0..MaxParts
  <2>1. tasks[t].left \in 0..MaxParts /\ tasks[t].left # 0
    BY <1>1, TaskFacts DEF IInv, PartsLeft
  <2> QED
    BY <2>1, BoundsAssumption
<1>3. failures' \in 0..MaxFailures
  BY <1>1 DEF IInv, TypeOK
<1>4. CASE left = 0
  BY <1>1, <1>2, <1>3, <1>4, SentInv
<1>5. CASE left # 0
  BY <1>1, <1>2, <1>3, <1>5, SentInv
<1> QED
  BY <1>4, <1>5

LEMMA SendFailsInv == ASSUME IInv, NEW t \in 1..Len(tasks), SendFails(t) PROVE IInv'
<1>1. /\ Stage(t) = "send"
      /\ tasks' = Moved(t, "failed", tasks[t].left)
      /\ UNCHANGED <<pending, queue, restarts>>
  BY DEF SendFails, Stage
<1>2. tasks[t].left \in 0..MaxParts /\ failures' \in 0..MaxFailures
  BY TaskFacts, BoundsAssumption DEF SendFails, IInv, TypeOK
<1> QED
  BY <1>1, <1>2, SentInv

\* A restart leaves only tasks that are over, and no line.
LEMMA RestartInv == ASSUME IInv, Restart PROVE IInv'
<1>1. /\ tasks \in Seq(Tasks) /\ Len(tasks) \in Nat /\ Len(tasks) <= MaxTasks
      /\ queue' = [c \in Chats |-> <<>>]
      /\ UNCHANGED <<pending, failures>>
      /\ restarts' \in 0..MaxRestarts
  BY BoundsAssumption DEF IInv, TypeOK, Restart
<1>2. \A t \in 1..Len(tasks) : tasks[t] \in Tasks /\ [tasks[t] EXCEPT !.stage = "cancelled"] \in Tasks
  <2> SUFFICES ASSUME NEW t \in 1..Len(tasks)
               PROVE  tasks[t] \in Tasks /\ [tasks[t] EXCEPT !.stage = "cancelled"] \in Tasks
    OBVIOUS
  <2>1. tasks[t] \in Tasks
    BY <1>1
  <2> QED
    BY <2>1 DEF Tasks, Over
<1> DEFINE over(t) == IF tasks[t].stage \in Over THEN tasks[t]
                      ELSE [tasks[t] EXCEPT !.stage = "cancelled"]
<1>3. tasks' = [t \in 1..Len(tasks) |-> over(t)]
  BY DEF Restart
<1>4. \A t \in 1..Len(tasks) : over(t) \in Tasks
  BY <1>2
<1>5. /\ tasks' \in Seq(Tasks) /\ Len(tasks') = Len(tasks)
      /\ \A t \in 1..Len(tasks) : tasks'[t] = over(t)
  BY <1>1, <1>3, <1>4
<1>6. \A t \in 1..Len(tasks) :
        /\ tasks'[t].stage \in Over
        /\ tasks'[t].update = tasks[t].update
        /\ tasks'[t].stage = "done" => tasks[t].stage = "done" /\ tasks'[t].left = tasks[t].left
  <2> SUFFICES ASSUME NEW t \in 1..Len(tasks)
               PROVE  /\ over(t).stage \in Over
                      /\ over(t).update = tasks[t].update
                      /\ over(t).stage = "done"
                         => tasks[t].stage = "done" /\ over(t).left = tasks[t].left
    BY <1>5
  <2>1. tasks[t] \in Tasks
    BY <1>2
  <2> QED
    BY <2>1 DEF Tasks, Over
<1>7. Over \cap (Waiting \cup {"send"}) = {}
  BY DEF Over, Waiting
<1>8. TypeOK'
  BY <1>1, <1>5 DEF IInv, TypeOK
<1>9. LineExact'
  <2> SUFFICES ASSUME NEW c \in Chats PROVE LineOf(c)'
    BY DEF LineExact
  <2>1. queue'[c] = <<>> /\ Len(queue'[c]) = 0
    BY <1>1
  <2>2. \A t \in 1..Len(tasks') : tasks'[t].stage \notin {"lock", "ask"}
    BY <1>5, <1>6, <1>7 DEF Waiting
  <2> QED
    BY <2>1, <2>2 DEF LineOf, Increasing, Stage
<1>10. HeadAsks' /\ NewLast' /\ AskedInTurn'
  BY <1>1, <1>5, <1>6, <1>7 DEF HeadAsks, NewLast, AskedInTurn, Stage, Waiting
<1>11. PartsLeft'
  BY <1>5, <1>6, <1>7 DEF IInv, PartsLeft, Stage
<1>12. HasTask'
  BY <1>1, <1>5, <1>6 DEF IInv, HasTask
<1> QED
  BY <1>8, <1>9, <1>10, <1>11, <1>12 DEF IInv

LEMMA NextInv == IInv /\ [Next]_vars => IInv'
<1> SUFFICES ASSUME IInv, [Next]_vars PROVE IInv'
  OBVIOUS
<1>1. CASE \E u \in Updates : Receive(u)
  BY <1>1, ReceiveInv
<1>2. CASE \E t \in 1..Len(tasks) : Step(t) \/ TypeFails(t) \/ SendFails(t)
  BY <1>2, BeginInv, TypeInv, AnswerInv, SendInv, TypeFailsInv, SendFailsInv DEF Step
<1>3. CASE Restart
  BY <1>3, RestartInv
<1>4. CASE UNCHANGED vars
  BY <1>4 DEF vars, IInv, TypeOK, LineExact, LineOf, Increasing, HeadAsks, NewLast, AskedInTurn,
              PartsLeft, HasTask, Stage, ChatOf, Tasks
<1> QED
  BY <1>1, <1>2, <1>3, <1>4 DEF Next

\* The inductive invariant holds in every state.
LEMMA Invariance == Spec => []IInv
<1> QED
  BY InitInv, NextInv, PTL DEF Spec

-----------------------------------------------------------------------------
(* Theorems                                                                *)

\* The agent of a chat is asked about one update at a time and in the order of the posts,
\* however tasks interleave, fail and restart: asyncio.Lock is first come, first served.
THEOREM AskedInOrder == Spec => []AskedInTurn
<1>1. IInv => AskedInTurn
  BY DEF IInv
<1> QED
  BY <1>1, Invariance, PTL

\* No update is lost but with a task that was refused, failed or was cancelled.
THEOREM LostOnlyWithTask == Spec => []LostWithItsTask
<1>1. IInv => LostWithItsTask
  <2> SUFFICES ASSUME IInv, NEW u \in Updates \ pending
               PROVE  \E t \in {k \in 1..Len(tasks) : tasks[k].update = u} :
                         \/ tasks[t].stage \in {"refused", "failed", "cancelled"}
                         \/ tasks[t].stage = "done" /\ tasks[t].left = 0
                         \/ tasks[t].stage \notin Over
    BY DEF IInv, LostWithItsTask
  <2>1. PICK t \in 1..Len(tasks) : tasks[t].update = u
    BY DEF IInv, HasTask
  <2>2. tasks[t].stage = "done" => tasks[t].left = 0
    BY DEF IInv, PartsLeft, Stage
  <2> QED
    BY <2>1, <2>2 DEF Over
<1> QED
  BY <1>1, Invariance, PTL

-----------------------------------------------------------------------------
(* The webhook: nobody is stuck                                            *)

\* A set of numbers has a least one.
LEMMA LeastOf == ASSUME NEW T \in SUBSET Nat, T # {} PROVE \E n \in T : \A k \in T : n <= k
<1>1. PICK n \in T : \A k \in T : ~ (<<k, n>> \in OpToRel(<, Nat))
  BY NatLessThanWellFounded, WFMin, Zenon
<1>2. \A k \in T : k < n => <<k, n>> \in OpToRel(<, Nat)
  BY DEF OpToRel
<1>3. \A k \in T : ~(k < n)
  BY <1>1, <1>2, Zenon
<1>4. \A k \in T : k \in Nat /\ n \in Nat
  OBVIOUS
<1> QED
  BY <1>3, <1>4

\* The task can take its next step.
CanGoOn(t) ==
    \/ Stage(t) = "new" /\ \A j \in 1..(t - 1) : Stage(j) # "new"
    \/ Stage(t) = "lock" /\ Head(queue[ChatOf(t)]) = t
    \/ Stage(t) \in {"ask", "send"}

\* A task under way can go on, or waits for a task made before it, or for the head of its chat's line,
\* a task of the chat; and that one can.
NobodyStuck ==
    \A t \in 1..Len(tasks) : Stage(t) \notin Over =>
        \/ CanGoOn(t)
        \/ Stage(t) = "new" /\ \E j \in 1..(t - 1) : CanGoOn(j)
        \/ \E j \in 1..Len(tasks) : ChatOf(j) = ChatOf(t) /\ Head(queue[ChatOf(t)]) = j /\ CanGoOn(j)

\* Neither a failing typing action nor a failing agent, a stop or an earlier task leaves anybody waiting
\* for what does not come.
THEOREM NobodyIsStuck == Spec => []NobodyStuck
<1>1. IInv => NobodyStuck
  <2> SUFFICES ASSUME IInv, NEW t \in 1..Len(tasks), Stage(t) \notin Over, ~CanGoOn(t)
               PROVE  \/ Stage(t) = "new" /\ \E j \in 1..(t - 1) : CanGoOn(j)
                      \/ \E j \in 1..Len(tasks) :
                            ChatOf(j) = ChatOf(t) /\ Head(queue[ChatOf(t)]) = j /\ CanGoOn(j)
    BY DEF NobodyStuck
  <2>1. Stage(t) \in {"new", "lock"}
    <3>1. Stage(t) \in Stages
      BY TaskFacts DEF IInv
    <3> QED
      BY <3>1 DEF Stages, Waiting, CanGoOn
  <2>2. CASE Stage(t) = "new"
    <3> DEFINE begun == {j \in 1..t : Stage(j) = "new"}
    <3>1. t \in Nat /\ t \in begun /\ begun \subseteq Nat
      BY <2>2, TaskFacts DEF IInv
    <3>2. PICK j \in begun : \A k \in begun : j <= k
      BY <3>1, LeastOf
    <3>3. j \in 1..t /\ j \in Nat /\ Stage(j) = "new"
      BY <3>1, <3>2
    <3>4. \A k \in 1..(j - 1) : k \in 1..t /\ ~(j <= k)
      BY <3>1, <3>3
    <3>5. \A k \in 1..(j - 1) : Stage(k) # "new"
      BY <3>2, <3>4
    <3>6. CanGoOn(j)
      BY <3>3, <3>5 DEF CanGoOn
    <3>7. j # t
      BY <3>6
    <3>8. j \in 1..(t - 1)
      BY <3>1, <3>3, <3>7
    <3> QED
      BY <2>2, <3>6, <3>8
  <2>3. CASE Stage(t) = "lock"
    <3> DEFINE c == ChatOf(t)
    <3>1. c \in Chats /\ queue[c] \in Seq(1..MaxTasks)
      BY TaskFacts DEF IInv
    <3>2. \E i \in 1..Len(queue[c]) : queue[c][i] = t
      BY <2>3, <3>1 DEF IInv, LineExact, LineOf
    <3>3. 1 \in 1..Len(queue[c]) /\ Head(queue[c]) = queue[c][1]
      BY <3>1, <3>2
    <3> DEFINE j == queue[c][1]
    <3>4. j \in 1..Len(tasks) /\ Stage(j) \in {"lock", "ask"} /\ ChatOf(j) = c
      BY <3>1, <3>3 DEF IInv, LineExact, LineOf
    <3>5. Head(queue[c]) = j
      BY <3>3
    <3>6. CanGoOn(j)
      BY <3>4, <3>5 DEF CanGoOn
    <3> QED
      BY <3>4, <3>5, <3>6
  <2> QED
    BY <2>1, <2>2, <2>3
<1> QED
  BY <1>1, Invariance, PTL

\* How far a task has come; the parts still to be sent are steps to go.
Reached(task) ==
    CASE task.stage = "new" -> 0
      [] task.stage = "lock" -> 1
      [] task.stage = "ask" -> 2
      [] task.stage = "send" -> 3 + (MaxParts - task.left)
      [] OTHER -> 4 + MaxParts

\* No step takes a task back, a step of its own takes it further, and one that is over stays so: with
\* NobodyStuck, what TasksEnd needs besides fairness.
TasksGoForward ==
    [][\A t \in 1..Len(tasks) :
          /\ tasks'[t] = tasks[t] \/ Reached(tasks[t]) < Reached(tasks'[t])
          /\ Step(t) \/ TypeFails(t) \/ SendFails(t) => tasks'[t] # tasks[t]
          /\ Stage(t) \in Over => tasks'[t] = tasks[t]]_vars

\* The step of one task.
LEMMA OneGoesForward ==
    ASSUME IInv, NEW t \in 1..Len(tasks), Step(t) \/ TypeFails(t) \/ SendFails(t)
    PROVE  /\ Reached(tasks[t]) < Reached(tasks'[t]) /\ Stage(t) \notin Over
           /\ \A j \in 1..Len(tasks) : j # t => tasks'[j] = tasks[j]
<1>0. TypeOK /\ tasks[t].left \in 0..MaxParts /\ MaxParts \in Nat \ {0}
      /\ (Stage(t) = "send" => tasks[t].left # 0)
  BY TaskFacts, BoundsAssumption DEF IInv, PartsLeft
<1> USE DEF Stage
<1>1. PICK g \in Stages, n \in 0..MaxParts :
          /\ tasks' = Moved(t, g, n)
          /\ \/ Stage(t) = "new" /\ g \in {"lock", "refused"}
             \/ Stage(t) = "lock" /\ (g = "ask" \/ (g = "send" /\ n = 1))
             \/ Stage(t) = "ask" /\ g = "send"
             \/ Stage(t) = "send" /\ g = "send" /\ n = tasks[t].left - 1
             \/ Stage(t) = "send" /\ g \in {"done", "failed"}
  <2> USE DEF Stages, Waiting, Over
  <2>0. 0 \in 0..MaxParts /\ 1 \in 0..MaxParts /\ 1..MaxParts \subseteq 0..MaxParts
    BY <1>0
  <2>1. CASE Begin(t)
    BY <2>0, <2>1 DEF Begin
  <2>2. CASE Type(t)
    BY <2>0, <2>2 DEF Type
  <2>3. CASE TypeFails(t)
    BY <2>0, <2>3 DEF TypeFails
  <2>4. CASE Answer(t)
    BY <2>0, <2>4 DEF Answer
  <2>5. CASE Send(t)
    <3>1. tasks[t].left - 1 \in 0..MaxParts
      BY <1>0, <2>5 DEF Send
    <3> QED
      BY <2>5, <3>1 DEF Send
  <2>6. CASE SendFails(t)
    BY <1>0, <2>6 DEF SendFails
  <2> QED
    BY <2>1, <2>2, <2>3, <2>4, <2>5, <2>6 DEF Step
<1>2. /\ tasks'[t].stage = g /\ tasks'[t].left = n
      /\ \A j \in 1..Len(tasks) : j # t => tasks'[j] = tasks[j]
  BY <1>0, <1>1, MovedFacts
<1> DEFINE a == tasks[t]
           b == tasks'[t]
<1>3. a.left \in Int /\ n \in Int /\ MaxParts \in Int /\ a.left <= MaxParts /\ n <= MaxParts /\ 0 <= n /\ 0 <= a.left
  BY <1>0, <1>1
<1>4. b.stage = g /\ b.left = n
  BY <1>2
<1> HIDE DEF a, b
<1>5. Reached(a) < Reached(b)
  <2>1. CASE a.stage = "send" /\ b.stage = "send" /\ b.left = a.left - 1
    <3>1. Reached(a) = 3 + (MaxParts - a.left) /\ Reached(b) = 3 + (MaxParts - (a.left - 1))
      BY <2>1 DEF Reached
    <3> QED
      BY <1>3, <3>1
  <2>2. CASE a.stage = "send" /\ b.stage \in {"done", "failed"}
    BY <1>3, <2>2 DEF Reached
  <2>3. CASE a.stage \in {"lock", "ask"} /\ b.stage = "send"
    BY <1>3, <1>4, <2>3 DEF Reached
  <2>4. CASE (a.stage = "lock" /\ b.stage = "ask") \/ (a.stage = "new" /\ b.stage \in {"lock", "refused"})
    BY <1>3, <2>4 DEF Reached
  <2> QED
    BY <1>1, <1>4, <2>1, <2>2, <2>3, <2>4 DEF a
<1>6. Stage(t) \notin Over
  BY <1>1 DEF Over
<1> QED
  BY <1>2, <1>5, <1>6 DEF a, b

\* A task takes at most MaxParts + 4 steps.
THEOREM TasksAdvance == Spec => TasksGoForward
<1>1. ASSUME IInv, [Next]_vars
      PROVE  [\A t \in 1..Len(tasks) :
                 /\ tasks'[t] = tasks[t] \/ Reached(tasks[t]) < Reached(tasks'[t])
                 /\ Step(t) \/ TypeFails(t) \/ SendFails(t) => tasks'[t] # tasks[t]
                 /\ Stage(t) \in Over => tasks'[t] = tasks[t]]_vars
  <2> SUFFICES ASSUME Next, NEW t \in 1..Len(tasks)
               PROVE  /\ tasks'[t] = tasks[t] \/ Reached(tasks[t]) < Reached(tasks'[t])
                      /\ Step(t) \/ TypeFails(t) \/ SendFails(t) => tasks'[t] # tasks[t]
                      /\ Stage(t) \in Over => tasks'[t] = tasks[t]
    BY <1>1
  <2>0. /\ tasks \in Seq(Tasks) /\ tasks[t] \in Tasks /\ Len(tasks) \in Nat
        /\ tasks[t].left \in 0..MaxParts /\ Reached(tasks[t]) \in Int
    <3>1. /\ tasks \in Seq(Tasks) /\ tasks[t] \in Tasks /\ Len(tasks) \in Nat
          /\ tasks[t].left \in 0..MaxParts /\ MaxParts \in Int
      BY <1>1, TaskFacts, BoundsAssumption DEF IInv
    <3> QED
      BY <3>1 DEF Reached
  <2>1. Step(t) \/ TypeFails(t) \/ SendFails(t) => tasks'[t] # tasks[t]
    BY <1>1, <2>0, OneGoesForward
  <2>2. ASSUME NEW j \in 1..Len(tasks), Step(j) \/ TypeFails(j) \/ SendFails(j)
        PROVE  /\ tasks'[t] = tasks[t] \/ Reached(tasks[t]) < Reached(tasks'[t])
               /\ Stage(t) \in Over => tasks'[t] = tasks[t]
    <3>1. CASE j = t
      BY <1>1, <2>2, <3>1, OneGoesForward
    <3>2. CASE j # t
      BY <1>1, <2>2, <3>2, OneGoesForward
    <3> QED
      BY <3>1, <3>2
  <2>3. ASSUME NEW u \in Updates, Receive(u) PROVE tasks'[t] = tasks[t]
    <3>1. PICK n : tasks' = Append(tasks, n)
      BY <2>3 DEF Receive
    <3> QED
      BY <2>0, <3>1
  <2>4. ASSUME Restart
        PROVE  /\ tasks'[t] = tasks[t] \/ Reached(tasks[t]) < Reached(tasks'[t])
               /\ Stage(t) \in Over => tasks'[t] = tasks[t]
    <3>1. tasks'[t] = IF tasks[t].stage \in Over THEN tasks[t] ELSE [tasks[t] EXCEPT !.stage = "cancelled"]
      BY <2>0, <2>4 DEF Restart
    <3>2. CASE tasks[t].stage \in Over
      BY <3>1, <3>2
    <3>3. CASE tasks[t].stage \notin Over
      <4>1. tasks'[t].stage = "cancelled"
        BY <2>0, <3>1, <3>3 DEF Tasks
      <4>2. Reached(tasks'[t]) = 4 + MaxParts
        BY <4>1 DEF Reached
      <4>3. tasks[t].stage \in {"new", "lock", "ask", "send"}
        BY <2>0, <3>3 DEF Tasks, Waiting
      <4>4. Reached(tasks[t]) < 4 + MaxParts
        BY <2>0, <4>3, BoundsAssumption DEF Reached
      <4> QED
        BY <3>3, <4>2, <4>4 DEF Stage
    <3> QED
      BY <3>2, <3>3
  <2> QED
    BY <2>1, <2>2, <2>3, <2>4 DEF Next
<1> QED
  BY <1>1, Invariance, PTL DEF Spec, TasksGoForward

-----------------------------------------------------------------------------
(* The polling bot: the inductive invariant                                *)

\* Message i is one of answer a to update u.
OfAnswer(i, u, a) == sent[i].upd = u /\ sent[i].ask = a

\* The user of update u got every message of one answer, or gets none.
Whole(u) ==
    \E i \in 1..Len(sent) :
        /\ sent[i].upd = u
        /\ \A p \in 1..sent[i].of :
              \E j \in 1..Len(sent) : OfAnswer(j, u, sent[i].ask) /\ sent[j].part = p

Closed(u) == kind[u] = "skip" \/ Whole(u)

\* A message is one of an answer to an update that arrived; a refusal has one message.
MessagesFit ==
    \A i \in 1..Len(sent) :
        /\ sent[i].upd <= Arrived /\ sent[i].ask <= asks[sent[i].upd]
        /\ sent[i].part <= sent[i].of
        /\ kind[sent[i].upd] = "long" => sent[i].of = 1

\* The messages of one answer agree on how many they are.
OneLength ==
    \A i, j \in 1..Len(sent) :
        OfAnswer(j, sent[i].upd, sent[i].ask) => sent[i].of = sent[j].of

\* The batch has no gap.
BatchRuns == \A i \in 1..Len(batch) : batch[i] = batch[1] + (i - 1)

\* What the bot or the server is past was answered in full.
PastClosed ==
    \A u \in 1..Arrived :
        u < offset \/ u < confirmed \/ (batch # <<>> /\ u < batch[1]) => Closed(u)

\* The answer being sent: the messages before this one arrived, and none after it.
Sending ==
    stage = "send" /\ kind[batch[1]] # "blocked" =>
        /\ kind[batch[1]] # "skip"
        /\ kind[batch[1]] = "long" => parts = 1
        /\ \A i \in 1..Len(sent) :
              OfAnswer(i, batch[1], asks[batch[1]]) => sent[i].of = parts
        /\ \A p \in 1..(part - 1) :
              \E i \in 1..Len(sent) : OfAnswer(i, batch[1], asks[batch[1]]) /\ sent[i].part = p

BotInv ==
    /\ BotTypeOK /\ MessagesFit /\ OneLength /\ BatchRuns /\ PastClosed /\ Sending
    /\ FirstInOrder /\ PartsInOrder

-----------------------------------------------------------------------------
(* The polling bot: types                                                  *)

\* The first element of a sequence.
LEMMA FirstOf ==
    ASSUME NEW S, NEW q \in Seq(S), q # <<>>
    PROVE  Len(q) \in Nat \ {0} /\ Head(q) = q[1] /\ q[1] \in S
OBVIOUS

\* A sequence is one over a larger set.
LEMMA SeqWidens ==
    ASSUME NEW S, NEW T, S \subseteq T, NEW q \in Seq(S)
    PROVE  q \in Seq(T)
<1>1. Len(q) \in Nat /\ q \in [1..Len(q) -> T]
  OBVIOUS
<1> QED
  BY <1>1

\* A function on 1..n is a sequence.
LEMMA FunctionIsSeq ==
    ASSUME NEW S, NEW n \in Nat, NEW q \in [1..n -> S]
    PROVE  q \in Seq(S) /\ Len(q) = n
OBVIOUS

\* What the type invariant says of the sequences.
LEMMA BotSeqs ==
    ASSUME BotTypeOK
    PROVE  /\ kind \in Seq(Kinds) /\ Arrived \in Nat
           /\ sent \in Seq(Messages) /\ Len(sent) \in Nat
           /\ batch \in Seq(1..Arrived) /\ Len(batch) \in Nat
           /\ \A i \in 1..Len(sent) : sent[i] \in Messages
           /\ \A i \in 1..Len(batch) : batch[i] \in 1..Arrived
           /\ \A u \in 1..Arrived : kind[u] \in Kinds /\ u \in UpdateIds
BY LimitsAssumption DEF BotTypeOK, Arrived, UpdateIds

\* The update at hand.
LEMMA AtHand ==
    ASSUME BotTypeOK, stage \in {"look", "send"}
    PROVE  /\ Len(batch) \in Nat \ {0} /\ batch # <<>> /\ 1 \in 1..Len(batch)
           /\ Current = batch[1] /\ Current \in 1..Arrived /\ Current \in UpdateIds
           /\ kind[Current] \in Kinds
<1>1. batch # <<>> /\ batch \in Seq(1..Arrived)
  BY DEF BotTypeOK
<1>2. Len(batch) \in Nat \ {0} /\ Current = batch[1] /\ batch[1] \in 1..Arrived
  BY <1>1, FirstOf DEF Current
<1> QED
  BY <1>1, <1>2, BotSeqs

\* The bot goes on to the next update: what is left of the batch.
LEMMA AdvanceFacts ==
    ASSUME BotTypeOK, stage \in {"look", "send"}, Advance
    PROVE  /\ offset' \in 0..(Arrived + 1) /\ offset' >= Current + 1
           /\ offset' = offset \/ offset' = Current + 1
           /\ batch' \in Seq(1..Arrived) /\ Len(batch') = Len(batch) - 1
           /\ \A i \in 1..Len(batch') : batch'[i] = batch[i + 1]
           /\ stage' \in {"poll", "look"} /\ (stage' = "look" => batch' # <<>>)
<1>1. /\ batch \in Seq(1..Arrived) /\ batch # <<>> /\ Current \in 1..Arrived /\ Arrived \in Nat
      /\ offset \in 0..(Arrived + 1)
  BY AtHand, BotSeqs DEF BotTypeOK
<1>2. offset' = IF offset > Current + 1 THEN offset ELSE Current + 1
  BY DEF Advance, Larger
<1>3. batch' = Tail(batch) /\ stage' = (IF Tail(batch) = <<>> THEN "poll" ELSE "look")
  BY DEF Advance
<1>4. /\ batch' \in Seq(1..Arrived) /\ Len(batch') = Len(batch) - 1
      /\ \A i \in 1..Len(batch') : batch'[i] = batch[i + 1]
  BY <1>1, <1>3
<1> QED
  BY <1>1, <1>2, <1>3, <1>4

\* The answer of getUpdates: what the server has, from the offset on.
LEMMA PollFacts ==
    ASSUME BotTypeOK, Poll
    PROVE  /\ confirmed' \in 0..(Arrived + 1) /\ (confirmed' = confirmed \/ confirmed' = offset)
           /\ batch' \in Seq(1..Arrived)
           /\ \A i \in 1..Len(batch') : batch'[i] = batch'[1] + (i - 1)
           /\ batch' # <<>> => \A u \in 1..Arrived : u < batch'[1] => u < offset \/ u < confirmed \/ u < confirmed'
           /\ stage' \in {"poll", "look"} /\ (stage' = "look" => batch' # <<>>)
<1> DEFINE first == Larger(1, Larger(confirmed, offset))
           n == (Arrived + 1) - first
<1>1. Arrived \in Nat /\ confirmed \in 0..(Arrived + 1) /\ offset \in 0..(Arrived + 1)
  BY BotSeqs DEF BotTypeOK
<1>2. confirmed' = confirmed \/ confirmed' = offset
  BY DEF Poll, Confirm, Larger
<1>3. /\ first \in 1..(Arrived + 1) /\ n \in Nat
      /\ first = 1 \/ first = confirmed \/ first = offset
  BY <1>1 DEF Larger
<1>4. batch' = [i \in 1..n |-> first + i - 1]
  BY DEF Poll, Available
<1> HIDE DEF first
<1>5. batch' \in Seq(1..Arrived) /\ Len(batch') = n
  <2>1. \A i \in 1..n : first + i - 1 \in 1..Arrived
    BY <1>1, <1>3
  <2>2. batch' \in [1..n -> 1..Arrived]
    BY <1>4, <2>1
  <2> QED
    BY <1>3, <2>2, FunctionIsSeq
<1>6. \A i \in 1..Len(batch') : batch'[i] = first + i - 1
  BY <1>4, <1>5
<1>7. \A i \in 1..Len(batch') : batch'[i] = batch'[1] + (i - 1)
  <2>1. SUFFICES ASSUME NEW i \in 1..Len(batch')
                 PROVE  batch'[i] = batch'[1] + (i - 1)
    OBVIOUS
  <2>2. batch'[i] = first + i - 1
    BY <1>6
  <2>3. 1 \in 1..Len(batch')
    BY <1>3, <1>5
  <2>4. batch'[1] = first + 1 - 1
    BY <1>6, <2>3
  <2> QED
    BY <1>1, <1>3, <2>2, <2>4
<1>8. ASSUME batch' # <<>>
      PROVE  batch'[1] = first
  <2>1. Len(batch') # 0
    BY <1>5, <1>8
  <2> QED
    BY <1>3, <1>5, <1>6, <2>1
<1>9. batch' # <<>> => \A u \in 1..Arrived : u < batch'[1] => u < offset \/ u < confirmed
  BY <1>1, <1>3, <1>8
<1>10. stage' = (IF batch' = <<>> THEN "poll" ELSE "look")
  BY DEF Poll
<1> QED
  BY <1>1, <1>2, <1>5, <1>7, <1>9, <1>10

\* A message as it is delivered.
LEMMA DeliverFacts ==
    ASSUME BotTypeOK, stage = "send", Deliver
    PROVE  /\ sent' \in Seq(Messages) /\ Len(sent') = Len(sent) + 1
           /\ \A i \in 1..Len(sent) : sent'[i] = sent[i]
           /\ sent'[Len(sent) + 1] = [upd |-> Current, ask |-> asks[Current], part |-> part, of |-> parts]
<1> DEFINE m == [upd |-> Current, ask |-> asks[Current], part |-> part, of |-> parts]
<1>1. Current \in UpdateIds /\ asks[Current] \in Nat
  BY AtHand DEF BotTypeOK
<1>2. parts \in 1..MaxMessages /\ part \in 1..MaxMessages
  BY LimitsAssumption DEF BotTypeOK
<1>3. m \in Messages
  BY <1>1, <1>2 DEF Messages
<1>4. sent \in Seq(Messages) /\ sent' = Append(sent, m)
  BY DEF BotTypeOK, Deliver
<1> HIDE DEF m
<1>5. /\ sent' \in Seq(Messages) /\ Len(sent') = Len(sent) + 1
      /\ \A i \in 1..Len(sent) : sent'[i] = sent[i]
      /\ sent'[Len(sent) + 1] = m
  BY <1>3, <1>4
<1> QED
  BY <1>5 DEF m

LEMMA BotTypeInv ==
    ASSUME BotTypeOK, [BotNext]_allVars
    PROVE  BotTypeOK'
<1> USE LimitsAssumption
<1>1. CASE UNCHANGED allVars
  BY <1>1 DEF BotTypeOK, allVars, botVars, Arrived
<1>2. ASSUME NEW k \in Kinds, Arrive(k)
      PROVE  BotTypeOK'
  <2>1. kind \in Seq(Kinds) /\ kind' = Append(kind, k) /\ Len(kind) < MaxUpdates
    BY <1>2 DEF Arrive, BotTypeOK, Arrived
  <2>2. kind' \in Seq(Kinds) /\ Arrived' = Arrived + 1 /\ Arrived \in Nat /\ Len(kind') <= MaxUpdates
    BY <2>1 DEF Arrived
  <2>3. batch' = batch /\ batch \in Seq(1..Arrived) /\ batch \in Seq(1..(Arrived + 1))
    <3>1. batch \in Seq(1..Arrived) /\ batch' = batch
      BY <1>2 DEF Arrive, BotTypeOK, botVars
    <3>2. 1..Arrived \subseteq 1..(Arrived + 1)
      BY <2>2
    <3> QED
      BY <3>1, <3>2, SeqWidens
  <2>4. confirmed' \in 0..(Arrived' + 1) /\ offset' \in 0..(Arrived' + 1)
    BY <1>2, <2>2 DEF Arrive, BotTypeOK, botVars
  <2>5. UNCHANGED <<sent, stage, parts, part, tries, asks, failed, crashes>>
    BY <1>2 DEF Arrive, botVars
  <2> QED
    BY <2>1, <2>2, <2>3, <2>4, <2>5 DEF BotTypeOK
<1>3. CASE Poll
  BY <1>3, PollFacts DEF BotTypeOK, Poll, Arrived
<1>4. CASE Skip
  <2>1. Advance /\ stage = "look"
    BY <1>4 DEF Skip, SkipAdvances
  <2> QED
    BY <1>4, <2>1, AdvanceFacts DEF BotTypeOK, Skip, Arrived
<1>5. CASE Refuse
  BY <1>5 DEF BotTypeOK, Refuse, Arrived
<1>6. CASE Ask
  <2>1. asks' \in [UpdateIds -> Nat]
    BY <1>6, AtHand DEF BotTypeOK, Ask
  <2>2. parts' \in 1..MaxMessages /\ part' = 1 /\ part' \in 1..parts'
    BY <1>6 DEF Ask
  <2> QED
    BY <1>6, <2>1, <2>2 DEF BotTypeOK, Ask, OffsetBeforeSend, Arrived
<1>7. CASE SendPart
  <2>0. stage = "send" /\ sent' \in Seq(Messages)
    BY <1>7, DeliverFacts DEF SendPart
  <2>1. CASE part < parts
    <3>1. part' \in 1..parts' /\ parts' = parts
      BY <1>7, <2>1 DEF SendPart, BotTypeOK
    <3> QED
      BY <1>7, <2>0, <2>1, <3>1 DEF BotTypeOK, SendPart, Arrived
  <2>2. CASE ~(part < parts)
    <3>1. Advance /\ part' = 1 /\ parts' = 1
      BY <1>7, <2>2 DEF SendPart
    <3> QED
      BY <1>7, <2>0, <3>1, AdvanceFacts DEF BotTypeOK, SendPart, Arrived
  <2> QED
    BY <2>1, <2>2
<1>8. CASE SendRefused
  BY <1>8 DEF BotTypeOK, SendRefused, Arrived
<1>9. CASE Backoff
  BY <1>9 DEF BotTypeOK, Backoff, KeepOffset, Arrived
<1>10. ASSUME AttemptFails
       PROVE  /\ failed' \in 0..MaxFailedRequests /\ tries' \in 0..(Attempts - 1)
              /\ stage' = stage \/ stage' = "backoff"
  BY <1>10 DEF BotTypeOK, AttemptFails
<1>11. CASE PollFails
  <2>1. confirmed' \in 0..(Arrived + 1)
    BY <1>11 DEF PollFails, Confirm, Larger, BotTypeOK
  <2> QED
    BY <1>10, <1>11, <2>1 DEF BotTypeOK, PollFails, Arrived
<1>12. CASE NoAgent
  BY <1>12 DEF BotTypeOK, NoAgent, Arrived
<1>13. CASE SendPartFails
  <2>1. sent' \in Seq(Messages)
    BY <1>13, DeliverFacts DEF SendPartFails, BotTypeOK
  <2> QED
    BY <1>10, <1>13, <2>1 DEF BotTypeOK, SendPartFails, Arrived
<1>14. CASE Crash
  BY <1>14 DEF BotTypeOK, Crash, Arrived
<1> QED
  BY <1>1, <1>2, <1>3, <1>4, <1>5, <1>6, <1>7, <1>8, <1>9, <1>11, <1>12, <1>13, <1>14
     DEF BotNext, BotStep

-----------------------------------------------------------------------------
(* The polling bot: what was sent                                          *)

\* What happens to what was there: nothing is taken back.
Grows ==
    /\ Len(sent) <= Len(sent') /\ \A i \in 1..Len(sent) : sent'[i] = sent[i]
    /\ Arrived <= Arrived' /\ \A u \in 1..Arrived : kind'[u] = kind[u]
    /\ \A u \in UpdateIds : asks[u] <= asks'[u]

\* An update that is closed stays closed.
LEMMA StaysClosed ==
    ASSUME BotTypeOK, BotTypeOK', Grows, NEW u \in 1..Arrived, Closed(u)
    PROVE  Closed(u)'
<1>1. Len(sent) \in Nat /\ Len(sent') \in Nat
  <2>1. sent \in Seq(Messages) /\ sent' \in Seq(Messages)
    BY DEF BotTypeOK
  <2> QED
    BY <2>1
<1>2. kind'[u] = kind[u]
  BY DEF Grows
<1>3. CASE kind[u] = "skip"
  BY <1>2, <1>3 DEF Closed
<1>4. CASE Whole(u)
  <2>1. PICK i \in 1..Len(sent) :
           /\ sent[i].upd = u
           /\ \A p \in 1..sent[i].of :
                 \E j \in 1..Len(sent) : OfAnswer(j, u, sent[i].ask) /\ sent[j].part = p
    BY <1>4 DEF Whole
  <2>2. i \in 1..Len(sent') /\ sent'[i] = sent[i]
    BY <1>1 DEF Grows
  <2>3. ASSUME NEW p \in 1..sent'[i].of
        PROVE  \E j \in 1..Len(sent') :
                  sent'[j].upd = u /\ sent'[j].ask = sent'[i].ask /\ sent'[j].part = p
    <3>1. PICK j \in 1..Len(sent) : OfAnswer(j, u, sent[i].ask) /\ sent[j].part = p
      BY <2>1, <2>2, <2>3
    <3>2. j \in 1..Len(sent') /\ sent'[j] = sent[j]
      BY <1>1 DEF Grows
    <3> QED
      BY <2>2, <3>1, <3>2 DEF OfAnswer
  <2> QED
    BY <2>1, <2>2, <2>3 DEF Closed, Whole, OfAnswer
<1> QED
  BY <1>3, <1>4 DEF Closed

SentFits == MessagesFit /\ OneLength /\ FirstInOrder /\ PartsInOrder

\* When nothing is sent, what was sent stays in order.
LEMMA Unsent ==
    ASSUME BotTypeOK, SentFits, Grows, sent' = sent, BotTypeOK'
    PROVE  SentFits'
<1> USE DEF Grows
<1>1. /\ Len(sent) \in Nat /\ Arrived \in Nat /\ Arrived' \in Nat
      /\ \A i \in 1..Len(sent) : sent[i] \in Messages
      /\ \A u \in UpdateIds : asks[u] \in Nat /\ asks'[u] \in Nat
      /\ MaxUpdates \in Nat
  <2>1. kind' \in Seq(Kinds) /\ asks' \in [UpdateIds -> Nat] /\ asks \in [UpdateIds -> Nat]
    BY DEF BotTypeOK
  <2>2. Arrived' \in Nat
    BY <2>1 DEF Arrived
  <2> QED
    BY <2>1, <2>2, BotSeqs, LimitsAssumption
<1>2. \A i \in 1..Len(sent) :
         /\ sent[i].upd \in 1..Arrived /\ sent[i].upd \in UpdateIds /\ sent[i].ask \in Nat
         /\ kind'[sent[i].upd] = kind[sent[i].upd]
  BY <1>1 DEF SentFits, MessagesFit, Messages, UpdateIds
<1>3. MessagesFit'
  BY <1>1, <1>2 DEF SentFits, MessagesFit
<1>4. OneLength'
  BY DEF SentFits, OneLength, OfAnswer
<1>5. FirstInOrder'
  <2>1. ASSUME NEW i \in 1..Len(sent), NEW u \in 1..(sent[i].upd - 1)
        PROVE  \/ kind'[u] = "skip"
               \/ \E a \in 0..asks'[u] : \E j \in 1..(i - 1) :
                     sent[j].upd = u /\ sent[j].ask = a /\ sent[j].part = sent[j].of
    <3>1. u \in 1..Arrived /\ u \in UpdateIds /\ kind'[u] = kind[u]
      BY <1>1, <1>2, <2>1 DEF UpdateIds
    <3>2. 0..asks[u] \subseteq 0..asks'[u]
      BY <1>1, <3>1
    <3> QED
      BY <2>1, <3>1, <3>2 DEF SentFits, FirstInOrder
  <2> QED
    BY <2>1 DEF FirstInOrder
<1>6. PartsInOrder'
  BY DEF SentFits, PartsInOrder
<1> QED
  BY <1>3, <1>4, <1>5, <1>6 DEF SentFits

\* A closed update that is not skipped got the last message of an answer.
LEMMA ClosedHasLast ==
    ASSUME BotTypeOK, SentFits, NEW u \in 1..Arrived, Closed(u), kind[u] # "skip"
    PROVE  \E a \in 0..asks[u] : \E j \in 1..Len(sent) :
              sent[j].upd = u /\ sent[j].ask = a /\ sent[j].part = sent[j].of
<1>1. PICK i \in 1..Len(sent) :
         /\ sent[i].upd = u
         /\ \A p \in 1..sent[i].of :
               \E j \in 1..Len(sent) : OfAnswer(j, u, sent[i].ask) /\ sent[j].part = p
  BY DEF Closed, Whole
<1>2. sent[i] \in Messages
  BY BotSeqs
<1>3. sent[i].of \in 1..sent[i].of /\ sent[i].ask \in Nat
  BY <1>2, LimitsAssumption DEF Messages
<1>4. PICK j \in 1..Len(sent) : OfAnswer(j, u, sent[i].ask) /\ sent[j].part = sent[i].of
  BY <1>1, <1>3
<1>5. sent[j].of = sent[i].of
  BY <1>1, <1>4 DEF SentFits, OneLength
<1>6. asks[u] \in Nat /\ sent[i].ask <= asks[u]
  BY <1>1, BotSeqs DEF SentFits, MessagesFit, BotTypeOK
<1>7. sent[i].ask \in 0..asks[u]
  BY <1>3, <1>6
<1> QED
  BY <1>4, <1>5, <1>7 DEF OfAnswer

\* A message that is delivered keeps the order.
LEMMA Delivered ==
    ASSUME BotInv, BotTypeOK', stage = "send", kind[Current] # "blocked", Deliver,
           kind' = kind, asks' = asks
    PROVE  SentFits' /\ Grows
<1> DEFINE n == Len(sent) + 1
<1>1. /\ Len(sent) \in Nat /\ Arrived \in Nat /\ BotTypeOK /\ SentFits /\ Sending /\ PastClosed
      /\ \A i \in 1..Len(sent) : sent[i] \in Messages
      /\ \A u \in UpdateIds : asks[u] \in Nat
  BY BotSeqs DEF BotInv, BotTypeOK, SentFits
<1>2. /\ batch # <<>> /\ Current = batch[1] /\ Current \in 1..Arrived /\ Current \in UpdateIds
      /\ kind[Current] # "skip"
  BY <1>1, AtHand DEF Sending
<1>3. Len(sent') = n /\ n \in Nat /\ \A i \in 1..Len(sent) : sent'[i] = sent[i]
  BY <1>1, DeliverFacts
<1>4. /\ sent'[n].upd = Current /\ sent'[n].ask = asks[Current]
      /\ sent'[n].part = part /\ sent'[n].of = parts
  BY <1>1, DeliverFacts
<1>5. parts \in Nat /\ part \in Nat /\ part <= parts
  BY LimitsAssumption, <1>1 DEF BotTypeOK
<1>6. \A i \in 1..n : i \in 1..Len(sent) \/ i = n
  BY <1>1
<1>7. Grows
  BY <1>1, <1>3 DEF Grows, Arrived
<1>8. MessagesFit'
  <2>1. ASSUME NEW i \in 1..n
        PROVE  /\ sent'[i].upd <= Arrived /\ sent'[i].ask <= asks[sent'[i].upd]
               /\ sent'[i].part <= sent'[i].of
               /\ kind[sent'[i].upd] = "long" => sent'[i].of = 1
    <3>1. CASE i \in 1..Len(sent)
      BY <1>1, <1>3, <3>1 DEF SentFits, MessagesFit
    <3>2. CASE i = n
      BY <1>1, <1>2, <1>4, <1>5, <3>2 DEF Sending
    <3> QED
      BY <1>6, <3>1, <3>2
  <2> QED
    BY <1>3, <2>1 DEF MessagesFit, Arrived
<1>9. OneLength'
  <2>1. \A i \in 1..Len(sent) : OfAnswer(i, Current, asks[Current]) => sent[i].of = parts
    BY <1>1, <1>2 DEF Sending
  <2>2. ASSUME NEW i \in 1..n, NEW j \in 1..n,
               sent'[j].upd = sent'[i].upd, sent'[j].ask = sent'[i].ask
        PROVE  sent'[i].of = sent'[j].of
    <3>1. CASE i \in 1..Len(sent) /\ j \in 1..Len(sent)
      BY <1>1, <1>3, <2>2, <3>1 DEF SentFits, OneLength, OfAnswer
    <3>2. CASE i \in 1..Len(sent) /\ j = n
      BY <1>3, <1>4, <2>1, <2>2, <3>2 DEF OfAnswer
    <3>3. CASE i = n /\ j \in 1..Len(sent)
      BY <1>3, <1>4, <2>1, <2>2, <3>3 DEF OfAnswer
    <3> QED
      BY <1>6, <3>1, <3>2, <3>3
  <2> QED
    BY <1>3, <2>2 DEF OneLength, OfAnswer
<1>10. FirstInOrder'
  <2>1. ASSUME NEW i \in 1..n, NEW u \in 1..(sent'[i].upd - 1), kind[u] # "skip"
        PROVE  \E a \in 0..asks[u] : \E j \in 1..(i - 1) :
                  sent'[j].upd = u /\ sent'[j].ask = a /\ sent'[j].part = sent'[j].of
    <3>1. CASE i \in 1..Len(sent)
      <4>1. u \in 1..(sent[i].upd - 1)
        BY <1>3, <2>1, <3>1
      <4>2. PICK a \in 0..asks[u] : \E j \in 1..(i - 1) :
               sent[j].upd = u /\ sent[j].ask = a /\ sent[j].part = sent[j].of
        BY <1>1, <2>1, <3>1, <4>1 DEF SentFits, FirstInOrder
      <4>3. PICK j \in 1..(i - 1) :
               sent[j].upd = u /\ sent[j].ask = a /\ sent[j].part = sent[j].of
        BY <4>2
      <4>4. j \in 1..Len(sent)
        BY <1>1, <3>1
      <4> QED
        BY <1>3, <4>3, <4>4
    <3>2. CASE i = n
      <4>1. u \in 1..Arrived /\ u < batch[1]
        BY <1>1, <1>2, <1>4, <2>1, <3>2
      <4>2. Closed(u)
        BY <1>1, <1>2, <4>1 DEF PastClosed
      <4>3. PICK a \in 0..asks[u] : \E j \in 1..Len(sent) :
               sent[j].upd = u /\ sent[j].ask = a /\ sent[j].part = sent[j].of
        BY <1>1, <2>1, <4>1, <4>2, ClosedHasLast
      <4>4. i - 1 = Len(sent)
        BY <1>1, <3>2
      <4> QED
        BY <1>3, <4>3, <4>4
    <3> QED
      BY <1>6, <3>1, <3>2
  <2> QED
    BY <1>3, <2>1 DEF FirstInOrder
<1>11. PartsInOrder'
  <2>1. ASSUME NEW i \in 1..n, sent'[i].part > 1
        PROVE  \E j \in 1..(i - 1) :
                  /\ sent'[j].upd = sent'[i].upd /\ sent'[j].ask = sent'[i].ask
                  /\ sent'[j].part = sent'[i].part - 1
    <3>1. CASE i \in 1..Len(sent)
      <4>1. PICK j \in 1..(i - 1) :
               /\ sent[j].upd = sent[i].upd /\ sent[j].ask = sent[i].ask
               /\ sent[j].part = sent[i].part - 1
        BY <1>1, <1>3, <2>1, <3>1 DEF SentFits, PartsInOrder
      <4>2. j \in 1..Len(sent)
        BY <1>1, <3>1
      <4> QED
        BY <1>3, <3>1, <4>1, <4>2
    <3>2. CASE i = n
      <4>1. part - 1 \in 1..(part - 1)
        BY <1>4, <1>5, <2>1, <3>2
      <4>2. PICK j \in 1..Len(sent) : OfAnswer(j, Current, asks[Current]) /\ sent[j].part = part - 1
        BY <1>1, <1>2, <4>1 DEF Sending
      <4>3. j \in 1..(i - 1)
        BY <1>1, <3>2
      <4> QED
        BY <1>3, <1>4, <3>2, <4>2, <4>3 DEF OfAnswer
    <3> QED
      BY <1>6, <3>1, <3>2
  <2> QED
    BY <1>3, <2>1 DEF PartsInOrder
<1> QED
  BY <1>7, <1>8, <1>9, <1>10, <1>11 DEF SentFits

-----------------------------------------------------------------------------
(* The polling bot: what it is past                                        *)

\* A step that handles nothing: the bot is past nothing new.
LEMMA PastStays ==
    ASSUME BotInv, BotTypeOK', Grows, kind' = kind,
           offset' = offset \/ offset' = 0, confirmed' = confirmed \/ confirmed' = offset,
           batch' = batch \/ batch' = <<>>
    PROVE  BatchRuns' /\ PastClosed'
<1>1. BotTypeOK /\ PastClosed /\ BatchRuns /\ Arrived' = Arrived
  BY DEF BotInv, Arrived
<1>2. BatchRuns'
  BY <1>1 DEF BatchRuns
<1>3. ASSUME NEW u \in 1..Arrived,
             u < offset' \/ u < confirmed' \/ (batch' # <<>> /\ u < batch'[1])
      PROVE  Closed(u)'
  <2>1. u < offset \/ u < confirmed \/ (batch # <<>> /\ u < batch[1])
    BY <1>3
  <2> QED
    BY <1>1, <2>1, StaysClosed DEF PastClosed
<1>4. PastClosed'
  BY <1>1, <1>3 DEF PastClosed
<1> QED
  BY <1>2, <1>4

\* A step that goes on to the next update, this one being closed.
LEMMA PastAdvances ==
    ASSUME BotInv, BotTypeOK', Grows, kind' = kind, stage \in {"look", "send"}, Advance,
           confirmed' = confirmed, NEW c \in 1..Arrived, c = Current, Closed(c)'
    PROVE  BatchRuns' /\ PastClosed' /\ stage' # "send"
<1>1. BotTypeOK /\ PastClosed /\ BatchRuns /\ Arrived' = Arrived /\ Arrived \in Nat
  BY BotSeqs DEF BotInv, Arrived
<1>2. /\ batch # <<>> /\ Current = batch[1] /\ Current \in 1..Arrived
      /\ Len(batch) \in Nat \ {0} /\ kind' = kind
  BY <1>1, AtHand
<1>3. /\ offset' = offset \/ offset' = Current + 1
      /\ Len(batch') = Len(batch) - 1 /\ batch' \in Seq(1..Arrived)
      /\ \A i \in 1..Len(batch') : batch'[i] = batch[i + 1]
      /\ stage' \in {"poll", "look"}
  BY <1>1, AdvanceFacts
<1>4. \A i \in 1..Len(batch') : batch'[i] = Current + i
  <2>1. SUFFICES ASSUME NEW i \in 1..Len(batch')
                 PROVE  batch'[i] = Current + i
    OBVIOUS
  <2>2. i + 1 \in 1..Len(batch) /\ batch'[i] = batch[i + 1]
    BY <1>2, <1>3
  <2>3. batch[i + 1] = batch[1] + ((i + 1) - 1)
    BY <1>1, <2>2 DEF BatchRuns
  <2> QED
    BY <1>2, <2>2, <2>3
<1>5. BatchRuns'
  <2>1. SUFFICES ASSUME NEW i \in 1..Len(batch')
                 PROVE  batch'[i] = batch'[1] + (i - 1)
    BY DEF BatchRuns
  <2>2. 1 \in 1..Len(batch')
    BY <1>2, <1>3
  <2>3. batch'[i] = Current + i /\ batch'[1] = Current + 1
    BY <1>4, <2>2
  <2> QED
    BY <1>2, <2>3
<1>6. batch' # <<>> => batch'[1] = Current + 1
  <2>1. ASSUME batch' # <<>>
        PROVE  1 \in 1..Len(batch')
    BY <1>3, <2>1, FirstOf
  <2> QED
    BY <1>4, <2>1
<1>7. ASSUME NEW u \in 1..Arrived,
             u < offset' \/ u < confirmed' \/ (batch' # <<>> /\ u < batch'[1])
      PROVE  Closed(u)'
  <2>1. u < offset \/ u < confirmed \/ u < batch[1] \/ u = c
    BY <1>2, <1>3, <1>6, <1>7
  <2> QED
    BY <1>1, <1>2, <2>1, StaysClosed DEF PastClosed
<1>8. PastClosed'
  BY <1>1, <1>7 DEF PastClosed
<1> QED
  BY <1>3, <1>5, <1>8

\* What a step has to show, given the messages.
LEMMA BotInvParts ==
    ASSUME BotTypeOK', SentFits', BatchRuns', PastClosed', Sending'
    PROVE  BotInv'
BY DEF BotInv, SentFits

\* A step of the loop that sends nothing and asks nothing.
LEMMA StillSent ==
    ASSUME BotInv, BotTypeOK', sent' = sent, kind' = kind, asks' = asks
    PROVE  Grows /\ SentFits'
<1>1. BotTypeOK /\ SentFits
  BY DEF BotInv, SentFits
<1>2. Len(sent) \in Nat /\ Arrived \in Nat /\ \A u \in UpdateIds : asks[u] \in Nat
  BY <1>1, BotSeqs DEF BotTypeOK
<1>3. Grows
  BY <1>2 DEF Grows, Arrived
<1> QED
  BY <1>1, <1>3, Unsent

-----------------------------------------------------------------------------
(* The polling bot: the invariant holds                                    *)

LEMMA BotInitInv == BotInit => BotInv
<1> SUFFICES ASSUME BotInit
             PROVE  BotInv
  OBVIOUS
<1> USE LimitsAssumption DEF BotInit
<1>1. kind = <<>> /\ sent = <<>> /\ batch = <<>> /\ Len(kind) = 0 /\ Len(sent) = 0 /\ Len(batch) = 0
  OBVIOUS
<1>2. BotTypeOK
  BY <1>1 DEF BotTypeOK, Arrived
<1>3. MessagesFit /\ OneLength /\ BatchRuns /\ Sending /\ FirstInOrder /\ PartsInOrder
  BY <1>1 DEF MessagesFit, OneLength, BatchRuns, Sending, FirstInOrder, PartsInOrder
<1>4. PastClosed
  BY <1>1 DEF PastClosed, Arrived
<1> QED
  BY <1>2, <1>3, <1>4 DEF BotInv

\* A user writes.
LEMMA ArriveInv ==
    ASSUME BotInv, BotTypeOK', NEW k \in Kinds, Arrive(k)
    PROVE  BotInv'
<1>1. BotTypeOK /\ SentFits /\ BatchRuns /\ PastClosed /\ Sending
  BY DEF BotInv, SentFits
<1>2. /\ UNCHANGED <<confirmed, sent, offset, batch, stage, parts, part, asks>>
      /\ kind' = Append(kind, k) /\ kind \in Seq(Kinds)
  BY <1>1 DEF Arrive, botVars, BotTypeOK
<1>3. /\ Arrived \in Nat /\ Arrived' = Arrived + 1
      /\ \A u \in 1..Arrived : kind'[u] = kind[u]
  BY <1>2 DEF Arrived
<1>4. Grows
  <2>1. Len(sent) \in Nat /\ asks \in [UpdateIds -> Nat]
    BY <1>1, BotSeqs DEF BotTypeOK
  <2>2. Len(sent) <= Len(sent') /\ Arrived <= Arrived'
    BY <1>2, <1>3, <2>1
  <2>3. \A u \in UpdateIds : asks[u] <= asks'[u]
    BY <1>2, <2>1
  <2> QED
    BY <1>2, <1>3, <2>2, <2>3 DEF Grows
<1>5. SentFits'
  BY <1>1, <1>2, <1>4, Unsent
<1>6. BatchRuns'
  BY <1>1, <1>2 DEF BatchRuns
<1>7. batch # <<>> => batch[1] \in 1..Arrived
  BY <1>1, BotSeqs, FirstOf
<1>8. PastClosed'
  <2>1. ASSUME NEW u \in 1..Arrived',
               u < offset' \/ u < confirmed' \/ (batch' # <<>> /\ u < batch'[1])
        PROVE  Closed(u)'
    <3>1. offset \in 0..(Arrived + 1) /\ confirmed \in 0..(Arrived + 1)
      BY <1>1 DEF BotTypeOK
    <3>2. u \in 1..Arrived /\ (u < offset \/ u < confirmed \/ (batch # <<>> /\ u < batch[1]))
      BY <1>2, <1>3, <1>7, <2>1, <3>1
    <3> QED
      BY <1>1, <1>4, <3>2, StaysClosed DEF PastClosed
  <2> QED
    BY <2>1 DEF PastClosed
<1>9. Sending'
  <2>1. stage = "send" => batch[1] \in 1..Arrived
    BY <1>1, AtHand
  <2> QED
    BY <1>1, <1>2, <1>3, <2>1 DEF Sending, OfAnswer
<1> QED
  BY <1>5, <1>6, <1>8, <1>9, BotInvParts

\* Everything that sends nothing, asks nothing and handles nothing.
LEMMA RestInv ==
    ASSUME BotInv, BotTypeOK', sent' = sent, kind' = kind, asks' = asks, stage' # "send",
           offset' = offset \/ offset' = 0, confirmed' = confirmed \/ confirmed' = offset,
           batch' = batch \/ batch' = <<>>
    PROVE  BotInv'
<1>1. Grows /\ SentFits'
  BY StillSent
<1>2. BatchRuns' /\ PastClosed'
  BY <1>1, PastStays
<1>3. Sending'
  BY DEF Sending
<1> QED
  BY <1>1, <1>2, <1>3, BotInvParts

LEMMA PollInv ==
    ASSUME BotInv, BotTypeOK', Poll
    PROVE  BotInv'
<1>1. BotTypeOK /\ PastClosed
  BY DEF BotInv
<1>2. sent' = sent /\ kind' = kind /\ asks' = asks /\ offset' = offset /\ Arrived' = Arrived
  BY DEF Poll, Arrived
<1>3. Grows /\ SentFits'
  BY <1>2, StillSent
<1>4. BatchRuns' /\ Sending'
  BY <1>1, PollFacts DEF BatchRuns, Sending
<1>5. ASSUME NEW u \in 1..Arrived,
             u < offset' \/ u < confirmed' \/ (batch' # <<>> /\ u < batch'[1])
      PROVE  Closed(u)'
  <2>1. u < offset \/ u < confirmed
    <3>1. u < offset' \/ u < confirmed' \/ u < offset \/ u < confirmed
      BY <1>1, <1>5, PollFacts
    <3>2. confirmed' = confirmed \/ confirmed' = offset
      BY <1>1, PollFacts
    <3> QED
      BY <1>2, <3>1, <3>2
  <2> QED
    BY <1>1, <1>3, <2>1, StaysClosed DEF PastClosed
<1>6. PastClosed'
  BY <1>2, <1>5 DEF PastClosed
<1> QED
  BY <1>3, <1>4, <1>6, BotInvParts

LEMMA SkipInv ==
    ASSUME BotInv, BotTypeOK', Skip
    PROVE  BotInv'
<1>1. Advance /\ stage = "look" /\ kind[Current] = "skip"
  BY DEF Skip, SkipAdvances
<1>2. sent' = sent /\ kind' = kind /\ asks' = asks /\ confirmed' = confirmed
  BY DEF Skip
<1>3. Grows /\ SentFits' /\ BotTypeOK
  BY <1>2, StillSent DEF BotInv
<1>4. PICK c \in 1..Arrived : c = Current
  BY <1>1, <1>3, AtHand
<1>5. Closed(c)'
  BY <1>1, <1>2, <1>4 DEF Closed
<1> QED
  BY <1>1, <1>2, <1>3, <1>4, <1>5, PastAdvances, BotInvParts DEF Sending

\* The text is too long: one message is to be sent.
LEMMA RefuseInv ==
    ASSUME BotInv, BotTypeOK', Refuse
    PROVE  BotInv'
<1>1. /\ stage = "look" /\ kind[Current] = "long" /\ stage' = "send"
      /\ parts' = 1 /\ part' = 1
      /\ UNCHANGED <<kind, confirmed, sent, offset, batch, asks>>
  BY DEF Refuse
<1>2. Grows /\ SentFits'
  BY <1>1, StillSent
<1>3. BatchRuns' /\ PastClosed'
  BY <1>1, <1>2, PastStays
<1>4. BotTypeOK /\ MessagesFit /\ Current = batch[1]
  BY <1>1, AtHand DEF BotInv
<1>5. \A i \in 1..Len(sent) : OfAnswer(i, batch[1], asks[batch[1]]) => sent[i].of = 1
  BY <1>1, <1>4 DEF MessagesFit, OfAnswer
<1>6. Sending'
  BY <1>1, <1>4, <1>5 DEF Sending, OfAnswer
<1> QED
  BY <1>2, <1>3, <1>6, BotInvParts

\* A new answer: nothing of it was sent.
LEMMA AskInv ==
    ASSUME BotInv, BotTypeOK', Ask
    PROVE  BotInv'
<1>1. /\ stage = "look" /\ kind[Current] \in Asking /\ stage' = "send" /\ part' = 1
      /\ UNCHANGED <<kind, confirmed, sent, offset, batch>>
      /\ asks' = IF kind[Current] = "blocked" THEN asks ELSE [asks EXCEPT ![Current] = @ + 1]
  BY DEF Ask, OffsetBeforeSend
<1>2. /\ BotTypeOK /\ SentFits /\ MessagesFit
      /\ Current = batch[1] /\ Current \in UpdateIds
      /\ asks \in [UpdateIds -> Nat]
  BY <1>1, AtHand DEF BotInv, SentFits, BotTypeOK
<1>3. \A u \in UpdateIds : asks[u] <= asks'[u]
  BY <1>1, <1>2
<1>4. Grows
  BY <1>1, <1>2, <1>3, BotSeqs DEF Grows, Arrived
<1>5. SentFits'
  BY <1>1, <1>2, <1>4, Unsent
<1>6. BatchRuns' /\ PastClosed'
  BY <1>1, <1>4, PastStays
<1>7. Sending'
  <2>1. SUFFICES ASSUME kind[Current] # "blocked"
                 PROVE  Sending'
    BY <1>1, <1>2 DEF Sending
  <2>2. asks'[Current] = asks[Current] + 1 /\ asks[Current] \in Nat
    BY <1>1, <1>2, <2>1
  <2>3. ASSUME NEW i \in 1..Len(sent), sent[i].upd = Current
        PROVE  sent[i].ask # asks'[Current]
    <3>1. sent[i].ask <= asks[Current] /\ sent[i].ask \in Nat
      BY <1>2, <2>3, BotSeqs DEF MessagesFit, Messages
    <3> QED
      BY <2>2, <3>1
  <2>4. kind[Current] = "ask"
    BY <1>1, <2>1 DEF Asking
  <2> QED
    BY <1>1, <1>2, <2>3, <2>4 DEF Sending, OfAnswer
<1> QED
  BY <1>5, <1>6, <1>7, BotInvParts

\* A message is delivered, learned of or not.
LEMMA SendPartInv ==
    ASSUME BotInv, BotTypeOK', SendPart
    PROVE  BotInv'
<1>1. /\ stage = "send" /\ kind[Current] # "blocked" /\ Deliver
      /\ UNCHANGED <<kind, confirmed, asks>>
  BY DEF SendPart
<1>2. SentFits' /\ Grows
  BY <1>1, Delivered
<1>3. /\ BotTypeOK /\ Sending /\ Current = batch[1] /\ Current \in 1..Arrived
      /\ Len(sent) \in Nat /\ parts \in Nat /\ part \in 1..parts
  <2>1. BotTypeOK /\ Sending
    BY DEF BotInv
  <2>2. parts \in Nat /\ part \in 1..parts
    BY <2>1, LimitsAssumption DEF BotTypeOK
  <2> QED
    BY <1>1, <2>1, <2>2, AtHand, BotSeqs
<1>4. /\ Len(sent') = Len(sent) + 1 /\ \A i \in 1..Len(sent) : sent'[i] = sent[i]
      /\ sent'[Len(sent) + 1] = [upd |-> Current, ask |-> asks[Current], part |-> part, of |-> parts]
  BY <1>1, <1>3, DeliverFacts
<1>5. /\ Len(sent) + 1 \in 1..Len(sent') /\ sent'[Len(sent) + 1].upd = Current
      /\ sent'[Len(sent) + 1].ask = asks[Current]
      /\ sent'[Len(sent) + 1].part = part /\ sent'[Len(sent) + 1].of = parts
      /\ \A i \in 1..Len(sent') : i \in 1..Len(sent) \/ i = Len(sent) + 1
      /\ \A i \in 1..Len(sent) : i \in 1..Len(sent')
  BY <1>3, <1>4
<1>6. \A i \in 1..Len(sent') :
         sent'[i].upd = Current /\ sent'[i].ask = asks[Current] => sent'[i].of = parts
  <2>1. \A i \in 1..Len(sent) : OfAnswer(i, Current, asks[Current]) => sent[i].of = parts
    BY <1>1, <1>3 DEF Sending
  <2> QED
    BY <1>4, <1>5, <2>1 DEF OfAnswer
<1>7. \A p \in 1..part : \E i \in 1..Len(sent') :
         sent'[i].upd = Current /\ sent'[i].ask = asks[Current] /\ sent'[i].part = p
  <2>1. SUFFICES ASSUME NEW p \in 1..part
                 PROVE  \E i \in 1..Len(sent') :
                           /\ sent'[i].upd = Current /\ sent'[i].ask = asks[Current]
                           /\ sent'[i].part = p
    OBVIOUS
  <2>2. CASE p = part
    BY <1>5, <2>2
  <2>3. CASE p # part
    <3>1. p \in 1..(part - 1)
      BY <1>3, <2>3
    <3>2. PICK i \in 1..Len(sent) : OfAnswer(i, Current, asks[Current]) /\ sent[i].part = p
      BY <1>1, <1>3, <3>1 DEF Sending
    <3> QED
      BY <1>4, <1>5, <3>2 DEF OfAnswer
  <2> QED
    BY <2>2, <2>3
<1>8. CASE part < parts
  <2>1. part' = part + 1 /\ UNCHANGED <<offset, batch, stage, parts>>
    BY <1>8 DEF SendPart
  <2>2. BatchRuns' /\ PastClosed'
    BY <1>1, <1>2, <2>1, PastStays
  <2>3. Sending'
    <3>1. part' - 1 = part
      BY <1>3, <2>1
    <3> QED
      BY <1>1, <1>3, <1>6, <1>7, <2>1, <3>1 DEF Sending, OfAnswer
  <2> QED
    BY <1>2, <2>2, <2>3, BotInvParts
<1>9. CASE ~(part < parts)
  <2>1. Advance /\ part = parts
    BY <1>3, <1>9 DEF SendPart
  <2>2. PICK c \in 1..Arrived : c = Current
    BY <1>3
  <2>3. Closed(c)'
    <3>1. sent'[Len(sent) + 1].upd = c
          /\ \A p \in 1..sent'[Len(sent) + 1].of : \E j \in 1..Len(sent') :
                /\ sent'[j].upd = c /\ sent'[j].ask = sent'[Len(sent) + 1].ask
                /\ sent'[j].part = p
      BY <1>5, <1>7, <2>1, <2>2
    <3> QED
      BY <1>5, <3>1 DEF Closed, Whole, OfAnswer
  <2>4. BatchRuns' /\ PastClosed' /\ stage' # "send"
    BY <1>1, <1>2, <2>1, <2>2, <2>3, PastAdvances
  <2> QED
    BY <1>2, <2>4, BotInvParts DEF Sending
<1> QED
  BY <1>8, <1>9

LEMMA SendPartFailsInv ==
    ASSUME BotInv, BotTypeOK', SendPartFails
    PROVE  BotInv'
<1>1. /\ stage = "send" /\ kind[Current] # "blocked" /\ (Deliver \/ sent' = sent)
      /\ UNCHANGED <<kind, confirmed, offset, batch, parts, part, asks>>
  BY DEF SendPartFails
<1>2. SentFits' /\ Grows
  BY <1>1, Delivered, StillSent
<1>3. BatchRuns' /\ PastClosed'
  BY <1>1, <1>2, PastStays
<1>4. /\ BotTypeOK /\ Sending /\ Current = batch[1] /\ Len(sent) \in Nat
      /\ parts \in Nat
  BY <1>1, AtHand, BotSeqs, LimitsAssumption DEF BotInv, BotTypeOK
<1>5. /\ \A i \in 1..Len(sent) : OfAnswer(i, Current, asks[Current]) => sent[i].of = parts
      /\ \A p \in 1..(part - 1) :
            \E i \in 1..Len(sent) : OfAnswer(i, Current, asks[Current]) /\ sent[i].part = p
      /\ kind[Current] # "skip" /\ (kind[Current] = "long" => parts = 1)
  BY <1>1, <1>4 DEF Sending
<1>6. \A i \in 1..Len(sent') :
         sent'[i].upd = Current /\ sent'[i].ask = asks[Current] => sent'[i].of = parts
  <2>1. CASE Deliver
    <3>1. /\ Len(sent') = Len(sent) + 1 /\ \A i \in 1..Len(sent) : sent'[i] = sent[i]
          /\ sent'[Len(sent) + 1].of = parts
      BY <1>1, <1>4, <2>1, DeliverFacts
    <3> QED
      BY <1>4, <1>5, <3>1 DEF OfAnswer
  <2>2. CASE sent' = sent
    BY <1>5, <2>2 DEF OfAnswer
  <2> QED
    BY <1>1, <2>1, <2>2
<1>7. \A p \in 1..(part - 1) : \E i \in 1..Len(sent') :
         sent'[i].upd = Current /\ sent'[i].ask = asks[Current] /\ sent'[i].part = p
  <2>1. SUFFICES ASSUME NEW p \in 1..(part - 1)
                 PROVE  \E i \in 1..Len(sent') :
                           /\ sent'[i].upd = Current /\ sent'[i].ask = asks[Current]
                           /\ sent'[i].part = p
    OBVIOUS
  <2>2. PICK i \in 1..Len(sent) : OfAnswer(i, Current, asks[Current]) /\ sent[i].part = p
    BY <1>5, <2>1
  <2>3. i \in 1..Len(sent') /\ sent'[i] = sent[i]
    <3>1. Len(sent') \in Nat
      <4>1. sent' \in Seq(Messages)
        BY DEF BotTypeOK
      <4> QED
        BY <4>1
    <3> QED
      BY <1>2, <1>4, <3>1 DEF Grows
  <2> QED
    BY <2>2, <2>3 DEF OfAnswer
<1>8. Sending'
  BY <1>1, <1>4, <1>5, <1>6, <1>7 DEF Sending, OfAnswer
<1> QED
  BY <1>2, <1>3, <1>8, BotInvParts

LEMMA BotNextInv == BotInv /\ [BotNext]_allVars => BotInv'
<1> SUFFICES ASSUME BotInv, [BotNext]_allVars
             PROVE  BotInv'
  OBVIOUS
<1>1. BotTypeOK'
  BY BotTypeInv DEF BotInv
<1>2. CASE UNCHANGED allVars
  <2>1. SentFits' /\ BatchRuns' /\ PastClosed'
    BY <1>1, <1>2, StillSent, PastStays DEF allVars, botVars
  <2>2. Sending'
    BY <1>2 DEF BotInv, Sending, OfAnswer, allVars, botVars
  <2> QED
    BY <1>1, <2>1, <2>2, BotInvParts
<1>3. ASSUME NEW k \in Kinds, Arrive(k)
      PROVE  BotInv'
  BY <1>1, <1>3, ArriveInv
<1>4. CASE PollFails
  BY <1>1, <1>4, RestInv DEF PollFails, Confirm, Larger, AttemptFails
<1>5. CASE NoAgent
  BY <1>1, <1>5, RestInv DEF NoAgent
<1>6. CASE SendRefused
  BY <1>1, <1>6, RestInv DEF SendRefused
<1>7. CASE Backoff
  BY <1>1, <1>7, RestInv DEF Backoff, KeepOffset
<1>8. CASE Crash
  BY <1>1, <1>8, RestInv DEF Crash
<1> QED
  BY <1>1, <1>2, <1>3, <1>4, <1>5, <1>6, <1>7, <1>8, PollInv, SkipInv, RefuseInv, AskInv,
     SendPartInv, SendPartFailsInv DEF BotNext, BotStep

LEMMA BotInvariance == BotSpec => []BotInv
BY BotInitInv, BotNextInv, PTL DEF BotSpec

\* Whatever fails and whenever the bot dies: an update the server forgets was answered in
\* full (offset and retries of main and _request).
THEOREM AnsweredBeforeConfirmed == BotSpec => []NoUpdateLost
<1>1. ASSUME BotInv, NEW u \in 1..Arrived, u < confirmed
      PROVE  Handled(u)
  <2>1. Closed(u) /\ BotTypeOK /\ MessagesFit /\ OneLength
    BY <1>1 DEF BotInv, PastClosed
  <2>2. CASE kind[u] = "skip"
    BY <2>2 DEF Handled
  <2>3. CASE Whole(u)
    <3>1. PICK i \in 1..Len(sent) :
             /\ sent[i].upd = u
             /\ \A p \in 1..sent[i].of :
                   \E j \in 1..Len(sent) : OfAnswer(j, u, sent[i].ask) /\ sent[j].part = p
      BY <2>3 DEF Whole
    <3>2. PartsSent(u, sent[i].ask) \subseteq 1..sent[i].of
      <4>1. SUFFICES ASSUME NEW j \in 1..Len(sent), sent[j].upd = u, sent[j].ask = sent[i].ask
                     PROVE  sent[j].part \in 1..sent[i].of
        BY DEF PartsSent
      <4>2. sent[j].of = sent[i].of /\ sent[j].part <= sent[j].of
        BY <2>1, <3>1, <4>1 DEF OneLength, MessagesFit, OfAnswer
      <4>3. sent[j] \in Messages /\ sent[i] \in Messages
        BY <2>1, BotSeqs
      <4> QED
        BY <4>2, <4>3, LimitsAssumption DEF Messages
    <3>3. 1..sent[i].of \subseteq PartsSent(u, sent[i].ask)
      BY <3>1 DEF PartsSent, OfAnswer
    <3> QED
      BY <3>1, <3>2, <3>3 DEF Handled
  <2> QED
    BY <2>1, <2>2, <2>3 DEF Closed
<1>2. BotInv => NoUpdateLost
  BY <1>1 DEF NoUpdateLost
<1> QED
  BY <1>2, BotInvariance, PTL

\* Whatever is asked and sent again, messages keep the order of the updates and of the parts.
THEOREM OrderIsKept == BotSpec => []SentInOrder
<1>1. BotInv => SentInOrder
  BY DEF BotInv, SentInOrder
<1> QED
  BY <1>1, BotInvariance, PTL
=============================================================================
