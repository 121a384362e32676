-------------------------- MODULE WhatsAppWebhook --------------------------
(***************************************************************************)
(* The WhatsApp webhook: Meta posts payloads of messages until one post is *)
(* acknowledged; the server acknowledges as soon as it has made a task.    *)
(* The task takes the messages of its payload one after the other: it      *)
(* drops those whose id it has seen lately, asks the sender's agent under  *)
(* the sender's lock, and sends the answer in parts outside the lock.      *)
(***************************************************************************)
EXTENDS Naturals, Sequences, FiniteSets, SequencesExt

CONSTANTS
    Ids,          \* ids of messages
    Senders,
    Sender,       \* whose message an id is
    Payloads,     \* the payloads Meta has to deliver, sequences of ids
    SeenLimit,    \* _seen_limit, 4096 in the code
    MaxTasks,     \* bound on the posts of Meta
    MaxParts,     \* bound on the parts of an answer
    MaxFailures,  \* bound on failing sends
    MaxRestarts   \* bound on restarts of the process

ASSUME SenderAssumption == Sender \in [Ids -> Senders]
ASSUME PayloadsAssumption == Payloads \subseteq Seq(Ids)
ASSUME BoundsAssumption ==
    /\ SeenLimit \in Nat \ {0} /\ MaxParts \in Nat \ {0}
    /\ MaxTasks \in Nat /\ MaxFailures \in Nat /\ MaxRestarts \in Nat

VARIABLES
    pending,    \* Meta: the payloads not acknowledged yet
    seenIds,    \* _seen_ids
    seenOrder,  \* _seen_order
    tasks,      \* the background tasks of the process and of those before it
    queue,      \* per sender, the task that has the lock and those that wait for it
    asked,      \* how often the agent was asked about each message
    answered,   \* how many complete answers each message got
    forgotten,  \* how often each id fell out of what was seen
    failures, restarts

vars == <<pending, seenIds, seenOrder, tasks, queue, asked, answered, forgotten, failures, restarts>>

Live == {"next", "lock", "ask", "send"}
Over == {"done", "failed", "cancelled"}

\* index: the message the task is at. left: parts of its answer still to be sent.
Tasks == [payload : Payloads, index : Nat \ {0}, stage : Live \cup Over, left : 0..MaxParts]

TypeOK ==
    /\ pending \subseteq Payloads
    /\ seenIds \subseteq Ids
    /\ seenOrder \in Seq(Ids)
    /\ tasks \in Seq(Tasks) /\ Len(tasks) <= MaxTasks
    /\ \A t \in 1..Len(tasks) :
           tasks[t].stage \in {"lock", "ask", "send", "failed"}
           => tasks[t].index <= Len(tasks[t].payload)
    /\ queue \in [Senders -> Seq(1..MaxTasks)]
    /\ asked \in [Ids -> Nat] /\ answered \in [Ids -> Nat] /\ forgotten \in [Ids -> Nat]
    /\ failures \in 0..MaxFailures /\ restarts \in 0..MaxRestarts

Init ==
    /\ pending = Payloads
    /\ seenIds = {} /\ seenOrder = <<>>
    /\ tasks = <<>>
    /\ queue = [s \in Senders |-> <<>>]
    /\ asked = [m \in Ids |-> 0]
    /\ answered = [m \in Ids |-> 0]
    /\ forgotten = [m \in Ids |-> 0]
    /\ failures = 0 /\ restarts = 0

Message(t) == tasks[t].payload[tasks[t].index]
SenderOf(t) == Sender[Message(t)]

\* The tasks when t has come to a stage of its message at i, n parts of the answer left.
Moved(t, i, stage, n) ==
    [tasks EXCEPT ![t] = [payload |-> tasks[t].payload, index |-> i, stage |-> stage, left |-> n]]

\* Meta posts a payload.  It is done with it, or the acknowledgement is lost or late.
Receive(p) ==
    /\ p \in pending
    /\ Len(tasks) < MaxTasks
    /\ tasks' = Append(tasks, [payload |-> p, index |-> 1, stage |-> "next", left |-> 0])
    /\ pending' \in {pending, pending \ {p}}
    /\ UNCHANGED <<seenIds, seenOrder, queue, asked, answered, forgotten, failures, restarts>>

-----------------------------------------------------------------------------
(* _is_duplicate                                                           *)

IsDuplicate(m) == m \in seenIds

\* Mutation of MarkSeen: the id that leaves the list stays in the set.
MarkOnly(m) ==
    LET order == Append(seenOrder, m)
    IN /\ seenIds' = seenIds \cup {m}
       /\ seenOrder' = IF Len(order) > SeenLimit THEN Tail(order) ELSE order
       /\ UNCHANGED forgotten

\* Mutation of MarkSeen: the id is not marked.
MarkLater(m) == UNCHANGED <<seenIds, seenOrder, forgotten>>

MarkSeen(m) ==
    LET order == Append(seenOrder, m)
        oldest == Head(order)
    IN IF Len(order) > SeenLimit
       THEN /\ seenOrder' = Tail(order)
            /\ seenIds' = (seenIds \cup {m}) \ {oldest}
            /\ forgotten' = [forgotten EXCEPT ![oldest] = @ + 1]
       ELSE /\ seenOrder' = order
            /\ seenIds' = seenIds \cup {m}
            /\ UNCHANGED forgotten

-----------------------------------------------------------------------------
(* handle_payload                                                          *)

\* The positions from the task's on whose messages are no duplicates.
Fresh(t) == {k \in tasks[t].index..Len(tasks[t].payload) : ~IsDuplicate(tasks[t].payload[k])}

\* The task drops duplicates and gets in line for the lock of the next message's sender.
Take(t) ==
    /\ tasks[t].stage = "next"
    /\ \E k \in Fresh(t) :
           LET m == tasks[t].payload[k]
           IN /\ \A j \in Fresh(t) : k <= j
              /\ MarkSeen(m)
              /\ tasks' = Moved(t, k, "lock", 0)
              /\ queue' = [queue EXCEPT ![Sender[m]] = Append(@, t)]
    /\ UNCHANGED <<pending, asked, answered, failures, restarts>>

\* Nothing but duplicates is left of the payload.
Finish(t) ==
    /\ tasks[t].stage = "next"
    /\ Fresh(t) = {}
    /\ tasks' = Moved(t, tasks[t].index, "done", 0)
    /\ UNCHANGED <<pending, seenIds, seenOrder, queue, asked, answered, forgotten, failures, restarts>>

\* The task has the lock and asks the agent.
Ask(t) ==
    /\ tasks[t].stage = "lock"
    /\ Head(queue[SenderOf(t)]) = t
    /\ tasks' = Moved(t, tasks[t].index, "ask", 0)
    /\ asked' = [asked EXCEPT ![Message(t)] = @ + 1]
    /\ UNCHANGED <<pending, seenIds, seenOrder, queue, answered, forgotten, failures, restarts>>

\* Mutation of Answer: an exception of the agent leaves the lock locked.
AnswerLocked(t) ==
    /\ tasks[t].stage = "ask"
    /\ \E n \in 1..MaxParts : tasks' = Moved(t, tasks[t].index, "send", n)
    /\ UNCHANGED <<pending, seenIds, seenOrder, queue, asked, answered, forgotten, failures, restarts>>

\* The agent answers, or fails and an apology is the answer; the lock is released.
Answer(t) ==
    /\ tasks[t].stage = "ask"
    /\ \E n \in 1..MaxParts : tasks' = Moved(t, tasks[t].index, "send", n)
    /\ queue' = [queue EXCEPT ![SenderOf(t)] = Tail(@)]
    /\ UNCHANGED <<pending, seenIds, seenOrder, asked, answered, forgotten, failures, restarts>>

\* Mutation of Send: the rest of a payload is left when its first message is answered.
SendAndReturn(t) ==
    /\ tasks[t].stage = "send"
    /\ IF tasks[t].left > 1
       THEN tasks' = Moved(t, tasks[t].index, "send", tasks[t].left - 1) /\ UNCHANGED answered
       ELSE /\ tasks' = Moved(t, tasks[t].index, "done", 0)
            /\ answered' = [answered EXCEPT ![Message(t)] = @ + 1]
    /\ UNCHANGED <<pending, seenIds, seenOrder, queue, asked, forgotten, failures, restarts>>

\* A part is sent; after the last one the task goes on with its next message.
Send(t) ==
    /\ tasks[t].stage = "send"
    /\ IF tasks[t].left > 1
       THEN tasks' = Moved(t, tasks[t].index, "send", tasks[t].left - 1) /\ UNCHANGED answered
       ELSE /\ tasks' = Moved(t, tasks[t].index + 1, "next", 0)
            /\ answered' = [answered EXCEPT ![Message(t)] = @ + 1]
    /\ UNCHANGED <<pending, seenIds, seenOrder, queue, asked, forgotten, failures, restarts>>

\* Sending a part raises, and the exception ends the task.
SendFails(t) ==
    /\ tasks[t].stage = "send"
    /\ failures < MaxFailures
    /\ failures' = failures + 1
    /\ tasks' = Moved(t, tasks[t].index, "failed", tasks[t].left)
    /\ UNCHANGED <<pending, seenIds, seenOrder, queue, asked, answered, forgotten, restarts>>

\* The process stops, cancelling its tasks, or dies; what it has seen is gone.
Restart ==
    /\ restarts < MaxRestarts
    /\ restarts' = restarts + 1
    /\ tasks' = [t \in 1..Len(tasks) |->
           IF tasks[t].stage \in Live THEN [tasks[t] EXCEPT !.stage = "cancelled"] ELSE tasks[t]]
    /\ queue' = [s \in Senders |-> <<>>]
    /\ seenIds' = {} /\ seenOrder' = <<>>
    /\ forgotten' = [m \in Ids |-> IF m \in seenIds THEN forgotten[m] + 1 ELSE forgotten[m]]
    /\ UNCHANGED <<pending, asked, answered, failures>>

Step(t) == Take(t) \/ Finish(t) \/ Ask(t) \/ Answer(t) \/ Send(t)

Next ==
    \/ \E p \in Payloads : Receive(p)
    \/ \E t \in 1..Len(tasks) : Step(t) \/ SendFails(t)
    \/ Restart

Spec == Init /\ [][Next]_vars

\* The event loop runs every task that can go on; calls of the agent and of the Graph
\* API have timeouts.
FairSpec == Spec /\ \A t \in 1..MaxTasks : WF_vars(t <= Len(tasks) /\ Step(t))

-----------------------------------------------------------------------------
(* Correctness                                                             *)

NoRepetition(seq) == \A i, j \in 1..Len(seq) : seq[i] = seq[j] => i = j

\* The set and the list of seen ids agree and keep to their limit.
SeenAgree ==
    /\ seenIds = ToSet(seenOrder)
    /\ NoRepetition(seenOrder)
    /\ Len(seenOrder) <= SeenLimit

\* However often Meta repeats a payload and in whatever order tasks run, the agent is
\* asked about a message once for each time its id is new.
AskedOnce == \A m \in Ids : asked[m] <= 1 + forgotten[m]

\* Message m stands in the payload of a task that has not come past it.
InHand(m) ==
    \E t \in 1..Len(tasks) :
        /\ tasks[t].stage \in Live
        /\ \E k \in tasks[t].index..Len(tasks[t].payload) : tasks[t].payload[k] = m

\* m was acknowledged and nobody will answer it any more.
Lost(m) ==
    /\ answered[m] = 0
    /\ \E p \in Payloads : m \in ToSet(p)
    /\ \A p \in pending : m \notin ToSet(p)
    /\ ~InHand(m)

\* A message is lost only with a task that failed or was cancelled at it or at an
\* earlier message of its payload.
LostWithItsTask ==
    \A m \in Ids : Lost(m) =>
        \E t \in 1..Len(tasks) :
            /\ tasks[t].stage \in {"failed", "cancelled"}
            /\ \E k \in tasks[t].index..Len(tasks[t].payload) : tasks[t].payload[k] = m

\* The lock of a sender is held or waited for by exactly the live tasks at one of its
\* messages, each once: a task that fails or ends leaves no lock behind.
QueueExact ==
    \A s \in Senders :
        /\ ToSet(queue[s]) =
               {t \in 1..Len(tasks) : tasks[t].stage \in {"lock", "ask"} /\ SenderOf(t) = s}
        /\ NoRepetition(queue[s])

\* The two records of seen ids agree, and no lock is left behind or taken twice.
TablesExact == TypeOK /\ SeenAgree /\ QueueExact

Ended(t) == t <= Len(tasks) /\ tasks[t].stage \in Over

\* Every task ends, whatever its neighbours do: no lock stays with a task that is over.
TasksEnd == \A t \in 1..MaxTasks : t <= Len(tasks) ~> Ended(t)
=============================================================================
