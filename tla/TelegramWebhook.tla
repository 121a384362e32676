-------------------------- MODULE TelegramWebhook --------------------------
(***************************************************************************)
(* The Telegram webhook: the Bot API posts an update until one post is     *)
(* acknowledged, which the server does as soon as it has made a task.  The *)
(* task gets in line for the lock of its chat, shows that the bot types,   *)
(* asks the chat's agent, and sends the answer in parts outside the lock.  *)
(* Update ids are not remembered.                                          *)
(***************************************************************************)
EXTENDS Naturals, Sequences, FiniteSets

CONSTANTS
    Updates,      \* updates with a text, those of other kinds end the task at once
    Chats,
    Chat,         \* the chat of an update
    Refused,      \* the updates whose sender is not on the allowlist
    MaxTasks,     \* bound on the posts of the Bot API
    MaxParts,     \* bound on the parts of an answer
    MaxFailures,  \* bound on failing calls of the Bot API
    MaxRestarts   \* bound on restarts of the process

ASSUME ChatAssumption == Chat \in [Updates -> Chats] /\ Refused \subseteq Updates
ASSUME BoundsAssumption ==
    MaxTasks \in Nat /\ MaxParts \in Nat \ {0} /\ MaxFailures \in Nat /\ MaxRestarts \in Nat

VARIABLES
    pending,  \* Bot API: the updates not acknowledged yet
    tasks,    \* the background tasks of the process and of those before it, as they were made
    queue,    \* per chat, the task that has the lock and those that wait for it
    failures, restarts

vars == <<pending, tasks, queue, failures, restarts>>

Waiting == {"new", "lock", "ask"}
Over == {"refused", "done", "failed", "cancelled"}

\* left: parts of the answer still to be sent.
Tasks == [update : Updates, stage : Waiting \cup {"send"} \cup Over, left : 0..MaxParts]

TypeOK ==
    /\ pending \subseteq Updates
    /\ tasks \in Seq(Tasks) /\ Len(tasks) <= MaxTasks
    /\ queue \in [Chats -> Seq(1..MaxTasks)]
    /\ failures \in 0..MaxFailures /\ restarts \in 0..MaxRestarts

Init ==
    /\ pending = Updates
    /\ tasks = <<>>
    /\ queue = [c \in Chats |-> <<>>]
    /\ failures = 0 /\ restarts = 0

ChatOf(t) == Chat[tasks[t].update]
Moved(t, stage, n) == [tasks EXCEPT ![t] = [update |-> tasks[t].update, stage |-> stage, left |-> n]]

\* The webhook is posted an update; the acknowledgement may be lost.
Receive(u) ==
    /\ u \in pending
    /\ Len(tasks) < MaxTasks
    /\ tasks' = Append(tasks, [update |-> u, stage |-> "new", left |-> 0])
    /\ pending' \in {pending, pending \ {u}}
    /\ UNCHANGED <<queue, failures, restarts>>

-----------------------------------------------------------------------------
(* handle_update                                                           *)

\* Mutation of Begin: something is awaited before the lock, so that a task may be overtaken.
BeginLate(t) ==
    /\ tasks[t].stage = "new"
    /\ IF tasks[t].update \in Refused
       THEN tasks' = Moved(t, "refused", 0) /\ UNCHANGED queue
       ELSE /\ tasks' = Moved(t, "lock", 0)
            /\ queue' = [queue EXCEPT ![ChatOf(t)] = Append(@, t)]
    /\ UNCHANGED <<pending, failures, restarts>>

\* The event loop starts tasks in the order they were made; up to the lock nothing is awaited.
Begin(t) ==
    /\ tasks[t].stage = "new"
    /\ \A j \in 1..(t - 1) : tasks[j].stage # "new"
    /\ IF tasks[t].update \in Refused
       THEN tasks' = Moved(t, "refused", 0) /\ UNCHANGED queue
       ELSE /\ tasks' = Moved(t, "lock", 0)
            /\ queue' = [queue EXCEPT ![ChatOf(t)] = Append(@, t)]
    /\ UNCHANGED <<pending, failures, restarts>>

\* The task has the lock and the typing action succeeds: the agent is asked.
Type(t) ==
    /\ tasks[t].stage = "lock"
    /\ Head(queue[ChatOf(t)]) = t
    /\ tasks' = Moved(t, "ask", 0)
    /\ UNCHANGED <<pending, queue, failures, restarts>>

\* Mutation of TypeFails: the exception leaves with the lock held.
TypeFailsLocked(t) ==
    /\ tasks[t].stage = "lock"
    /\ Head(queue[ChatOf(t)]) = t
    /\ failures < MaxFailures
    /\ failures' = failures + 1
    /\ tasks' = Moved(t, "send", 1)
    /\ UNCHANGED <<pending, queue, restarts>>

\* The typing action raises: an apology is the answer and the agent is not asked.
TypeFails(t) ==
    /\ tasks[t].stage = "lock"
    /\ Head(queue[ChatOf(t)]) = t
    /\ failures < MaxFailures
    /\ failures' = failures + 1
    /\ tasks' = Moved(t, "send", 1)
    /\ queue' = [queue EXCEPT ![ChatOf(t)] = Tail(@)]
    /\ UNCHANGED <<pending, restarts>>

\* The agent answers, or raises and an apology is the answer; the lock is released.
Answer(t) ==
    /\ tasks[t].stage = "ask"
    /\ \E n \in 1..MaxParts : tasks' = Moved(t, "send", n)
    /\ queue' = [queue EXCEPT ![ChatOf(t)] = Tail(@)]
    /\ UNCHANGED <<pending, failures, restarts>>

\* Mutation of Send: only the first part is sent.
SendFirst(t) ==
    /\ tasks[t].stage = "send"
    /\ tasks' = Moved(t, "done", tasks[t].left - 1)
    /\ UNCHANGED <<pending, queue, failures, restarts>>

Send(t) ==
    /\ tasks[t].stage = "send"
    /\ LET left == tasks[t].left - 1
       IN tasks' = Moved(t, IF left = 0 THEN "done" ELSE "send", left)
    /\ UNCHANGED <<pending, queue, failures, restarts>>

\* Sending a part raises, and the exception ends the task.
SendFails(t) ==
    /\ tasks[t].stage = "send"
    /\ failures < MaxFailures
    /\ failures' = failures + 1
    /\ tasks' = Moved(t, "failed", tasks[t].left)
    /\ UNCHANGED <<pending, queue, restarts>>

\* The process stops, cancelling its tasks, or dies.  The next one registers the webhook
\* again and keeps the updates that wait there.
Restart ==
    /\ restarts < MaxRestarts
    /\ restarts' = restarts + 1
    /\ tasks' = [t \in 1..Len(tasks) |->
           IF tasks[t].stage \in Over THEN tasks[t] ELSE [tasks[t] EXCEPT !.stage = "cancelled"]]
    /\ queue' = [c \in Chats |-> <<>>]
    /\ UNCHANGED <<pending, failures>>

Step(t) == Begin(t) \/ Type(t) \/ Answer(t) \/ Send(t)

Next ==
    \/ \E u \in Updates : Receive(u)
    \/ \E t \in 1..Len(tasks) : Step(t) \/ TypeFails(t) \/ SendFails(t)
    \/ Restart

Spec == Init /\ [][Next]_vars

\* The event loop runs every task that can go on; calls of the agent and of the Bot API
\* have timeouts.
Fairness == \A t \in 1..MaxTasks : WF_vars(t <= Len(tasks) /\ Step(t))

FairSpec == Spec /\ Fairness

-----------------------------------------------------------------------------
(* Correctness                                                             *)

\* The agent of a chat is asked about one update at a time and in the order the posts came:
\* once it is a task's turn, no earlier task of the chat has its turn still to come or to
\* end.  An answer overtakes another only in sending, after both were asked for.
AskedInTurn ==
    \A t \in 1..Len(tasks) : tasks[t].stage \in {"ask", "send", "done", "failed"} =>
        \A j \in 1..(t - 1) : ChatOf(j) = ChatOf(t) => tasks[j].stage \notin Waiting

\* An acknowledged update that no task works on was answered in full, or a task of it was
\* refused, failed or was cancelled; nothing else loses an update.
LostWithItsTask ==
    /\ TypeOK
    /\ \A u \in Updates \ pending :
           LET mine == {t \in 1..Len(tasks) : tasks[t].update = u}
           IN \/ \E t \in mine : tasks[t].stage \in {"refused", "failed", "cancelled"}
              \/ \E t \in mine : tasks[t].stage = "done" /\ tasks[t].left = 0
              \/ \E t \in mine : tasks[t].stage \notin Over

Ended(t) == t <= Len(tasks) /\ tasks[t].stage \in Over

\* Every task ends, whatever fails in the tasks before it in its chat.
TasksEnd == \A t \in 1..MaxTasks : t <= Len(tasks) ~> Ended(t)
=============================================================================
