------------------------------- MODULE Memory -------------------------------
(***************************************************************************)
(* core/memory.py: several Memory objects, each with a connection of its   *)
(* own, over one SQLite file in WAL mode.                                  *)
(*                                                                         *)
(* A writing method executes statements and then commits.  Python opens a  *)
(* transaction before the first INSERT or DELETE; the file has one writer  *)
(* at a time, and a statement that waits longer than busy_timeout for it   *)
(* raises.  No method rolls back: after an exception the transaction stays *)
(* as SQLite left it, and the next method of that Memory goes on inside.   *)
(* Methods of one Memory exclude each other by Memory._lock; methods of    *)
(* different ones interleave between statements.                           *)
(***************************************************************************)
EXTENDS Naturals, Sequences, FiniteSets

CONSTANTS
    Conns,        \* Memory objects
    Sessions,
    Keys,         \* keys of facts
    MaxMessages,  \* memory_max_messages
    MaxFacts,     \* memory_max_facts
    MaxId,        \* bound on the rows ever inserted
    MaxClock,     \* bound on the values of time.time()
    MaxFaults,    \* bound on statements that fail half way
    None

ASSUME BoundsAssumption ==
    /\ MaxMessages \in Nat \ {0} /\ MaxFacts \in Nat \ {0}
    /\ MaxId \in Nat /\ MaxClock \in Nat \ {0} /\ MaxFaults \in Nat
ASSUME NoneAssumption == None \notin Sessions

VARIABLES
    db,      \* the committed file: [messages, facts, last]
    owner,   \* the session whose agent has this connection, or None when closed
    txn,     \* the transaction of each connection
    view,    \* what a connection in a transaction sees
    stale,   \* connections whose snapshot is older than the file
    op,      \* the method under way after its first statement, or Idle
    faults   \* statements that failed half way so far

vars == <<db, owner, txn, view, stale, op, faults>>

(* A file: the ids of the messages of each session, oldest first; the time *)
(* stamp of each fact, 0 when there is none; the last id AUTOINCREMENT     *)
(* gave out.                                                               *)
Files == [messages : [Sessions -> Seq(1..MaxId)],
          facts : [Sessions -> [Keys -> 0..MaxClock]],
          last : 0..MaxId]

Empty == [messages |-> [s \in Sessions |-> <<>>],
          facts |-> [s \in Sessions |-> [k \in Keys |-> 0]],
          last |-> 0]

\* none: autocommit. begun: BEGIN was executed and nothing else. reading: a snapshot is
\* held. writing: the write lock is held.
TxnStates == {"none", "begun", "reading", "writing"}

Idle == [kind |-> "idle"]
Methods == [kind : {"add", "forget", "clear"}] \cup [kind : {"remember"}, key : Keys]

TypeOK ==
    /\ db \in Files
    /\ owner \in [Conns -> Sessions \cup {None}]
    /\ txn \in [Conns -> TxnStates]
    /\ view \in [Conns -> Files]
    /\ stale \subseteq {c \in Conns : txn[c] = "reading"}
    /\ op \in [Conns -> Methods \cup {Idle}]
    /\ faults \in 0..MaxFaults

Init ==
    /\ db = Empty
    /\ owner = [c \in Conns |-> None]
    /\ txn = [c \in Conns |-> "none"]
    /\ view = [c \in Conns |-> Empty]
    /\ stale = {}
    /\ op = [c \in Conns |-> Idle]
    /\ faults = 0

-----------------------------------------------------------------------------
(* The statements                                                          *)

InsertMessage(f, s) ==
    [f EXCEPT !.messages[s] = Append(@, f.last + 1), !.last = @ + 1]

Excess(f, s) == Len(f.messages[s]) - MaxMessages

\* Mutation of TrimMessages: the condition is `excess > 1`.
TrimLate(f, s) ==
    IF Len(f.messages[s]) > MaxMessages + 1
    THEN [f EXCEPT !.messages[s] = SubSeq(@, Excess(f, s) + 1, Len(@))]
    ELSE f

\* _trim_session_messages: the oldest rows beyond the limit are deleted.
TrimMessages(f, s) ==
    IF Len(f.messages[s]) > MaxMessages
    THEN [f EXCEPT !.messages[s] = SubSeq(@, Excess(f, s) + 1, Len(@))]
    ELSE f

Present(f, s) == {k \in Keys : f.facts[s][k] # 0}

\* Mutation of Newest: ORDER BY ts without DESC.
Oldest(f, s) ==
    {K \in SUBSET Present(f, s) :
        /\ Cardinality(K) = IF Cardinality(Present(f, s)) < MaxFacts
                            THEN Cardinality(Present(f, s)) ELSE MaxFacts
        /\ \A k \in K, j \in Present(f, s) \ K : f.facts[s][k] <= f.facts[s][j]}

\* The sets of keys `ORDER BY ts DESC LIMIT MaxFacts` may return: ties fall either way.
Newest(f, s) ==
    {K \in SUBSET Present(f, s) :
        /\ Cardinality(K) = IF Cardinality(Present(f, s)) < MaxFacts
                            THEN Cardinality(Present(f, s)) ELSE MaxFacts
        /\ \A k \in K, j \in Present(f, s) \ K : f.facts[s][k] >= f.facts[s][j]}

KeepFacts(f, s, K) ==
    [f EXCEPT !.facts[s] = [k \in Keys |-> IF k \in K THEN @[k] ELSE 0]]

\* Mutation of DeleteMessages: the DELETE lost its `WHERE session=?`.
DeleteEverybodysMessages(f, s) == [f EXCEPT !.messages = [x \in Sessions |-> <<>>]]

DeleteMessages(f, s) == [f EXCEPT !.messages[s] = <<>>]
DeleteFacts(f, s) == [f EXCEPT !.facts[s] = [k \in Keys |-> 0]]

\* The first statement of a method of session s; time.time() is the wall clock, which
\* may stand still or go back.
First(f, s, m) ==
    CASE m.kind = "add" -> {InsertMessage(f, s)}
      [] m.kind = "remember" -> {[f EXCEPT !.facts[s][m.key] = now] : now \in 1..MaxClock}
      [] m.kind = "forget" -> {[f EXCEPT !.facts[s][k] = 0] : k \in Keys}
      [] m.kind = "clear" -> {DeleteMessages(f, s)}

\* What the file may be after the second one.
Second(f, s, m) ==
    CASE m.kind = "add" -> {TrimMessages(f, s)}
      [] m.kind = "remember" -> {KeepFacts(f, s, K) : K \in Newest(f, s)}
      [] m.kind = "forget" -> {f}
      [] m.kind = "clear" -> {DeleteFacts(f, s)}

-----------------------------------------------------------------------------
(* A method of connection c                                                *)

Usable(c) == owner[c] # None /\ op[c] = Idle

OthersWrite(c) == \E d \in Conns \ {c} : txn[d] = "writing"

\* What a statement of c sees: the file, or the transaction it is in.
Seen(c) == IF txn[c] \in {"reading", "writing"} THEN view[c] ELSE db

\* SQLite lets a connection write: nobody else does, and its snapshot is the file.
MayWrite(c) == ~OthersWrite(c) /\ c \notin stale

\* A method is called and its first statement gets or has the write lock.
Start(c, m) ==
    /\ Usable(c)
    /\ MayWrite(c)
    /\ m.kind = "add" => Seen(c).last < MaxId
    /\ \E f \in First(Seen(c), owner[c], m) : view' = [view EXCEPT ![c] = f]
    /\ txn' = [txn EXCEPT ![c] = "writing"]
    /\ op' = [op EXCEPT ![c] = m]
    /\ UNCHANGED <<db, owner, stale, faults>>

\* A method is called while another connection has held the write lock longer than
\* busy_timeout, or on a snapshot that is not the file's last state any more: the
\* first statement raises and the transaction that was opened for it stays open.
Locked(c) ==
    /\ Usable(c)
    /\ ~MayWrite(c)
    /\ txn' = [txn EXCEPT ![c] = IF @ = "none" THEN "begun" ELSE @]
    /\ UNCHANGED <<db, owner, view, stale, op, faults>>

\* Mutation of Finish: the method returns without its commit.
FinishNoCommit(c) ==
    /\ op[c] # Idle
    /\ \E f \in Second(view[c], owner[c], op[c]) : view' = [view EXCEPT ![c] = f]
    /\ op' = [op EXCEPT ![c] = Idle]
    /\ UNCHANGED <<db, owner, txn, stale, faults>>

\* The second statement and the commit.
Finish(c) ==
    /\ op[c] # Idle
    /\ db' \in Second(view[c], owner[c], op[c])
    /\ txn' = [txn EXCEPT ![c] = "none"]
    /\ view' = [view EXCEPT ![c] = Empty]
    /\ stale' = {d \in Conns : txn[d] = "reading"}
    /\ op' = [op EXCEPT ![c] = Idle]
    /\ UNCHANGED <<owner, faults>>

\* The second statement or the commit raises (the disk is full, an I/O error).  SQLite
\* rolls the transaction back by itself or leaves it open; the method does neither.
Fault(c) ==
    /\ op[c] # Idle
    /\ faults < MaxFaults
    /\ \/ /\ view' = [view EXCEPT ![c] = Empty]
          /\ txn' = [txn EXCEPT ![c] = "none"]
       \/ /\ \E f \in {view[c]} \cup Second(view[c], owner[c], op[c]) :
                 view' = [view EXCEPT ![c] = f]
          /\ UNCHANGED txn
    /\ op' = [op EXCEPT ![c] = Idle]
    /\ faults' = faults + 1
    /\ UNCHANGED <<db, owner, stale>>

\* The first statement itself fails so: nothing was inserted or deleted.
StartFault(c) ==
    /\ Usable(c)
    /\ MayWrite(c)
    /\ faults < MaxFaults
    /\ \/ /\ view' = [view EXCEPT ![c] = Empty]
          /\ txn' = [txn EXCEPT ![c] = "none"]
       \/ /\ view' = [view EXCEPT ![c] = Seen(c)]
          /\ txn' = [txn EXCEPT ![c] = "writing"]
    /\ faults' = faults + 1
    /\ UNCHANGED <<db, owner, stale, op>>

\* Mutation of Read: a SELECT starts a transaction of its own.
ReadAfresh(c) ==
    /\ Usable(c)
    /\ txn[c] \in {"begun", "reading"}
    /\ txn' = [txn EXCEPT ![c] = "reading"]
    /\ view' = [view EXCEPT ![c] = db]
    /\ stale' = stale \ {c}
    /\ UNCHANGED <<db, owner, op, faults>>

\* history, relevant_context, recall, all_facts: a SELECT in a transaction that was
\* left open takes a snapshot and keeps it.
Read(c) ==
    /\ Usable(c)
    /\ txn[c] = "begun"
    /\ txn' = [txn EXCEPT ![c] = "reading"]
    /\ view' = [view EXCEPT ![c] = db]
    /\ UNCHANGED <<db, owner, stale, op, faults>>

-----------------------------------------------------------------------------

\* Connections C are closed: their transactions are rolled back.
Discard(C) ==
    /\ owner' = [c \in Conns |-> IF c \in C THEN None ELSE owner[c]]
    /\ txn' = [c \in Conns |-> IF c \in C THEN "none" ELSE txn[c]]
    /\ view' = [c \in Conns |-> IF c \in C THEN Empty ELSE view[c]]
    /\ op' = [c \in Conns |-> IF c \in C THEN Idle ELSE op[c]]
    /\ stale' = stale \ C

\* Memory(): an agent of session s opens its connection.
Open(c, s) ==
    /\ owner[c] = None
    /\ owner' = [owner EXCEPT ![c] = s]
    /\ UNCHANGED <<db, txn, view, stale, op, faults>>

\* Memory.close: an open transaction is rolled back.
Close(c) ==
    /\ Usable(c)
    /\ Discard({c})
    /\ UNCHANGED <<db, faults>>

\* The process dies: whatever was not committed is gone.
Crash ==
    /\ \E c \in Conns : owner[c] # None
    /\ Discard(Conns)
    /\ UNCHANGED <<db, faults>>

Step(c) ==
    \/ \E s \in Sessions : Open(c, s)
    \/ \E m \in Methods : Start(c, m)
    \/ Finish(c)
    \/ Fault(c)
    \/ StartFault(c)
    \/ Locked(c)
    \/ Read(c)
    \/ Close(c)

Next == (\E c \in Conns : Step(c)) \/ Crash

Spec == Init /\ [][Next]_vars

-----------------------------------------------------------------------------
(* Correctness                                                             *)

\* The messages and facts of a session stay within their limits, up to one row for each
\* statement that failed half way: its insertion is committed by a later method.
BoundedGrowth ==
    \A s \in Sessions :
        /\ Len(db.messages[s]) <= MaxMessages + faults
        /\ Cardinality(Present(db, s)) <= MaxFacts + faults

\* What a connection commits was built on the last committed state: a step changes the
\* rows of no session but the one whose connection committed, even when a transaction
\* left open by an earlier failure is committed long after.
SessionIsolation ==
    [][\A s \in Sessions :
          \/ db'.messages[s] = db.messages[s] /\ db'.facts[s] = db.facts[s]
          \/ \E c \in Conns : owner[c] = s /\ op[c] # Idle /\ op'[c] = Idle]_vars

\* Messages of a session are read in the order they were inserted, and no two rows of
\* the file have one id, whichever transactions were given up in between.
IdsUnique ==
    \A s, t \in Sessions : \A i \in 1..Len(db.messages[s]), j \in 1..Len(db.messages[t]) :
        /\ db.messages[s][i] = db.messages[t][j] => s = t /\ i = j
        /\ s = t /\ i < j => db.messages[s][i] < db.messages[t][j]

\* `remember` keeps the fact it was called for, unless as many others carry a time
\* stamp at least as new, which only a clock that stands still or went back causes.
FactKept ==
    [][\A c \in Conns :
          op[c] # Idle /\ op[c].kind = "remember" /\ op'[c] = Idle /\ faults' = faults /\ owner'[c] # None
          => LET s == owner[c]
                 k == op[c].key
                 asNew == {j \in Keys \ {k} : view[c].facts[s][j] >= view[c].facts[s][k]}
             IN db'.facts[s][k] # 0 \/ Cardinality(asNew) >= MaxFacts]_vars

\* A connection in the middle of a transaction that another connection's commit overtook.
Wedged(c) == txn[c] = "reading" /\ c \in stale

\* A wedged connection commits nothing more and sees nothing newer until it is closed:
\* every write of its session raises "database is locked", every read is the old state.
WedgedUntilClosed ==
    [][\A c \in Conns : Wedged(c) =>
          (Wedged(c)' /\ view'[c] = view[c] /\ op'[c] = Idle) \/ owner'[c] = None]_vars

\* The write lock is held between methods only after a statement failed half way.
LockReleased ==
    \A c \in Conns : txn[c] = "writing" /\ op[c] = Idle => faults > 0

\* The file and the connections on it stay in order: rows have ids of their own, and
\* no method that succeeds leaves the write lock with its connection.
FileExact == TypeOK /\ IdsUnique /\ LockReleased
=============================================================================
