--------------------------- MODULE Memory_proofs ----------------------------
(***************************************************************************)
(* Proofs about Memory: any number of connections, sessions and keys (the  *)
(* keys need not be finitely many), any limits.  The tables are one value  *)
(* of Files, so the first half is about what a statement does to a file,   *)
(* the second about which file a connection's statements work on.          *)
(***************************************************************************)
EXTENDS Memory, FiniteSetTheorems, SequenceTheorems, TLAPS

-----------------------------------------------------------------------------
(* The inductive invariant                                                 *)

\* A method is under way only inside a write transaction, which one connection has.
Locks ==
    /\ \A c \in Conns : op[c] # Idle => txn[c] = "writing"
    /\ \A c \in Conns : owner[c] = None => txn[c] = "none"
    /\ \A c, d \in Conns : txn[c] = "writing" /\ txn[d] = "writing" => c = d

\* A snapshot that is not stale is the file; a write transaction differs from the file only
\* in the rows of its session.
Follows ==
    \A c \in Conns :
        /\ txn[c] = "reading" /\ c \notin stale => view[c] = db
        /\ txn[c] = "writing" =>
              \A s \in Sessions \ {owner[c]} :
                  view[c].messages[s] = db.messages[s] /\ view[c].facts[s] = db.facts[s]

\* Rows have ids of their own, in the order of their insertion.
Ordered(f) ==
    \A s, t \in Sessions : \A i \in 1..Len(f.messages[s]), j \in 1..Len(f.messages[t]) :
        /\ f.messages[s][i] = f.messages[t][j] => s = t /\ i = j
        /\ s = t /\ i < j => f.messages[s][i] < f.messages[t][j]

\* ... and the next id is newer than all of them.
RowsFit(f) ==
    /\ \A s \in Sessions : \A i \in 1..Len(f.messages[s]) : f.messages[s][i] <= f.last
    /\ Ordered(f)

\* At most m messages and n facts of session s above the limits.
Within(f, s, m, n) ==
    /\ Len(f.messages[s]) <= MaxMessages + m
    /\ IsFiniteSet(Present(f, s))
    /\ Cardinality(Present(f, s)) <= MaxFacts + n

\* The row that the method under way has inserted and its second statement will make up for.
Added(c, s, kind) == IF op[c].kind = kind /\ owner[c] = s THEN 1 ELSE 0

Grown ==
    \A s \in Sessions :
        /\ Within(db, s, faults, faults)
        /\ \A c \in Conns :
              Within(view[c], s, faults + Added(c, s, "add"), faults + Added(c, s, "remember"))

\* The fact that a `remember` under way has written.
KeyKept == \A c \in Conns : op[c].kind = "remember" => view[c].facts[owner[c]][op[c].key] # 0

Rows == RowsFit(db) /\ \A c \in Conns : RowsFit(view[c])

IInv == TypeOK /\ Locks /\ LockReleased /\ Follows /\ Rows /\ Grown /\ KeyKept

-----------------------------------------------------------------------------
(* What the statements do to a file                                        *)

\* Of a session, the statements of another one leave the rows.
Apart(f, g, s) ==
    \A t \in Sessions \ {s} : g.messages[t] = f.messages[t] /\ g.facts[t] = f.facts[t]

LEMMA Kinds ==
    ASSUME NEW m \in Methods
    PROVE  /\ m.kind \in {"add", "forget", "clear", "remember"} /\ m # Idle
           /\ m.kind = "remember" => m.key \in Keys
BY DEF Methods, Idle

LEMMA ElementsOf ==
    ASSUME NEW S, NEW q \in Seq(S)
    PROVE  Len(q) \in Nat /\ \A i \in 1..Len(q) : q[i] \in S
OBVIOUS

\* The end of a sequence.
LEMMA TailOf ==
    ASSUME NEW S, NEW q \in Seq(S), NEW n \in 0..Len(q)
    PROVE  LET r == SubSeq(q, n + 1, Len(q)) IN
           /\ r \in Seq(S) /\ Len(r) = Len(q) - n
           /\ \A i \in 1..Len(r) : i + n \in 1..Len(q) /\ r[i] = q[i + n]
<1> DEFINE r == SubSeq(q, n + 1, Len(q))
<1>1. Len(q) \in Nat /\ n \in Nat /\ n <= Len(q)
  OBVIOUS
<1>2. \A i \in (n + 1)..Len(q) : q[i] \in S
  BY <1>1, ElementsOf
<1>3. /\ r \in Seq(S) /\ Len(r) = IF n + 1 <= Len(q) THEN Len(q) - (n + 1) + 1 ELSE 0
      /\ \A i \in 1..(Len(q) - (n + 1) + 1) : r[i] = q[(n + 1) + i - 1]
  BY <1>1, <1>2, SubSeqProperties
<1> HIDE DEF r
<1>4. Len(r) = Len(q) - n
  BY <1>1, <1>3
<1>5. ASSUME NEW i \in 1..Len(r)
      PROVE  i + n \in 1..Len(q) /\ r[i] = q[i + n]
  <2>1. i + n \in 1..Len(q) /\ (n + 1) + i - 1 = i + n /\ i \in 1..(Len(q) - (n + 1) + 1)
    BY <1>1, <1>4
  <2> QED
    BY <1>3, <2>1
<1> QED
  BY <1>3, <1>4, <1>5 DEF r

LEMMA FileParts ==
    ASSUME NEW f \in Files, NEW s \in Sessions
    PROVE  /\ f.messages[s] \in Seq(1..MaxId) /\ f.facts[s] \in [Keys -> 0..MaxClock]
           /\ Len(f.messages[s]) \in Nat /\ f.last \in 0..MaxId
           /\ \A i \in 1..Len(f.messages[s]) : f.messages[s][i] \in 1..MaxId
<1>1. f.messages[s] \in Seq(1..MaxId) /\ f.facts[s] \in [Keys -> 0..MaxClock] /\ f.last \in 0..MaxId
  BY DEF Files
<1>2. Len(f.messages[s]) \in Nat /\ \A i \in 1..Len(f.messages[s]) : f.messages[s][i] \in 1..MaxId
  BY <1>1, ElementsOf
<1> QED
  BY <1>1, <1>2

\* A row appended with a fresh id.
LEMMA InsertFits ==
    ASSUME NEW f \in Files, NEW s \in Sessions, f.last < MaxId, RowsFit(f)
    PROVE  LET g == InsertMessage(f, s) IN
           /\ g \in Files /\ RowsFit(g) /\ Apart(f, g, s)
           /\ Len(g.messages[s]) = Len(f.messages[s]) + 1 /\ g.facts = f.facts
<1> DEFINE g == InsertMessage(f, s)
<1>1. /\ g.messages = [f.messages EXCEPT ![s] = Append(@, f.last + 1)]
      /\ g.facts = f.facts /\ g.last = f.last + 1
  BY DEF InsertMessage, Files
<1>2. f.last + 1 \in 1..MaxId
  BY BoundsAssumption DEF Files
<1>3. g \in Files
  <2>1. Append(f.messages[s], f.last + 1) \in Seq(1..MaxId)
    BY <1>2, FileParts
  <2>2. [f.messages EXCEPT ![s] = Append(@, f.last + 1)] \in [Sessions -> Seq(1..MaxId)]
    BY <2>1 DEF Files
  <2>3. \A h \in [Sessions -> Seq(1..MaxId)], n \in 0..MaxId :
           [f EXCEPT !.messages = h, !.last = n] \in Files
    BY DEF Files
  <2>4. f.last + 1 \in 0..MaxId
    BY <1>2, BoundsAssumption
  <2>5. g = [f EXCEPT !.messages = [f.messages EXCEPT ![s] = Append(@, f.last + 1)],
                      !.last = f.last + 1]
    BY DEF InsertMessage, Files
  <2> HIDE DEF g
  <2> QED
    BY <2>2, <2>3, <2>4, <2>5
<1>4. /\ Len(g.messages[s]) = Len(f.messages[s]) + 1
      /\ \A i \in 1..Len(f.messages[s]) : g.messages[s][i] = f.messages[s][i]
      /\ g.messages[s][Len(f.messages[s]) + 1] = f.last + 1
      /\ \A t \in Sessions \ {s} : g.messages[t] = f.messages[t]
  <2>1. g.messages[s] = Append(f.messages[s], f.last + 1)
    BY <1>1 DEF Files
  <2>2. \A t \in Sessions \ {s} : g.messages[t] = f.messages[t]
    BY <1>1 DEF Files
  <2> QED
    BY <2>1, <2>2, FileParts
<1> HIDE DEF g
<1>5. \A t \in Sessions : \A i \in 1..Len(g.messages[t]) :
          \/ t = s /\ i = Len(f.messages[s]) + 1 /\ g.messages[t][i] = f.last + 1
          \/ i \in 1..Len(f.messages[t]) /\ g.messages[t][i] = f.messages[t][i]
             /\ f.messages[t][i] <= f.last
  <2> TAKE t \in Sessions
  <2> TAKE i \in 1..Len(g.messages[t])
  <2>2. Len(f.messages[t]) \in Nat
    BY FileParts
  <2>3. t # s => Len(g.messages[t]) = Len(f.messages[t])
    BY <1>4
  <2> QED
    BY <1>4, <2>2, <2>3 DEF RowsFit
<1>6. \A t \in Sessions : Len(f.messages[t]) \in Nat
           /\ \A i \in 1..Len(f.messages[t]) : f.messages[t][i] \in Nat
  BY FileParts
<1>7. f.last \in Nat
  BY FileParts
<1>8. Ordered(g)
  <2>1. SUFFICES ASSUME NEW t \in Sessions, NEW u \in Sessions,
                        NEW i \in 1..Len(g.messages[t]), NEW j \in 1..Len(g.messages[u])
                 PROVE  /\ g.messages[t][i] = g.messages[u][j] => t = u /\ i = j
                        /\ t = u /\ i < j => g.messages[t][i] < g.messages[u][j]
    BY DEF Ordered
  <2> DEFINE n == Len(f.messages[s]) + 1
             x == g.messages[t][i]
             y == g.messages[u][j]
  <2>2. \/ t = s /\ i = n /\ x = f.last + 1
        \/ i \in 1..Len(f.messages[t]) /\ x = f.messages[t][i] /\ x <= f.last
    BY <1>5
  <2>3. \/ u = s /\ j = n /\ y = f.last + 1
        \/ j \in 1..Len(f.messages[u]) /\ y = f.messages[u][j] /\ y <= f.last
    BY <1>5
  <2>4. i \in 1..Len(f.messages[t]) /\ j \in 1..Len(f.messages[u]) =>
          /\ f.messages[t][i] = f.messages[u][j] => t = u /\ i = j
          /\ t = u /\ i < j => f.messages[t][i] < f.messages[u][j]
    BY DEF RowsFit, Ordered
  <2>5. /\ i \in 1..Len(f.messages[t]) => f.messages[t][i] \in Nat
        /\ j \in 1..Len(f.messages[u]) => f.messages[u][j] \in Nat
        /\ Len(f.messages[s]) \in Nat
    BY <1>6
  <2>6. (x = y => t = u /\ i = j) /\ (t = u /\ i < j => x < y)
    <3> HIDE DEF x, y
    <3> QED
      BY <1>7, <2>2, <2>3, <2>4, <2>5
  <2> QED
    BY <2>6
<1>9. RowsFit(g)
  BY <1>1, <1>5, <1>6, <1>7, <1>8 DEF RowsFit
<1> QED
  BY <1>1, <1>3, <1>4, <1>9 DEF Apart, g

\* Rows deleted from the front of one session.
LEMMA DropFits ==
    ASSUME NEW f \in Files, NEW s \in Sessions, RowsFit(f), NEW n \in 0..Len(f.messages[s])
    PROVE  LET g == [f EXCEPT !.messages[s] = SubSeq(@, n + 1, Len(@))] IN
           /\ g \in Files /\ RowsFit(g) /\ Apart(f, g, s)
           /\ Len(g.messages[s]) = Len(f.messages[s]) - n /\ g.facts = f.facts
<1> DEFINE g == [f EXCEPT !.messages[s] = SubSeq(@, n + 1, Len(@))]
           q == f.messages[s]
           r == SubSeq(q, n + 1, Len(q))
<1>1. /\ g.messages = [f.messages EXCEPT ![s] = r]
      /\ g.facts = f.facts /\ g.last = f.last
  BY DEF Files
<1>2. q \in Seq(1..MaxId) /\ Len(q) \in Nat
  BY FileParts
<1>3. /\ r \in Seq(1..MaxId) /\ Len(r) = Len(q) - n
      /\ \A i \in 1..Len(r) : i + n \in 1..Len(q) /\ r[i] = q[i + n]
  BY <1>2, TailOf
<1> HIDE DEF q, r
<1>4. g.messages[s] = r /\ \A t \in Sessions \ {s} : g.messages[t] = f.messages[t]
  BY <1>1 DEF Files
<1>5. [f.messages EXCEPT ![s] = r] \in [Sessions -> Seq(1..MaxId)]
  BY <1>3 DEF Files
<1>6. g \in Files
  <2>1. g = [f EXCEPT !.messages = [f.messages EXCEPT ![s] = r]]
    BY DEF q, r, Files
  <2> QED
    BY <1>5, <2>1 DEF Files
<1> HIDE DEF g
<1>7. \A t \in Sessions : \E d \in Nat : \A i \in 1..Len(g.messages[t]) :
          i + d \in 1..Len(f.messages[t]) /\ g.messages[t][i] = f.messages[t][i + d]
  <2> TAKE t \in Sessions
  <2>2. CASE t = s
    <3>1. n \in Nat
      BY <1>2 DEF q
    <3> QED
      BY <1>3, <1>4, <2>2, <3>1 DEF q
  <2>3. CASE t # s
    <3>1. \A i \in 1..Len(g.messages[t]) :
             i + 0 \in 1..Len(f.messages[t]) /\ g.messages[t][i] = f.messages[t][i + 0]
      BY <1>4, <2>3, FileParts
    <3> QED
      BY <3>1
  <2> QED
    BY <2>2, <2>3
<1>8. Ordered(g)
  <2>1. SUFFICES ASSUME NEW t \in Sessions, NEW u \in Sessions,
                        NEW i \in 1..Len(g.messages[t]), NEW j \in 1..Len(g.messages[u])
                 PROVE  /\ g.messages[t][i] = g.messages[u][j] => t = u /\ i = j
                        /\ t = u /\ i < j => g.messages[t][i] < g.messages[u][j]
    BY DEF Ordered
  <2>2. Len(g.messages[t]) \in Nat /\ Len(g.messages[u]) \in Nat
    BY <1>6, FileParts
  <2>3. PICK d \in Nat : \A k \in 1..Len(g.messages[t]) :
          k + d \in 1..Len(f.messages[t]) /\ g.messages[t][k] = f.messages[t][k + d]
    BY <1>7
  <2>4. PICK e \in Nat : (t = u => e = d) /\ \A k \in 1..Len(g.messages[u]) :
          k + e \in 1..Len(f.messages[u]) /\ g.messages[u][k] = f.messages[u][k + e]
    BY <1>7, <2>3
  <2>5. /\ i + d \in 1..Len(f.messages[t]) /\ j + e \in 1..Len(f.messages[u])
        /\ g.messages[t][i] = f.messages[t][i + d] /\ g.messages[u][j] = f.messages[u][j + e]
    BY <2>3, <2>4
  <2>6. /\ f.messages[t][i + d] = f.messages[u][j + e] => t = u /\ i + d = j + e
        /\ t = u /\ i + d < j + e => f.messages[t][i + d] < f.messages[u][j + e]
    BY <2>5 DEF RowsFit, Ordered
  <2> QED
    BY <2>2, <2>3, <2>4, <2>5, <2>6
<1>9. RowsFit(g)
  BY <1>1, <1>7, <1>8 DEF RowsFit
<1> QED
  BY <1>1, <1>3, <1>4, <1>6, <1>9 DEF Apart, g, q

\* Facts of one session written.
LEMMA FactsFit ==
    ASSUME NEW f \in Files, NEW s \in Sessions, RowsFit(f), NEW h \in [Keys -> 0..MaxClock]
    PROVE  LET g == [f EXCEPT !.facts[s] = h] IN
           /\ g \in Files /\ RowsFit(g) /\ Apart(f, g, s)
           /\ g.messages = f.messages /\ g.facts[s] = h
<1> DEFINE g == [f EXCEPT !.facts[s] = h]
<1>1. /\ g.facts = [f.facts EXCEPT ![s] = h] /\ g.messages = f.messages /\ g.last = f.last
  BY DEF Files
<1>2. [f.facts EXCEPT ![s] = h] \in [Sessions -> [Keys -> 0..MaxClock]]
  BY DEF Files
<1>3. g \in Files
  BY <1>2 DEF Files
<1>4. g.facts[s] = h /\ \A t \in Sessions \ {s} : g.facts[t] = f.facts[t]
  BY <1>1 DEF Files
<1>5. RowsFit(g)
  BY <1>1 DEF RowsFit, Ordered
<1> QED
  BY <1>1, <1>3, <1>4, <1>5 DEF Apart

\* What a statement that writes facts of one session leaves within the limits.
LEMMA FactsWithin ==
    ASSUME NEW f \in Files, NEW g, NEW s \in Sessions, NEW m \in Nat, NEW n \in Nat, NEW k \in Nat,
           Within(f, s, m, n), g.messages = f.messages,
           IsFiniteSet(Present(g, s)), Cardinality(Present(g, s)) <= MaxFacts + k
    PROVE  Within(g, s, m, k)
BY DEF Within

\* A session's rows are as far within the limits in any file that has the same ones.
LEMMA SameWithin ==
    ASSUME NEW f, NEW g, NEW s, NEW m, NEW n, Within(f, s, m, n),
           g.messages[s] = f.messages[s], g.facts[s] = f.facts[s]
    PROVE  Within(g, s, m, n)
BY DEF Within, Present

LEMMA MoreWithin ==
    ASSUME NEW f \in Files, NEW s \in Sessions, NEW m \in Nat, NEW n \in Nat, Within(f, s, m, n),
           NEW k \in Nat, NEW l \in Nat, m <= k, n <= l
    PROVE  Within(f, s, k, l)
<1>1. Cardinality(Present(f, s)) \in Nat
  BY FS_CardinalityType DEF Within
<1> QED
  BY <1>1, FileParts, BoundsAssumption DEF Within

\* The first statement of `remember`: at most one more key has a fact, the one it is for.
LEMMA StampWithin ==
    ASSUME NEW f \in Files, NEW s \in Sessions, NEW key \in Keys, NEW now \in 1..MaxClock,
           RowsFit(f)
    PROVE  LET g == [f EXCEPT !.facts[s][key] = now] IN
           /\ g \in Files /\ RowsFit(g) /\ Apart(f, g, s) /\ g.facts[s][key] # 0
           /\ \A m, n \in Nat : Within(f, s, m, n) => Within(g, s, m, n + 1)
<1> DEFINE h == [f.facts[s] EXCEPT ![key] = now]
           g == [f EXCEPT !.facts[s] = h]
<1>1. h \in [Keys -> 0..MaxClock] /\ h[key] = now
  BY FileParts, BoundsAssumption
<1>2. [f EXCEPT !.facts[s][key] = now] = g
  BY DEF Files
<1>3. g \in Files /\ RowsFit(g) /\ Apart(f, g, s) /\ g.messages = f.messages /\ g.facts[s] = h
  BY <1>1, FactsFit
<1> HIDE DEF g
<1>4. Present(g, s) \subseteq Present(f, s) \cup {key}
  BY <1>3, FileParts DEF Present
<1>5. ASSUME NEW m \in Nat, NEW n \in Nat, Within(f, s, m, n) PROVE Within(g, s, m, n + 1)
  <2>1. /\ IsFiniteSet(Present(f, s) \cup {key})
        /\ Cardinality(Present(f, s) \cup {key}) <= Cardinality(Present(f, s)) + 1
        /\ Cardinality(Present(f, s)) \in Nat
    <3>1. IsFiniteSet(Present(f, s))
      BY <1>5 DEF Within
    <3>2. Cardinality(Present(f, s)) \in Nat
      BY <3>1, FS_CardinalityType
    <3> DEFINE P == Present(f, s)
    <3>3. /\ IsFiniteSet(P \cup {key})
          /\ Cardinality(P \cup {key}) = IF key \in P THEN Cardinality(P) ELSE Cardinality(P) + 1
      <4> HIDE DEF P
      <4> QED
        BY <3>1, FS_AddElement DEF P
    <3> QED
      BY <3>2, <3>3
  <2>2. IsFiniteSet(Present(g, s))
        /\ Cardinality(Present(g, s)) <= Cardinality(Present(f, s) \cup {key})
    BY <1>4, <2>1, FS_Subset
  <2>3. Cardinality(Present(g, s)) \in Nat /\ Cardinality(Present(f, s) \cup {key}) \in Nat
    BY <2>1, <2>2, FS_CardinalityType
  <2>4. Cardinality(Present(g, s)) <= MaxFacts + (n + 1)
    BY <2>1, <2>2, <2>3, <1>5, BoundsAssumption DEF Within
  <2> QED
    BY <1>3, <1>5, <2>2, <2>4, FactsWithin
<1>6. g.facts[s][key] # 0
  BY <1>1, <1>3
<1> QED
  BY <1>2, <1>3, <1>5, <1>6

\* Facts of one session deleted, all but those of a set of keys.
LEMMA KeepWithin ==
    ASSUME NEW f \in Files, NEW s \in Sessions, RowsFit(f), NEW h \in [Keys -> 0..MaxClock],
           \A k \in Keys : h[k] # 0 => f.facts[s][k] # 0
    PROVE  LET g == [f EXCEPT !.facts[s] = h] IN
           /\ g \in Files /\ RowsFit(g) /\ Apart(f, g, s) /\ g.facts[s] = h
           /\ \A m, n \in Nat : Within(f, s, m, n) => Within(g, s, m, n)
<1> DEFINE g == [f EXCEPT !.facts[s] = h]
<1>1. g \in Files /\ RowsFit(g) /\ Apart(f, g, s) /\ g.messages = f.messages /\ g.facts[s] = h
  BY FactsFit
<1> HIDE DEF g
<1>2. Present(g, s) \subseteq Present(f, s)
  BY <1>1 DEF Present
<1>3. ASSUME NEW m \in Nat, NEW n \in Nat, Within(f, s, m, n) PROVE Within(g, s, m, n)
  <2>1. /\ IsFiniteSet(Present(g, s))
        /\ Cardinality(Present(g, s)) <= Cardinality(Present(f, s))
    BY <1>2, <1>3, FS_Subset DEF Within
  <2>2. Cardinality(Present(g, s)) \in Nat /\ Cardinality(Present(f, s)) \in Nat
    BY <1>3, <2>1, FS_CardinalityType DEF Within
  <2>3. Cardinality(Present(g, s)) <= MaxFacts + n
    BY <1>3, <2>1, <2>2, BoundsAssumption DEF Within
  <2> QED
    BY <1>1, <1>3, <2>1, <2>3, FactsWithin
<1> QED
  BY <1>1, <1>3 DEF g

LEMMA TrimWithin ==
    ASSUME NEW f \in Files, NEW s \in Sessions, RowsFit(f)
    PROVE  LET g == TrimMessages(f, s) IN
           /\ g \in Files /\ RowsFit(g) /\ Apart(f, g, s)
           /\ \A m, n \in Nat : Within(f, s, m, n) => Within(g, s, 0, n)
<1>1. Len(f.messages[s]) \in Nat /\ MaxMessages \in Nat
  BY FileParts, BoundsAssumption
<1>2. CASE Len(f.messages[s]) > MaxMessages
  <2> DEFINE n == Excess(f, s)
             g == [f EXCEPT !.messages[s] = SubSeq(@, n + 1, Len(@))]
  <2>1. n \in 0..Len(f.messages[s]) /\ Len(f.messages[s]) - n = MaxMessages
    BY <1>1, <1>2 DEF Excess
  <2>2. TrimMessages(f, s) = g
    BY <1>2 DEF TrimMessages
  <2> HIDE DEF n
  <2>3. /\ g \in Files /\ RowsFit(g) /\ Apart(f, g, s)
        /\ Len(g.messages[s]) = MaxMessages /\ g.facts = f.facts
    BY <2>1, DropFits
  <2> HIDE DEF g
  <2>4. \A i, j \in Nat : Within(f, s, i, j) => Within(g, s, 0, j)
    BY <1>1, <2>3 DEF Within, Present
  <2> QED
    BY <2>2, <2>3, <2>4
<1>3. CASE ~(Len(f.messages[s]) > MaxMessages)
  <2>1. TrimMessages(f, s) = f
    BY <1>3 DEF TrimMessages
  <2>2. \A i, j \in Nat : Within(f, s, i, j) => Within(f, s, 0, j)
    BY <1>1, <1>3 DEF Within
  <2> QED
    BY <2>1, <2>2 DEF Apart
<1> QED
  BY <1>2, <1>3

LEMMA DeleteFits ==
    ASSUME NEW f \in Files, NEW s \in Sessions, RowsFit(f)
    PROVE  LET g == DeleteMessages(f, s) IN
           /\ g \in Files /\ RowsFit(g) /\ Apart(f, g, s)
           /\ \A m, n \in Nat : Within(f, s, m, n) => Within(g, s, m, n)
<1> DEFINE n == Len(f.messages[s])
           g == [f EXCEPT !.messages[s] = SubSeq(@, n + 1, Len(@))]
<1>1. n \in 0..n
  BY FileParts
<1>2. /\ g \in Files /\ RowsFit(g) /\ Apart(f, g, s) /\ Len(g.messages[s]) = n - n
      /\ g.facts = f.facts
  BY <1>1, DropFits
<1>3. SubSeq(f.messages[s], n + 1, n) = << >>
  <2>1. f.messages[s] \in Seq(1..MaxId)
    BY FileParts
  <2> QED
    BY <2>1
<1>4. DeleteMessages(f, s) = g
  BY <1>3 DEF DeleteMessages, Files
<1> HIDE DEF g
<1>5. \A i, j \in Nat : Within(f, s, i, j) => Within(g, s, i, j)
  BY <1>1, <1>2, BoundsAssumption DEF Within, Present
<1> QED
  BY <1>2, <1>4, <1>5

\* The first statement: one row more at most, in the rows of its session.
LEMMA FirstFits ==
    ASSUME NEW f \in Files, NEW s \in Sessions, NEW m \in Methods,
           m.kind = "add" => f.last < MaxId, RowsFit(f), NEW g \in First(f, s, m)
    PROVE  /\ g \in Files /\ RowsFit(g) /\ Apart(f, g, s)
           /\ m.kind = "remember" => g.facts[s][m.key] # 0
           /\ \A n \in Nat : Within(f, s, n, n) =>
                 Within(g, s, n + (IF m.kind = "add" THEN 1 ELSE 0),
                              n + (IF m.kind = "remember" THEN 1 ELSE 0))
<1>1. CASE m.kind = "add"
  <2>1. g = InsertMessage(f, s)
    BY <1>1 DEF First
  <2>2. /\ g \in Files /\ RowsFit(g) /\ Apart(f, g, s)
        /\ Len(g.messages[s]) = Len(f.messages[s]) + 1 /\ g.facts = f.facts
    BY <1>1, <2>1, InsertFits
  <2>3. \A n \in Nat : Within(f, s, n, n) => Within(g, s, n + 1, n)
    BY <2>2, FileParts, BoundsAssumption DEF Within, Present
  <2> QED
    BY <1>1, <2>2, <2>3
<1>2. CASE m.kind = "remember"
  <2>1. PICK now \in 1..MaxClock : g = [f EXCEPT !.facts[s][m.key] = now]
    BY <1>2 DEF First
  <2>2. m.key \in Keys
    BY <1>2, Kinds
  <2>3. /\ g \in Files /\ RowsFit(g) /\ Apart(f, g, s) /\ g.facts[s][m.key] # 0
        /\ \A i, j \in Nat : Within(f, s, i, j) => Within(g, s, i, j + 1)
    BY <2>1, <2>2, StampWithin
  <2>4. \A n \in Nat : Within(f, s, n, n) => Within(g, s, n + 0, n + 1)
    BY <2>3
  <2> QED
    BY <1>2, <2>3, <2>4
<1>3. CASE m.kind = "forget"
  <2>1. PICK k \in Keys : g = [f EXCEPT !.facts[s][k] = 0]
    BY <1>3 DEF First
  <2> DEFINE h == [f.facts[s] EXCEPT ![k] = 0]
  <2>2. h \in [Keys -> 0..MaxClock] /\ \A j \in Keys : h[j] # 0 => f.facts[s][j] # 0
    BY FileParts, BoundsAssumption
  <2>3. g = [f EXCEPT !.facts[s] = h]
    BY <2>1 DEF Files
  <2> HIDE DEF h
  <2>4. /\ g \in Files /\ RowsFit(g) /\ Apart(f, g, s)
        /\ \A i, j \in Nat : Within(f, s, i, j) => Within(g, s, i, j)
    BY <2>2, <2>3, KeepWithin
  <2> QED
    BY <1>3, <2>4
<1>4. CASE m.kind = "clear"
  <2>1. g = DeleteMessages(f, s)
    BY <1>4 DEF First
  <2> QED
    BY <1>4, <2>1, DeleteFits
<1> QED
  BY <1>1, <1>2, <1>3, <1>4, Kinds

\* The second one: the row more is gone again, or another one for it.
LEMMA SecondFits ==
    ASSUME NEW f \in Files, NEW s \in Sessions, NEW m \in Methods, RowsFit(f), NEW g \in Second(f, s, m)
    PROVE  /\ g \in Files /\ RowsFit(g) /\ Apart(f, g, s)
           /\ \A n \in Nat : Within(f, s, n + (IF m.kind = "add" THEN 1 ELSE 0),
                                          n + (IF m.kind = "remember" THEN 1 ELSE 0))
                             => Within(g, s, n, n)
<1>1. CASE m.kind = "add"
  <2>1. g = TrimMessages(f, s)
    BY <1>1 DEF Second
  <2>2. /\ g \in Files /\ RowsFit(g) /\ Apart(f, g, s)
        /\ \A i, j \in Nat : Within(f, s, i, j) => Within(g, s, 0, j)
    BY <2>1, TrimWithin
  <2>3. ASSUME NEW n \in Nat, Within(f, s, n + 1, n) PROVE Within(g, s, n, n)
    BY <2>2, <2>3, MoreWithin
  <2> QED
    BY <1>1, <2>2, <2>3
<1>2. CASE m.kind = "remember"
  <2>1. PICK K \in Newest(f, s) : g = KeepFacts(f, s, K)
    BY <1>2 DEF Second
  <2> DEFINE h == [k \in Keys |-> IF k \in K THEN f.facts[s][k] ELSE 0]
  <2>2. g = [f EXCEPT !.facts[s] = h]
    BY <2>1 DEF KeepFacts, Files
  <2>3. h \in [Keys -> 0..MaxClock] /\ \A k \in Keys : h[k] # 0 => f.facts[s][k] # 0 /\ k \in K
    BY FileParts, BoundsAssumption
  <2> HIDE DEF h
  <2>4. /\ g \in Files /\ RowsFit(g) /\ Apart(f, g, s) /\ g.facts[s] = h
        /\ \A i, j \in Nat : Within(f, s, i, j) => Within(g, s, i, j)
    BY <2>2, <2>3, KeepWithin
  <2>5. ASSUME NEW n \in Nat, Within(f, s, n + 0, n + 1) PROVE Within(g, s, n, n)
    <3>1. Within(g, s, n, n + 1)
      BY <2>4, <2>5
    <3>2. Present(g, s) \subseteq K /\ K \subseteq Present(f, s) /\ IsFiniteSet(Present(f, s))
      BY <2>1, <2>3, <2>4, <2>5 DEF Present, Newest, Within
    <3>3. Cardinality(K) <= MaxFacts
      <4>1. Cardinality(Present(f, s)) \in Nat
        BY <3>2, FS_CardinalityType
      <4> QED
        BY <2>1, <4>1, BoundsAssumption DEF Newest
    <3>4. /\ IsFiniteSet(K) /\ IsFiniteSet(Present(g, s))
          /\ Cardinality(Present(g, s)) <= Cardinality(K)
      BY <3>2, FS_Subset
    <3>5. Cardinality(K) \in Nat /\ Cardinality(Present(g, s)) \in Nat
      BY <3>4, FS_CardinalityType
    <3> QED
      BY <3>1, <3>3, <3>4, <3>5, BoundsAssumption DEF Within
  <2> QED
    BY <1>2, <2>4, <2>5
<1>3. CASE m.kind = "forget"
  <2>1. g = f
    BY <1>3 DEF Second
  <2> QED
    BY <1>3, <2>1 DEF Apart
<1>4. CASE m.kind = "clear"
  <2> DEFINE h == [k \in Keys |-> 0]
  <2>1. g = [f EXCEPT !.facts[s] = h]
    BY <1>4 DEF Second, DeleteFacts
  <2>2. h \in [Keys -> 0..MaxClock] /\ \A k \in Keys : h[k] # 0 => f.facts[s][k] # 0
    BY BoundsAssumption
  <2> HIDE DEF h
  <2>3. /\ g \in Files /\ RowsFit(g) /\ Apart(f, g, s)
        /\ \A i, j \in Nat : Within(f, s, i, j) => Within(g, s, i, j)
    BY <2>1, <2>2, KeepWithin
  <2> QED
    BY <1>4, <2>3
<1> QED
  BY <1>1, <1>2, <1>3, <1>4, Kinds

-----------------------------------------------------------------------------
(* Which file the statements of a connection work on                       *)

LEMMA ApartTwice ==
    ASSUME NEW f, NEW g, NEW h, NEW s, Apart(f, g, s), Apart(g, h, s)
    PROVE  Apart(f, h, s)
BY DEF Apart

LEMMA EmptyFits ==
    /\ Empty \in Files /\ RowsFit(Empty)
    /\ \A s \in Sessions, m, n \in Nat : Within(Empty, s, m, n)
<1>1. Empty \in Files
  <2>1. << >> \in Seq(1..MaxId)
    OBVIOUS
  <2> QED
    BY <2>1, BoundsAssumption DEF Empty, Files
<1>2. \A s \in Sessions : Empty.messages[s] = << >> /\ Present(Empty, s) = {}
  BY DEF Empty, Present
<1>3. RowsFit(Empty)
  BY <1>2 DEF RowsFit, Ordered
<1>4. IsFiniteSet({}) /\ Cardinality({}) = 0
  BY FS_EmptySet
<1>5. ASSUME NEW s \in Sessions, NEW m \in Nat, NEW n \in Nat PROVE Within(Empty, s, m, n)
  <2>1. IsFiniteSet(Present(Empty, s)) /\ Cardinality(Present(Empty, s)) = 0
    BY <1>2, <1>4
  <2>2. Len(Empty.messages[s]) = 0
    BY <1>2
  <2> QED
    BY <2>1, <2>2, BoundsAssumption DEF Within
<1> QED
  BY <1>1, <1>3, <1>5

\* What a connection that may write sees is the file, but for the rows of its session.
LEMMA SeenFits ==
    ASSUME IInv, NEW c \in Conns, Usable(c), MayWrite(c)
    PROVE  /\ Seen(c) \in Files /\ RowsFit(Seen(c)) /\ Apart(db, Seen(c), owner[c])
           /\ \A s \in Sessions : Within(Seen(c), s, faults, faults)
           /\ faults \in Nat /\ owner[c] \in Sessions /\ c \notin stale
           /\ \A d \in Conns \ {c} : txn[d] # "writing"
<1>1. /\ db \in Files /\ view[c] \in Files /\ faults \in Nat /\ owner[c] \in Sessions
      /\ op[c] = Idle /\ txn[c] \in TxnStates
  BY DEF IInv, TypeOK, Usable
<1>2. c \notin stale /\ \A d \in Conns \ {c} : txn[d] # "writing"
  BY DEF MayWrite, OthersWrite
<1>3. \A s \in Sessions : Within(db, s, faults, faults) /\ Within(view[c], s, faults, faults)
  <2>1. \A s \in Sessions : Added(c, s, "add") = 0 /\ Added(c, s, "remember") = 0
    BY <1>1 DEF Added, Idle
  <2> QED
    BY <1>1, <2>1 DEF IInv, Grown
<1>4. CASE txn[c] = "writing"
  BY <1>1, <1>2, <1>3, <1>4 DEF IInv, Seen, Follows, Rows, Apart
<1>5. CASE txn[c] # "writing"
  <2>1. Seen(c) = db
    BY <1>2, <1>5 DEF IInv, Seen, Follows
  <2> QED
    BY <1>1, <1>2, <1>3, <2>1 DEF IInv, Rows, Apart
<1> QED
  BY <1>4, <1>5

\* More failed statements leave everything as far within the limits.
LEMMA StillWithin ==
    ASSUME IInv, NEW n \in Nat, faults <= n, NEW s \in Sessions
    PROVE  /\ Within(db, s, n, n)
           /\ \A d \in Conns : Within(view[d], s, n + Added(d, s, "add"), n + Added(d, s, "remember"))
<1>1. faults \in Nat /\ db \in Files /\ \A d \in Conns : view[d] \in Files
  BY DEF IInv, TypeOK
<1>2. Within(db, s, faults, faults)
  BY DEF IInv, Grown
<1>3. Within(db, s, n, n)
  BY <1>1, <1>2, MoreWithin
<1>4. ASSUME NEW d \in Conns
      PROVE  Within(view[d], s, n + Added(d, s, "add"), n + Added(d, s, "remember"))
  <2>1. Within(view[d], s, faults + Added(d, s, "add"), faults + Added(d, s, "remember"))
    BY DEF IInv, Grown
  <2>2. Added(d, s, "add") \in {0, 1} /\ Added(d, s, "remember") \in {0, 1}
    BY DEF Added
  <2> QED
    BY <1>1, <2>1, <2>2, MoreWithin
<1> QED
  BY <1>3, <1>4

\* The invariant part Grown of the next state, written out.
LEMMA GrownNext ==
    ASSUME NEW n, faults' = n,
           \A s \in Sessions : Within(db', s, n, n),
           \A s \in Sessions, d \in Conns :
              Within(view'[d], s, n + (IF op'[d].kind = "add" /\ owner'[d] = s THEN 1 ELSE 0),
                                  n + (IF op'[d].kind = "remember" /\ owner'[d] = s THEN 1 ELSE 0))
    PROVE  Grown'
<1>1. \A s \in Sessions, d \in Conns :
          /\ Added(d, s, "add")' = (IF op'[d].kind = "add" /\ owner'[d] = s THEN 1 ELSE 0)
          /\ Added(d, s, "remember")' = (IF op'[d].kind = "remember" /\ owner'[d] = s THEN 1 ELSE 0)
  BY DEF Added
<1>2. \A s \in Sessions : Within(db, s, faults, faults)'
  BY DEF Within, Present
<1>3. \A s \in Sessions, d \in Conns :
          Within(view[d], s, faults + Added(d, s, "add"), faults + Added(d, s, "remember"))'
  BY <1>1 DEF Within, Present
<1> QED
  BY <1>2, <1>3 DEF Grown

\* A connection that is in the write transaction after the step, with v before its eyes and m
\* under way.
LEMMA Writing ==
    ASSUME IInv, NEW c \in Conns, NEW v \in Files, NEW m \in Methods \cup {Idle}, NEW n \in 0..MaxFaults,
           faults <= n, m = Idle => n > 0, owner[c] \in Sessions, c \notin stale,
           \A d \in Conns \ {c} : txn[d] # "writing",
           UNCHANGED <<db, owner, stale>>, txn' = [txn EXCEPT ![c] = "writing"],
           view' = [view EXCEPT ![c] = v], op' = [op EXCEPT ![c] = m], faults' = n,
           RowsFit(v), Apart(db, v, owner[c]),
           m.kind = "remember" => v.facts[owner[c]][m.key] # 0,
           \A s \in Sessions :
              Within(v, s, n + (IF m.kind = "add" /\ owner[c] = s THEN 1 ELSE 0),
                           n + (IF m.kind = "remember" /\ owner[c] = s THEN 1 ELSE 0))
    PROVE  IInv'
<1>1. TypeOK
  BY DEF IInv
<1>2. /\ txn'[c] = "writing" /\ view'[c] = v /\ op'[c] = m
      /\ \A d \in Conns \ {c} : txn'[d] = txn[d] /\ view'[d] = view[d] /\ op'[d] = op[d]
  BY <1>1 DEF TypeOK
<1>3. TypeOK'
  BY <1>1, <1>2 DEF TypeOK, TxnStates
<1>4. Locks' /\ LockReleased'
  <2>1. Locks'
    BY <1>2, NoneAssumption DEF IInv, Locks
  <2>2. faults \in Nat /\ n \in Nat
    BY <1>1, BoundsAssumption DEF TypeOK
  <2>3. LockReleased'
    BY <1>2, <2>2 DEF IInv, LockReleased
  <2> QED
    BY <2>1, <2>3
<1>5. Follows'
  BY <1>2 DEF IInv, Follows, Apart
<1>6. Rows'
  <2>1. RowsFit(db') /\ \A d \in Conns : RowsFit(view'[d])
    BY <1>2 DEF IInv, Rows
  <2> QED
    BY <2>1 DEF Rows, RowsFit, Ordered
<1>7. Grown'
  <2>1. faults \in Nat /\ n \in Nat
    BY <1>1, BoundsAssumption DEF TypeOK
  <2>2. ASSUME NEW s \in Sessions, NEW d \in Conns
        PROVE  Within(view'[d], s, n + (IF op'[d].kind = "add" /\ owner'[d] = s THEN 1 ELSE 0),
                                   n + (IF op'[d].kind = "remember" /\ owner'[d] = s THEN 1 ELSE 0))
    <3>1. CASE d = c
      BY <1>2, <3>1
    <3>2. CASE d # c
      <4>1. /\ Added(d, s, "add") = (IF op'[d].kind = "add" /\ owner'[d] = s THEN 1 ELSE 0)
            /\ Added(d, s, "remember") = (IF op'[d].kind = "remember" /\ owner'[d] = s THEN 1 ELSE 0)
        BY <1>2, <3>2 DEF Added
      <4> QED
        BY <1>2, <2>1, <3>2, <4>1, StillWithin
    <3> QED
      BY <3>1, <3>2
  <2>3. \A s \in Sessions : Within(db', s, n, n)
    BY <2>1, StillWithin
  <2> QED
    BY <2>2, <2>3, GrownNext
<1>8. KeyKept'
  BY <1>2 DEF IInv, KeyKept
<1> QED
  BY <1>3, <1>4, <1>5, <1>6, <1>7, <1>8 DEF IInv

\* Connections whose transaction is gone after the step.
LEMMA GivenUp ==
    ASSUME IInv, NEW C \in SUBSET Conns, NEW n \in 0..MaxFaults, faults <= n,
           db' = db, stale' = stale \ C, faults' = n,
           owner' \in [Conns -> Sessions \cup {None}], txn' \in [Conns -> TxnStates],
           view' \in [Conns -> Files], op' \in [Conns -> Methods \cup {Idle}],
           \A c \in C : txn'[c] = "none" /\ view'[c] = Empty /\ op'[c] = Idle,
           \A c \in Conns \ C :
              owner'[c] = owner[c] /\ txn'[c] = txn[c] /\ view'[c] = view[c] /\ op'[c] = op[c]
    PROVE  IInv'
<1>1. TypeOK
  BY DEF IInv
<1>2. TypeOK'
  BY <1>1 DEF TypeOK
<1>3. faults \in Nat /\ n \in Nat
  BY <1>1, BoundsAssumption DEF TypeOK
<1>4. Locks' /\ LockReleased'
  <2>1. Locks'
    BY DEF IInv, Locks, Idle
  <2>2. LockReleased'
    BY <1>3 DEF IInv, LockReleased
  <2> QED
    BY <2>1, <2>2
<1>5. Follows'
  BY DEF IInv, Follows
<1>6. Rows'
  <2>1. RowsFit(db') /\ \A d \in Conns : RowsFit(view'[d])
    BY EmptyFits DEF IInv, Rows
  <2> QED
    BY <2>1 DEF Rows, RowsFit, Ordered
<1>7. Grown'
  <2>1. faults \in Nat /\ n \in Nat
    BY <1>1, BoundsAssumption DEF TypeOK
  <2>2. ASSUME NEW s \in Sessions, NEW d \in Conns
        PROVE  Within(view'[d], s, n + (IF op'[d].kind = "add" /\ owner'[d] = s THEN 1 ELSE 0),
                                   n + (IF op'[d].kind = "remember" /\ owner'[d] = s THEN 1 ELSE 0))
    <3>1. CASE d \in C
      <4>1. op'[d].kind = "idle" /\ view'[d] = Empty
        BY <3>1 DEF Idle
      <4> QED
        BY <2>1, <4>1, EmptyFits
    <3>2. CASE d \notin C
      <4>1. /\ Added(d, s, "add") = (IF op'[d].kind = "add" /\ owner'[d] = s THEN 1 ELSE 0)
            /\ Added(d, s, "remember") = (IF op'[d].kind = "remember" /\ owner'[d] = s THEN 1 ELSE 0)
        BY <3>2 DEF Added
      <4> QED
        BY <2>1, <3>2, <4>1, StillWithin
    <3> QED
      BY <3>1, <3>2
  <2>3. \A s \in Sessions : Within(db', s, n, n)
    BY <2>1, StillWithin
  <2> QED
    BY <2>2, <2>3, GrownNext
<1>8. KeyKept'
  BY DEF IInv, KeyKept, Idle
<1> QED
  BY <1>2, <1>4, <1>5, <1>6, <1>7, <1>8 DEF IInv

-----------------------------------------------------------------------------
(* The actions                                                             *)

\* Steps that leave the file, the views and the methods alone.
LEMMA Unmoved ==
    ASSUME IInv, db' = db, view' = view, op' = op, owner' = owner, faults' = faults
    PROVE  Rows' /\ Grown' /\ KeyKept'
<1>1. faults \in Nat
  BY DEF IInv, TypeOK
<1>2. Rows' /\ KeyKept'
  BY DEF IInv, Rows, RowsFit, Ordered, KeyKept
<1>3. ASSUME NEW s \in Sessions, NEW d \in Conns
      PROVE  Within(view'[d], s, faults + (IF op'[d].kind = "add" /\ owner'[d] = s THEN 1 ELSE 0),
                                 faults + (IF op'[d].kind = "remember" /\ owner'[d] = s THEN 1 ELSE 0))
  <2>1. /\ Added(d, s, "add") = (IF op'[d].kind = "add" /\ owner'[d] = s THEN 1 ELSE 0)
        /\ Added(d, s, "remember") = (IF op'[d].kind = "remember" /\ owner'[d] = s THEN 1 ELSE 0)
    BY DEF Added
  <2> QED
    BY <1>1, <2>1, StillWithin
<1>4. \A s \in Sessions : Within(db', s, faults, faults)
  BY <1>1, StillWithin
<1> QED
  BY <1>2, <1>3, <1>4, GrownNext

LEMMA InitInv == ASSUME Init PROVE IInv
<1>1. TypeOK
  BY EmptyFits, BoundsAssumption DEF Init, TypeOK, TxnStates
<1>2. Locks /\ LockReleased /\ Follows /\ Rows
  BY EmptyFits DEF Init, Locks, LockReleased, Follows, Rows
<1>3. Grown
  <2>1. \A s \in Sessions, c \in Conns : Added(c, s, "add") = 0 /\ Added(c, s, "remember") = 0
    BY DEF Init, Added, Idle
  <2> QED
    BY <2>1, EmptyFits DEF Init, Grown
<1>4. KeyKept
  BY DEF Init, KeyKept, Idle
<1> QED
  BY <1>1, <1>2, <1>3, <1>4 DEF IInv

LEMMA StartInv == ASSUME IInv, NEW c \in Conns, NEW m \in Methods, Start(c, m) PROVE IInv'
<1>1. /\ Seen(c) \in Files /\ RowsFit(Seen(c)) /\ Apart(db, Seen(c), owner[c])
      /\ \A s \in Sessions : Within(Seen(c), s, faults, faults)
      /\ faults \in Nat /\ owner[c] \in Sessions /\ c \notin stale
      /\ \A d \in Conns \ {c} : txn[d] # "writing"
  BY SeenFits DEF Start
<1>2. PICK v \in First(Seen(c), owner[c], m) : view' = [view EXCEPT ![c] = v]
  BY DEF Start
<1>3. /\ v \in Files /\ RowsFit(v) /\ Apart(Seen(c), v, owner[c])
      /\ m.kind = "remember" => v.facts[owner[c]][m.key] # 0
      /\ \A n \in Nat : Within(Seen(c), owner[c], n, n) =>
            Within(v, owner[c], n + (IF m.kind = "add" THEN 1 ELSE 0),
                                n + (IF m.kind = "remember" THEN 1 ELSE 0))
  <2>1. m.kind = "add" => Seen(c).last < MaxId
    BY DEF Start
  <2> QED
    BY <1>1, <1>2, <2>1, FirstFits
<1>4. ASSUME NEW s \in Sessions
      PROVE  Within(v, s, faults + (IF m.kind = "add" /\ owner[c] = s THEN 1 ELSE 0),
                          faults + (IF m.kind = "remember" /\ owner[c] = s THEN 1 ELSE 0))
  <2>1. CASE s = owner[c]
    BY <1>1, <1>3, <2>1
  <2>2. CASE s # owner[c]
    <3>1. v.messages[s] = Seen(c).messages[s] /\ v.facts[s] = Seen(c).facts[s]
      BY <1>3, <2>2 DEF Apart
    <3>2. Within(v, s, faults, faults)
      BY <1>1, <3>1, SameWithin
    <3> QED
      BY <1>1, <2>2, <3>2
  <2> QED
    BY <2>1, <2>2
<1>5. Apart(db, v, owner[c])
  BY <1>1, <1>3, ApartTwice
<1>6. faults \in 0..MaxFaults /\ faults <= faults /\ m # Idle
  BY <1>1, Kinds DEF IInv, TypeOK
<1>7. /\ UNCHANGED <<db, owner, stale>> /\ txn' = [txn EXCEPT ![c] = "writing"]
      /\ op' = [op EXCEPT ![c] = m] /\ faults' = faults
  BY DEF Start
<1> QED
  BY <1>1, <1>2, <1>3, <1>4, <1>5, <1>6, <1>7, Writing

\* What the second statement leaves in the view of its connection.
LEMMA Seconds ==
    ASSUME IInv, NEW c \in Conns, op[c] # Idle, NEW g \in Second(view[c], owner[c], op[c])
    PROVE  /\ g \in Files /\ RowsFit(g) /\ Apart(view[c], g, owner[c]) /\ Apart(db, g, owner[c])
           /\ \A s \in Sessions : Within(g, s, faults, faults)
<1>1. /\ view[c] \in Files /\ owner[c] \in Sessions /\ op[c] \in Methods /\ faults \in Nat
      /\ RowsFit(view[c]) /\ txn[c] = "writing"
  BY DEF IInv, TypeOK, Locks, Rows
<1>2. /\ g \in Files /\ RowsFit(g) /\ Apart(view[c], g, owner[c])
      /\ \A n \in Nat : Within(view[c], owner[c], n + (IF op[c].kind = "add" THEN 1 ELSE 0),
                                                  n + (IF op[c].kind = "remember" THEN 1 ELSE 0))
                        => Within(g, owner[c], n, n)
  BY <1>1, SecondFits
<1>3. Apart(db, view[c], owner[c])
  BY <1>1 DEF IInv, Follows, Apart
<1>4. \A s \in Sessions :
        Within(view[c], s, faults + Added(c, s, "add"), faults + Added(c, s, "remember"))
  BY DEF IInv, Grown
<1>5. ASSUME NEW s \in Sessions PROVE Within(g, s, faults, faults)
  <2>1. CASE s = owner[c]
    <3>1. /\ Added(c, s, "add") = (IF op[c].kind = "add" THEN 1 ELSE 0)
          /\ Added(c, s, "remember") = (IF op[c].kind = "remember" THEN 1 ELSE 0)
      BY <2>1 DEF Added
    <3> QED
      BY <1>1, <1>2, <1>4, <2>1, <3>1
  <2>2. CASE s # owner[c]
    <3>1. Added(c, s, "add") = 0 /\ Added(c, s, "remember") = 0
      BY <2>2 DEF Added
    <3>2. Within(view[c], s, faults, faults)
      BY <1>1, <1>4, <3>1
    <3>3. g.messages[s] = view[c].messages[s] /\ g.facts[s] = view[c].facts[s]
      BY <1>2, <2>2 DEF Apart
    <3> QED
      BY <3>2, <3>3, SameWithin
  <2> QED
    BY <2>1, <2>2
<1> QED
  BY <1>2, <1>3, <1>5, ApartTwice

LEMMA FinishInv == ASSUME IInv, NEW c \in Conns, Finish(c) PROVE IInv'
<1>1. TypeOK /\ op[c] # Idle /\ txn[c] = "writing" /\ faults \in Nat
  BY DEF IInv, TypeOK, Locks, Finish
<1>2. /\ db' \in Files /\ RowsFit(db') /\ Apart(db, db', owner[c])
      /\ \A s \in Sessions : Within(db', s, faults, faults)
  <2>1. db' \in Second(view[c], owner[c], op[c])
    BY DEF Finish
  <2> QED
    BY <1>1, <2>1, Seconds
<1>3. /\ txn'[c] = "none" /\ view'[c] = Empty /\ op'[c] = Idle /\ owner' = owner /\ faults' = faults
      /\ \A d \in Conns \ {c} : txn'[d] = txn[d] /\ view'[d] = view[d] /\ op'[d] = op[d]
      /\ stale' = {d \in Conns : txn[d] = "reading"}
  BY <1>1 DEF Finish, TypeOK
<1>4. TypeOK'
  <2>1. stale' \subseteq {d \in Conns : txn'[d] = "reading"}
    BY <1>1, <1>3
  <2> QED
    BY <1>1, <1>2, <2>1, EmptyFits DEF Finish, TypeOK, TxnStates
<1>5. Locks' /\ LockReleased'
  <2>1. Locks'
    BY <1>3 DEF IInv, Locks
  <2>2. LockReleased'
    BY <1>3 DEF IInv, LockReleased
  <2> QED
    BY <2>1, <2>2
<1>6. \A d \in Conns : txn'[d] # "writing"
  BY <1>1, <1>3 DEF IInv, Locks
<1>7. Follows'
  BY <1>3, <1>6 DEF Follows
<1>8. Rows'
  <2>1. RowsFit(db') /\ \A d \in Conns : RowsFit(view'[d])
    BY <1>2, <1>3, EmptyFits DEF IInv, Rows
  <2> QED
    BY <2>1 DEF Rows, RowsFit, Ordered
<1>9. Grown'
  <2>1. ASSUME NEW s \in Sessions, NEW d \in Conns
        PROVE  Within(view'[d], s, faults + (IF op'[d].kind = "add" /\ owner'[d] = s THEN 1 ELSE 0),
                                   faults + (IF op'[d].kind = "remember" /\ owner'[d] = s THEN 1 ELSE 0))
    <3>1. CASE d = c
      <4>1. op'[d].kind = "idle" /\ view'[d] = Empty
        BY <1>3, <3>1 DEF Idle
      <4> QED
        BY <1>1, <4>1, EmptyFits
    <3>2. CASE d # c
      <4>1. /\ Added(d, s, "add") = (IF op'[d].kind = "add" /\ owner'[d] = s THEN 1 ELSE 0)
            /\ Added(d, s, "remember") = (IF op'[d].kind = "remember" /\ owner'[d] = s THEN 1 ELSE 0)
        BY <1>3, <3>2 DEF Added
      <4> QED
        BY <1>1, <1>3, <3>2, <4>1, StillWithin
    <3> QED
      BY <3>1, <3>2
  <2> QED
    BY <1>2, <1>3, <2>1, GrownNext
<1>10. KeyKept'
  BY <1>3 DEF IInv, KeyKept, Idle
<1> QED
  BY <1>4, <1>5, <1>7, <1>8, <1>9, <1>10 DEF IInv

\* A statement that fails half way.
LEMMA FaultInv == ASSUME IInv, NEW c \in Conns, Fault(c) PROVE IInv'
<1>1. /\ TypeOK /\ op[c] # Idle /\ op[c] \in Methods /\ txn[c] = "writing" /\ owner[c] \in Sessions
      /\ faults \in Nat /\ faults + 1 \in 0..MaxFaults /\ c \notin stale
      /\ \A d \in Conns \ {c} : txn[d] # "writing"
  <2>1. TypeOK /\ op[c] # Idle /\ txn[c] = "writing" /\ faults < MaxFaults /\ faults \in 0..MaxFaults
    BY DEF IInv, TypeOK, Locks, Fault
  <2>2. \A d \in Conns \ {c} : txn[d] # "writing"
    BY <2>1 DEF IInv, Locks
  <2>3. op[c] \in Methods /\ owner[c] \in Sessions /\ c \notin stale
    BY <2>1 DEF IInv, TypeOK, Locks
  <2> QED
    BY <2>1, <2>2, <2>3, BoundsAssumption
<1>2. /\ op' = [op EXCEPT ![c] = Idle] /\ faults' = faults + 1 /\ db' = db /\ owner' = owner
      /\ stale' = stale
  BY DEF Fault
<1>3. CASE view' = [view EXCEPT ![c] = Empty] /\ txn' = [txn EXCEPT ![c] = "none"]
  <2>1. /\ txn' \in [Conns -> TxnStates] /\ view' \in [Conns -> Files]
        /\ op' \in [Conns -> Methods \cup {Idle}] /\ owner' \in [Conns -> Sessions \cup {None}]
    BY <1>1, <1>2, <1>3, EmptyFits DEF TypeOK, TxnStates
  <2>2. /\ \A d \in {c} : txn'[d] = "none" /\ view'[d] = Empty /\ op'[d] = Idle
        /\ \A d \in Conns \ {c} :
              owner'[d] = owner[d] /\ txn'[d] = txn[d] /\ view'[d] = view[d] /\ op'[d] = op[d]
    BY <1>1, <1>2, <1>3 DEF TypeOK
  <2>3. stale' = stale \ {c}
    BY <1>1, <1>2
  <2>4. {c} \in SUBSET Conns /\ faults <= faults + 1
    BY <1>1
  <2> QED
    BY <1>1, <1>2, <2>1, <2>2, <2>3, <2>4, GivenUp
<1>4. CASE \E f \in {view[c]} \cup Second(view[c], owner[c], op[c]) :
              view' = [view EXCEPT ![c] = f] /\ txn' = txn
  <2>1. PICK v \in {view[c]} \cup Second(view[c], owner[c], op[c]) :
            view' = [view EXCEPT ![c] = v] /\ txn' = txn
    BY <1>4
  <2>2. /\ v \in Files /\ RowsFit(v) /\ Apart(db, v, owner[c])
        /\ \A s \in Sessions : Within(v, s, faults + 1, faults + 1)
    <3>1. CASE v = view[c]
      <4>1. ASSUME NEW s \in Sessions PROVE Within(v, s, faults + 1, faults + 1)
        <5>1. Within(v, s, faults + Added(c, s, "add"), faults + Added(c, s, "remember"))
          BY <3>1 DEF IInv, Grown
        <5>2. Added(c, s, "add") \in {0, 1} /\ Added(c, s, "remember") \in {0, 1}
          BY DEF Added
        <5>3. v \in Files
          BY <1>1, <3>1 DEF TypeOK
        <5> QED
          BY <1>1, <5>1, <5>2, <5>3, MoreWithin
      <4> QED
        BY <1>1, <3>1, <4>1 DEF IInv, TypeOK, Rows, Follows, Apart
    <3>2. CASE v \in Second(view[c], owner[c], op[c])
      <4>1. /\ v \in Files /\ RowsFit(v) /\ Apart(db, v, owner[c])
            /\ \A s \in Sessions : Within(v, s, faults, faults)
        BY <1>1, <3>2, Seconds
      <4> QED
        BY <1>1, <4>1, MoreWithin
    <3> QED
      BY <3>1, <3>2
  <2>3. txn' = [txn EXCEPT ![c] = "writing"]
    BY <1>1, <2>1 DEF TypeOK
  <2>4. Idle.kind = "idle"
    BY DEF Idle
  <2>5. \A s \in Sessions :
          Within(v, s, (faults + 1) + (IF Idle.kind = "add" /\ owner[c] = s THEN 1 ELSE 0),
                       (faults + 1) + (IF Idle.kind = "remember" /\ owner[c] = s THEN 1 ELSE 0))
    BY <1>1, <2>2, <2>4
  <2>6. faults <= faults + 1 /\ faults + 1 > 0
    BY <1>1
  <2> QED
    BY <1>1, <1>2, <2>1, <2>2, <2>3, <2>4, <2>5, <2>6, Writing
<1> QED
  BY <1>3, <1>4 DEF Fault

LEMMA StartFaultInv == ASSUME IInv, NEW c \in Conns, StartFault(c) PROVE IInv'
<1>1. /\ Seen(c) \in Files /\ RowsFit(Seen(c)) /\ Apart(db, Seen(c), owner[c])
      /\ \A s \in Sessions : Within(Seen(c), s, faults, faults)
      /\ faults \in Nat /\ owner[c] \in Sessions /\ c \notin stale
      /\ \A d \in Conns \ {c} : txn[d] # "writing"
  BY SeenFits DEF StartFault
<1>2. TypeOK /\ op[c] = Idle /\ faults + 1 \in 0..MaxFaults
  BY <1>1, BoundsAssumption DEF IInv, TypeOK, StartFault, Usable
<1>3. op' = op /\ faults' = faults + 1 /\ db' = db /\ owner' = owner /\ stale' = stale
  BY DEF StartFault
<1>4. CASE view' = [view EXCEPT ![c] = Empty] /\ txn' = [txn EXCEPT ![c] = "none"]
  <2>1. /\ txn' \in [Conns -> TxnStates] /\ view' \in [Conns -> Files]
        /\ op' \in [Conns -> Methods \cup {Idle}] /\ owner' \in [Conns -> Sessions \cup {None}]
    BY <1>2, <1>3, <1>4, EmptyFits DEF TypeOK, TxnStates
  <2>2. /\ \A d \in {c} : txn'[d] = "none" /\ view'[d] = Empty /\ op'[d] = Idle
        /\ \A d \in Conns \ {c} :
              owner'[d] = owner[d] /\ txn'[d] = txn[d] /\ view'[d] = view[d] /\ op'[d] = op[d]
    BY <1>2, <1>3, <1>4 DEF TypeOK
  <2>3. stale' = stale \ {c}
    BY <1>1, <1>3
  <2>4. {c} \in SUBSET Conns /\ faults <= faults + 1
    BY <1>1
  <2> QED
    BY <1>2, <1>3, <2>1, <2>2, <2>3, <2>4, GivenUp
<1>5. CASE view' = [view EXCEPT ![c] = Seen(c)] /\ txn' = [txn EXCEPT ![c] = "writing"]
  <2>1. \A s \in Sessions : Within(Seen(c), s, faults + 1, faults + 1)
    BY <1>1, MoreWithin
  <2>2. Idle.kind = "idle"
    BY DEF Idle
  <2>3. \A s \in Sessions :
          Within(Seen(c), s, (faults + 1) + (IF Idle.kind = "add" /\ owner[c] = s THEN 1 ELSE 0),
                             (faults + 1) + (IF Idle.kind = "remember" /\ owner[c] = s THEN 1 ELSE 0))
    BY <1>1, <2>1, <2>2
  <2>4. op' = [op EXCEPT ![c] = Idle]
    BY <1>2, <1>3 DEF TypeOK
  <2>5. faults <= faults + 1 /\ faults + 1 > 0
    BY <1>1
  <2> QED
    BY <1>1, <1>2, <1>3, <1>5, <2>2, <2>3, <2>4, <2>5, Writing
<1> QED
  BY <1>4, <1>5 DEF StartFault

\* A method that raises at its first statement leaves a transaction that sees nothing yet.
LEMMA LockedInv == ASSUME IInv, NEW c \in Conns, Locked(c) PROVE IInv'
<1>1. /\ TypeOK /\ owner[c] # None /\ txn' = [txn EXCEPT ![c] = IF @ = "none" THEN "begun" ELSE @]
      /\ db' = db /\ owner' = owner /\ view' = view /\ stale' = stale /\ op' = op /\ faults' = faults
  BY DEF IInv, Locked, Usable
<1>2. /\ txn'[c] = (IF txn[c] = "none" THEN "begun" ELSE txn[c])
      /\ \A d \in Conns \ {c} : txn'[d] = txn[d]
  BY <1>1 DEF TypeOK
<1>3. TypeOK'
  BY <1>1, <1>2 DEF TypeOK, TxnStates
<1>4. Locks' /\ LockReleased'
  <2>1. Locks'
    BY <1>1, <1>2 DEF IInv, Locks
  <2>2. LockReleased'
    BY <1>1, <1>2 DEF IInv, LockReleased
  <2> QED
    BY <2>1, <2>2
<1>5. Follows'
  BY <1>1, <1>2 DEF IInv, Follows
<1>6. Rows' /\ Grown' /\ KeyKept'
  BY <1>1, Unmoved
<1> QED
  BY <1>3, <1>4, <1>5, <1>6 DEF IInv

\* The snapshot of a SELECT is the file.
LEMMA ReadInv == ASSUME IInv, NEW c \in Conns, Read(c) PROVE IInv'
<1>1. /\ TypeOK /\ owner[c] # None /\ op[c] = Idle /\ txn[c] = "begun"
      /\ txn' = [txn EXCEPT ![c] = "reading"] /\ view' = [view EXCEPT ![c] = db]
      /\ db' = db /\ owner' = owner /\ stale' = stale /\ op' = op /\ faults' = faults
  BY DEF IInv, Read, Usable
<1>2. /\ txn'[c] = "reading" /\ view'[c] = db
      /\ \A d \in Conns \ {c} : txn'[d] = txn[d] /\ view'[d] = view[d]
  BY <1>1 DEF TypeOK
<1>3. TypeOK'
  BY <1>1, <1>2 DEF TypeOK, TxnStates
<1>4. Locks' /\ LockReleased'
  <2>1. Locks'
    BY <1>1, <1>2 DEF IInv, Locks
  <2>2. LockReleased'
    BY <1>1, <1>2 DEF IInv, LockReleased
  <2> QED
    BY <2>1, <2>2
<1>5. Follows'
  BY <1>1, <1>2 DEF IInv, Follows
<1>6. Rows'
  <2>1. RowsFit(db') /\ \A d \in Conns : RowsFit(view'[d])
    BY <1>1, <1>2 DEF IInv, Rows
  <2> QED
    BY <2>1 DEF Rows, RowsFit, Ordered
<1>7. Grown'
  <2>1. faults \in Nat
    BY <1>1 DEF TypeOK
  <2>2. ASSUME NEW s \in Sessions, NEW d \in Conns
        PROVE  Within(view'[d], s, faults + (IF op'[d].kind = "add" /\ owner'[d] = s THEN 1 ELSE 0),
                                   faults + (IF op'[d].kind = "remember" /\ owner'[d] = s THEN 1 ELSE 0))
    <3>1. CASE d = c
      <4>1. op'[d].kind = "idle" /\ view'[d] = db
        BY <1>1, <1>2, <3>1 DEF Idle
      <4> QED
        BY <2>1, <4>1, StillWithin
    <3>2. CASE d # c
      <4>1. /\ Added(d, s, "add") = (IF op'[d].kind = "add" /\ owner'[d] = s THEN 1 ELSE 0)
            /\ Added(d, s, "remember") = (IF op'[d].kind = "remember" /\ owner'[d] = s THEN 1 ELSE 0)
        BY <1>1 DEF Added
      <4> QED
        BY <1>2, <2>1, <3>2, <4>1, StillWithin
    <3> QED
      BY <3>1, <3>2
  <2>3. \A s \in Sessions : Within(db', s, faults, faults)
    BY <1>1, <2>1, StillWithin
  <2> QED
    BY <1>1, <2>2, <2>3, GrownNext
<1>8. KeyKept'
  BY <1>1, <1>2 DEF IInv, KeyKept, Idle
<1> QED
  BY <1>3, <1>4, <1>5, <1>6, <1>7, <1>8 DEF IInv

LEMMA OpenInv == ASSUME IInv, NEW c \in Conns, NEW s \in Sessions, Open(c, s) PROVE IInv'
<1>1. /\ TypeOK /\ owner[c] = None /\ owner' = [owner EXCEPT ![c] = s]
      /\ db' = db /\ txn' = txn /\ view' = view /\ stale' = stale /\ op' = op /\ faults' = faults
  BY DEF IInv, Open
<1>2. owner'[c] = s /\ \A d \in Conns \ {c} : owner'[d] = owner[d]
  BY <1>1 DEF TypeOK
<1>3. txn[c] = "none" /\ op[c] = Idle
  BY <1>1 DEF IInv, Locks
<1>4. TypeOK'
  BY <1>1 DEF TypeOK
<1>5. Locks' /\ LockReleased'
  <2>1. Locks'
    BY <1>1, <1>2, <1>3 DEF IInv, Locks
  <2>2. LockReleased'
    BY <1>1 DEF IInv, LockReleased
  <2> QED
    BY <2>1, <2>2
<1>6. Follows' /\ KeyKept'
  <2>1. Follows'
    BY <1>1, <1>2, <1>3 DEF IInv, Follows
  <2>2. KeyKept'
    BY <1>1, <1>2, <1>3 DEF IInv, KeyKept, Idle
  <2> QED
    BY <2>1, <2>2
<1>7. Rows'
  BY <1>1 DEF IInv, Rows, RowsFit, Ordered
<1>8. Grown'
  <2>1. faults \in Nat
    BY <1>1 DEF TypeOK
  <2>2. ASSUME NEW t \in Sessions, NEW d \in Conns
        PROVE  Within(view'[d], t, faults + (IF op'[d].kind = "add" /\ owner'[d] = t THEN 1 ELSE 0),
                                   faults + (IF op'[d].kind = "remember" /\ owner'[d] = t THEN 1 ELSE 0))
    <3>1. /\ Added(d, t, "add") = (IF op'[d].kind = "add" /\ owner'[d] = t THEN 1 ELSE 0)
          /\ Added(d, t, "remember") = (IF op'[d].kind = "remember" /\ owner'[d] = t THEN 1 ELSE 0)
      BY <1>1, <1>2, <1>3 DEF Added, Idle
    <3> QED
      BY <1>1, <2>1, <3>1, StillWithin
  <2>3. \A t \in Sessions : Within(db', t, faults, faults)
    BY <1>1, <2>1, StillWithin
  <2> QED
    BY <1>1, <2>2, <2>3, GrownNext
<1> QED
  BY <1>4, <1>5, <1>6, <1>7, <1>8 DEF IInv

\* Connections that are closed, one by Memory.close or all of them with the process.
LEMMA DiscardInv ==
    ASSUME IInv, NEW C \in SUBSET Conns, Discard(C), UNCHANGED <<db, faults>>
    PROVE  IInv'
<1>1. TypeOK /\ faults \in 0..MaxFaults /\ faults <= faults
  BY BoundsAssumption DEF IInv, TypeOK
<1>2. /\ owner' \in [Conns -> Sessions \cup {None}] /\ txn' \in [Conns -> TxnStates]
      /\ view' \in [Conns -> Files] /\ op' \in [Conns -> Methods \cup {Idle}]
  BY <1>1, EmptyFits DEF TypeOK, Discard, TxnStates
<1>3. /\ \A c \in C : txn'[c] = "none" /\ view'[c] = Empty /\ op'[c] = Idle
      /\ \A c \in Conns \ C :
            owner'[c] = owner[c] /\ txn'[c] = txn[c] /\ view'[c] = view[c] /\ op'[c] = op[c]
  BY DEF Discard
<1>4. db' = db /\ faults' = faults /\ stale' = stale \ C
  BY DEF Discard
<1> QED
  BY <1>1, <1>2, <1>3, <1>4, GivenUp

LEMMA StepInv == ASSUME IInv, [Next]_vars PROVE IInv'
<1>1. ASSUME NEW c \in Conns, Step(c) PROVE IInv'
  <2>1. ASSUME NEW s \in Sessions, Open(c, s) PROVE IInv'
    BY <2>1, OpenInv
  <2>2. ASSUME NEW m \in Methods, Start(c, m) PROVE IInv'
    BY <2>2, StartInv
  <2>3. CASE Close(c)
    <3>1. {c} \in SUBSET Conns /\ Discard({c}) /\ UNCHANGED <<db, faults>>
      BY <2>3 DEF Close
    <3> QED
      BY <3>1, DiscardInv
  <2> QED
    BY <1>1, <2>1, <2>2, <2>3, FinishInv, FaultInv, StartFaultInv, LockedInv, ReadInv DEF Step
<1>2. CASE Crash
  <2>1. Conns \in SUBSET Conns /\ Discard(Conns) /\ UNCHANGED <<db, faults>>
    BY <1>2 DEF Crash
  <2> QED
    BY <2>1, DiscardInv
<1>3. CASE UNCHANGED vars
  <2>1. /\ db' = db /\ owner' = owner /\ txn' = txn /\ view' = view /\ stale' = stale /\ op' = op
        /\ faults' = faults
    BY <1>3 DEF vars
  <2>2. TypeOK' /\ Locks' /\ LockReleased' /\ Follows'
    BY <2>1 DEF IInv, TypeOK, Locks, LockReleased, Follows
  <2>3. Rows' /\ Grown' /\ KeyKept'
    BY <2>1, Unmoved
  <2> QED
    BY <2>2, <2>3 DEF IInv
<1> QED
  BY <1>1, <1>2, <1>3 DEF Next

\* The invariant holds in every state, whichever statements fail and whoever closes when.
THEOREM Inductive == Spec => []IInv
<1>1. Init => IInv
  BY InitInv
<1>2. IInv /\ [Next]_vars => IInv'
  BY StepInv
<1> QED
  BY <1>1, <1>2, PTL DEF Spec

-----------------------------------------------------------------------------
(* What the runs check, for every value of the constants                   *)

\* core/memory.py: rows of the file have ids of their own in the order they were inserted,
\* and only a statement that failed half way leaves the write lock with a connection.
THEOREM Exactness == Spec => []FileExact
<1>1. IInv => FileExact
  BY DEF IInv, FileExact, IdsUnique, Rows, RowsFit, Ordered
<1> QED
  BY <1>1, Inductive, PTL

\* The tables of a session stay within memory_max_messages and memory_max_facts, up to one
\* row for each statement that failed half way.
THEOREM Growth == Spec => []BoundedGrowth
<1>1. IInv => BoundedGrowth
  BY DEF IInv, Grown, Within, BoundedGrowth
<1> QED
  BY <1>1, Inductive, PTL

\* What a connection that takes no step keeps.
LEMMA Others ==
    ASSUME TypeOK, NEW c \in Conns, NEW d \in Conns, c # d, Step(d)
    PROVE  /\ op'[c] = op[c] /\ view'[c] = view[c] /\ txn'[c] = txn[c] /\ owner'[c] = owner[c]
           /\ txn[c] = "reading" /\ c \in stale => c \in stale'
<1>1. ASSUME NEW s \in Sessions, Open(d, s)
      PROVE  /\ op'[c] = op[c] /\ view'[c] = view[c] /\ txn'[c] = txn[c] /\ owner'[c] = owner[c]
             /\ stale' = stale
  BY <1>1 DEF Open, TypeOK
<1>2. ASSUME NEW m \in Methods, Start(d, m)
      PROVE  /\ op'[c] = op[c] /\ view'[c] = view[c] /\ txn'[c] = txn[c] /\ owner'[c] = owner[c]
             /\ stale' = stale
  BY <1>2 DEF Start, TypeOK
<1>3. CASE Finish(d)
  BY <1>3 DEF Finish, TypeOK
<1>4. CASE Fault(d)
  BY <1>4 DEF Fault, TypeOK
<1>5. CASE StartFault(d)
  BY <1>5 DEF StartFault, TypeOK
<1>6. CASE Locked(d) \/ Read(d)
  BY <1>6 DEF Locked, Read, TypeOK
<1>7. CASE Close(d)
  BY <1>7 DEF Close, Discard, TypeOK
<1> QED
  BY <1>1, <1>2, <1>3, <1>4, <1>5, <1>6, <1>7 DEF Step

\* A commit leaves the rows of every session but its own as they are in the file.
LEMMA CommitsItsOwn ==
    ASSUME IInv, [Next]_vars, NEW s \in Sessions
    PROVE  \/ db'.messages[s] = db.messages[s] /\ db'.facts[s] = db.facts[s]
           \/ \E c \in Conns : owner[c] = s /\ op[c] # Idle /\ op'[c] = Idle
<1>1. ASSUME NEW c \in Conns, Finish(c)
      PROVE  \/ db'.messages[s] = db.messages[s] /\ db'.facts[s] = db.facts[s]
             \/ owner[c] = s /\ op[c] # Idle /\ op'[c] = Idle
  <2>1. op[c] # Idle /\ op'[c] = Idle /\ db' \in Second(view[c], owner[c], op[c])
    BY <1>1 DEF Finish, IInv, TypeOK
  <2>2. Apart(db, db', owner[c])
    BY <2>1, Seconds
  <2> QED
    BY <2>1, <2>2 DEF Apart
<1>2. ASSUME NEW c \in Conns, Step(c), ~Finish(c) PROVE db' = db
  BY <1>2 DEF Step, Open, Start, Fault, StartFault, Locked, Read, Close
<1>3. CASE Crash \/ UNCHANGED vars
  BY <1>3 DEF Crash, vars
<1> QED
  BY <1>1, <1>2, <1>3 DEF Next

\* No transaction, however late it is committed, overwrites what another session wrote
\* meanwhile.
THEOREM Isolation == Spec => SessionIsolation
<1>1. IInv /\ [Next]_vars =>
        [\A s \in Sessions :
            \/ db'.messages[s] = db.messages[s] /\ db'.facts[s] = db.facts[s]
            \/ \E c \in Conns : owner[c] = s /\ op[c] # Idle /\ op'[c] = Idle]_vars
  BY CommitsItsOwn
<1> QED
  BY <1>1, Inductive, PTL DEF Spec, SessionIsolation

\* A `remember` that ends well is its connection's commit.
LEMMA RememberCommits ==
    ASSUME IInv, [Next]_vars, NEW c \in Conns, op[c] # Idle, op'[c] = Idle, faults' = faults,
           owner'[c] # None
    PROVE  Finish(c)
<1>1. TypeOK /\ txn[c] = "writing" /\ owner[c] # None /\ faults \in Nat
  BY DEF IInv, TypeOK, Locks
<1>2. ~Crash
  BY DEF Crash, Discard
<1>3. PICK d \in Conns : Step(d)
  BY <1>2 DEF Next, vars
<1>4. d = c
  BY <1>1, <1>3, Others
<1>5. /\ \A s \in Sessions : ~Open(c, s)
      /\ \A m \in Methods : ~Start(c, m)
      /\ ~StartFault(c) /\ ~Locked(c) /\ ~Read(c) /\ ~Close(c)
  BY <1>1 DEF Open, Start, StartFault, Locked, Read, Close, Usable
<1>6. ~Fault(c)
  BY <1>1 DEF Fault
<1> QED
  BY <1>3, <1>4, <1>5, <1>6 DEF Step

\* The key that ORDER BY ts DESC LIMIT drops has as many at least as new before it.
LEMMA DroppedFor ==
    ASSUME NEW f \in Files, NEW s \in Sessions, NEW K \in Newest(f, s), NEW k \in Keys \ K,
           f.facts[s][k] # 0, IsFiniteSet(Present(f, s))
    PROVE  Cardinality({j \in Keys \ {k} : f.facts[s][j] >= f.facts[s][k]}) >= MaxFacts
<1> DEFINE P == Present(f, s)
           asNew == {j \in Keys \ {k} : f.facts[s][j] >= f.facts[s][k]}
<1>1. k \in P /\ K \in SUBSET P
  BY DEF Present, Newest
<1>2. f.facts[s] \in [Keys -> 0..MaxClock]
  BY FileParts
<1>3. K \subseteq asNew
  BY <1>1 DEF Newest, Present
<1>4. asNew \in SUBSET P
  BY <1>2, BoundsAssumption DEF Present
<1>5. Cardinality(K) = IF Cardinality(P) < MaxFacts THEN Cardinality(P) ELSE MaxFacts
  BY DEF Newest
<1> HIDE DEF P, asNew
<1>6. IsFiniteSet(P)
  BY DEF P
<1>7. Cardinality(K) # Cardinality(P)
  BY <1>1, <1>6, FS_Subset
<1>8. Cardinality(K) = MaxFacts
  BY <1>5, <1>7
<1>9. IsFiniteSet(asNew)
  BY <1>4, <1>6, FS_Subset
<1>10. Cardinality(K) <= Cardinality(asNew) /\ Cardinality(asNew) \in Nat
  BY <1>3, <1>9, FS_Subset, FS_CardinalityType
<1>11. Cardinality(asNew) >= MaxFacts
  BY <1>8, <1>10, BoundsAssumption
<1> QED
  BY <1>11 DEF asNew

LEMMA FactStep ==
    ASSUME IInv, [Next]_vars, NEW c \in Conns, op[c] # Idle, op[c].kind = "remember", op'[c] = Idle,
           faults' = faults, owner'[c] # None
    PROVE  LET s == owner[c]
               k == op[c].key
               asNew == {j \in Keys \ {k} : view[c].facts[s][j] >= view[c].facts[s][k]}
           IN db'.facts[s][k] # 0 \/ Cardinality(asNew) >= MaxFacts
<1> DEFINE f == view[c]
           s == owner[c]
           k == op[c].key
<1>1. f \in Files /\ s \in Sessions /\ op[c] \in Methods /\ txn[c] = "writing"
  BY DEF IInv, TypeOK, Locks
<1>2. k \in Keys /\ f.facts[s][k] # 0 /\ IsFiniteSet(Present(f, s))
  BY <1>1, Kinds DEF IInv, KeyKept, Grown, Within
<1>3. db' \in Second(f, s, op[c])
  BY RememberCommits DEF Finish
<1>4. PICK K \in Newest(f, s) : db' = KeepFacts(f, s, K)
  BY <1>3 DEF Second
<1> HIDE DEF f, s, k
<1>5. CASE k \in K
  <2>1. db'.facts[s][k] = f.facts[s][k]
    BY <1>1, <1>2, <1>4, <1>5 DEF KeepFacts, Files
  <2> QED
    BY <1>2, <2>1 DEF f, s, k
<1>6. CASE k \notin K
  <2>1. Cardinality({j \in Keys \ {k} : f.facts[s][j] >= f.facts[s][k]}) >= MaxFacts
    BY <1>1, <1>2, <1>6, DroppedFor
  <2> QED
    BY <2>1 DEF f, s, k
<1> QED
  BY <1>5, <1>6

\* `remember` keeps the fact it was called for unless memory_max_facts others are at least
\* as new.
THEOREM Remembered == Spec => FactKept
<1>1. IInv /\ [Next]_vars =>
        [\A c \in Conns :
          op[c] # Idle /\ op[c].kind = "remember" /\ op'[c] = Idle /\ faults' = faults /\ owner'[c] # None
          => LET s == owner[c]
                 k == op[c].key
                 asNew == {j \in Keys \ {k} : view[c].facts[s][j] >= view[c].facts[s][k]}
             IN db'.facts[s][k] # 0 \/ Cardinality(asNew) >= MaxFacts]_vars
  BY FactStep
<1> QED
  BY <1>1, Inductive, PTL DEF Spec, FactKept

LEMMA WedgedStep ==
    ASSUME IInv, [Next]_vars, NEW c \in Conns, Wedged(c)
    PROVE  (Wedged(c)' /\ view'[c] = view[c] /\ op'[c] = Idle) \/ owner'[c] = None
<1>1. TypeOK /\ txn[c] = "reading" /\ c \in stale /\ op[c] = Idle /\ owner[c] # None
  BY DEF IInv, Locks, Wedged
<1>2. CASE Crash
  BY <1>2 DEF Crash, Discard
<1>3. CASE UNCHANGED vars
  BY <1>1, <1>3 DEF vars, Wedged
<1>4. ASSUME NEW d \in Conns, d # c, Step(d)
      PROVE  Wedged(c)' /\ view'[c] = view[c] /\ op'[c] = Idle
  BY <1>1, <1>4, Others DEF Wedged
<1>5. CASE Step(c)
  <2>1. /\ \A s \in Sessions : ~Open(c, s)
        /\ \A m \in Methods : ~Start(c, m)
        /\ ~StartFault(c) /\ ~Read(c) /\ ~Finish(c) /\ ~Fault(c)
    BY <1>1 DEF Open, Start, StartFault, Read, Finish, Fault, MayWrite
  <2>2. CASE Close(c)
    BY <2>2 DEF Close, Discard
  <2>3. CASE Locked(c)
    BY <1>1, <2>3 DEF Locked, Wedged, TypeOK
  <2> QED
    BY <1>5, <2>1, <2>2, <2>3 DEF Step
<1> QED
  BY <1>2, <1>3, <1>4, <1>5 DEF Next

\* A connection whose snapshot was overtaken in the middle of a transaction writes nothing
\* and sees nothing newer until Memory.close.
THEOREM Wedge == Spec => WedgedUntilClosed
<1>1. IInv /\ [Next]_vars =>
        [\A c \in Conns : Wedged(c) =>
            (Wedged(c)' /\ view'[c] = view[c] /\ op'[c] = Idle) \/ owner'[c] = None]_vars
  BY WedgedStep
<1> QED
  BY <1>1, Inductive, PTL DEF Spec, WedgedUntilClosed
=============================================================================
