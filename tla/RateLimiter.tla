---------------------------- MODULE RateLimiter ----------------------------
(***************************************************************************)
(* RateLimiter of the HTTP API: per key, a sliding window over the times   *)
(* of the admitted requests.  allow is called on the event loop only, so a *)
(* call is one step; keys that were idle for a window are dropped, a batch *)
(* at a time, by calls that admit while the table is over its limit.       *)
(***************************************************************************)
EXTENDS Integers, Sequences, FiniteSets

CONSTANTS
    Keys,
    MaxRequests,  \* max_requests, at least 1 by the configuration's check
    Window,       \* window_seconds, at least 1 likewise
    TableLimit,   \* 2048 in the code
    Batch,        \* 512 in the code
    MaxTime       \* bound on the clock

ASSUME LimitAssumption == MaxRequests \in Nat \ {0}
ASSUME WindowAssumption == Window \in Nat \ {0}
ASSUME TableAssumption == TableLimit \in Nat /\ Batch \in Nat \ {0} /\ MaxTime \in Nat

VARIABLES
    now,       \* time.monotonic()
    known,     \* the keys of _hits
    hits,      \* hits[k]: the times in the key's deque, empty when the key is not known
    admitted,  \* admitted[k]: when the key's requests were admitted, all of them
    refused    \* the keys with a refused request at this time

limiterVars == <<now, known, hits, admitted, refused>>

LimiterTypeOK ==
    /\ now \in 0..MaxTime
    /\ known \subseteq Keys /\ refused \subseteq Keys
    /\ hits \in [Keys -> Seq(0..MaxTime)]
    /\ admitted \in [Keys -> Seq(0..MaxTime)]
    /\ \A k \in Keys \ known : hits[k] = <<>>

LimiterInit ==
    /\ now = 0 /\ known = {} /\ refused = {}
    /\ hits = [k \in Keys |-> <<>>]
    /\ admitted = [k \in Keys |-> <<>>]

Tick ==
    /\ now < MaxTime
    /\ now' = now + 1
    /\ refused' = {}
    /\ UNCHANGED <<known, hits, admitted>>

-----------------------------------------------------------------------------
Old(t) == now - t >= Window

\* n is how many times the loop pops from the front of q.
Expires(q, n) ==
    /\ \A i \in 1..n : Old(q[i])
    /\ n < Len(q) => ~Old(q[n + 1])

Left(q, n) == SubSeq(q, n + 1, Len(q))

\* Mutation of Stale: a key is stale when its oldest time is.
StaleFirst(q) == q = <<>> \/ Old(Head(q))

Stale(q) == q = <<>> \/ Old(q[Len(q)])

\* Mutation of Prunable: the limit is that of a table that never shrinks.
PrunableNever(table, q) == {{}}

\* The batches of keys that may be dropped from a table with deques q.  (The code drops
\* the keys first that came first.)
Prunable(table, q) ==
    LET stale == {k \in table : Stale(q[k])}
    IN IF Cardinality(table) <= TableLimit THEN {{}}
       ELSE {gone \in SUBSET stale :
                Cardinality(gone) <= Batch /\ (gone = stale \/ Cardinality(gone) = Batch)}

\* allow returns True.
Admit(k) ==
    \E n \in 0..Len(hits[k]) :
        LET left == Left(hits[k], n)
            grown == [hits EXCEPT ![k] = Append(left, now)]
        IN /\ Expires(hits[k], n)
           /\ Len(left) < MaxRequests
           /\ admitted' = [admitted EXCEPT ![k] = Append(@, now)]
           /\ \E gone \in Prunable(known \cup {k}, grown) :
                 /\ known' = (known \cup {k}) \ gone
                 /\ hits' = [j \in Keys |-> IF j \in gone THEN <<>> ELSE grown[j]]
           /\ UNCHANGED <<now, refused>>

\* allow returns False.
Refuse(k) ==
    \E n \in 0..Len(hits[k]) :
        LET left == Left(hits[k], n)
        IN /\ Expires(hits[k], n)
           /\ Len(left) >= MaxRequests
           /\ hits' = [hits EXCEPT ![k] = left]
           /\ known' = known \cup {k}
           /\ refused' = refused \cup {k}
           /\ UNCHANGED <<now, admitted>>

LimiterNext == Tick \/ \E k \in Keys : Admit(k) \/ Refuse(k)

LimiterSpec == LimiterInit /\ [][LimiterNext]_limiterVars

-----------------------------------------------------------------------------
(* Correctness                                                             *)

\* However calls of many keys, expiry and pruning follow each other, a key never has
\* more than MaxRequests requests admitted within less than one window.
WindowBound ==
    \A k \in Keys : \A i \in 1..Len(admitted[k]) :
        i + MaxRequests <= Len(admitted[k])
        => admitted[k][i + MaxRequests] - admitted[k][i] >= Window

\* A request is refused only when the last MaxRequests admissions of its key all lie in
\* the window: neither refused requests nor those of other keys count.
RefusedWhenFull ==
    \A k \in refused :
        /\ Len(admitted[k]) >= MaxRequests
        /\ \A i \in 1..Len(admitted[k]) :
              i > Len(admitted[k]) - MaxRequests => ~Old(admitted[k][i])

\* The limit is neither exceeded nor applied to a key that has not reached it.
LimitExact == LimiterTypeOK /\ WindowBound /\ RefusedWhenFull

\* The keys with an admission in the window that ends at t.
Busy(t) == {k \in Keys : \E i \in 1..Len(admitted[k]) : admitted[k][i] \in (t - Window + 1)..t}

\* Above its limit the table never holds more keys than were busy at one time, although only
\* admissions prune it and only a batch at a time: it does not grow with the keys ever seen.
TableBound ==
    \/ Cardinality(known) <= TableLimit
    \/ \E t \in 0..now : Cardinality(known) <= Cardinality(Busy(t))
=============================================================================
