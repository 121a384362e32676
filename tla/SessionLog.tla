----------------------------- MODULE SessionLog -----------------------------
(***************************************************************************)
(* What the service promises about the stored transcript of a session,     *)
(* however requests, evictions, clears and restarts interleave: at most    *)
(* one exchange of a session is open at a time, the rows of an exchange    *)
(* are stored one after the other with nothing of another exchange between *)
(* them, and an exchange that is given up never writes again.              *)
(*                                                                         *)
(* ApiServer implements this specification; the refinement mapping is in   *)
(* ApiServer.tla.                                                          *)
(***************************************************************************)
EXTENDS Sequences

CONSTANTS
    Sessions,   \* the sessions of the service
    Requests    \* the requests, each of which is at most one exchange

VARIABLES
    log,        \* log[s]: the rows of session s, oldest first, as <<request, role>>
    open        \* the exchanges under way, as <<session, request>>

vars == <<log, open>>

Roles == {"user", "tool", "assistant"}
Rows == Requests \X Roles

Init ==
    /\ log = [s \in Sessions |-> <<>>]
    /\ open = {}

\* An exchange starts: its question is stored, and no other one of the session is open.
Begin(s, r) ==
    /\ \A x \in open : x[1] # s
    /\ open' = open \cup {<<s, r>>}
    /\ log' = [log EXCEPT ![s] = Append(@, <<r, "user">>)]

\* The exchange under way stores the result of a tool.
Consult(s, r) ==
    /\ <<s, r>> \in open
    /\ log' = [log EXCEPT ![s] = Append(@, <<r, "tool">>)]
    /\ UNCHANGED open

\* The exchange under way stores its answer and ends.
Answer(s, r) ==
    /\ <<s, r>> \in open
    /\ log' = [log EXCEPT ![s] = Append(@, <<r, "assistant">>)]
    /\ open' = open \ {<<s, r>>}

\* Exchanges are given up (their agent was evicted, or the process ended): no row is written.
GiveUp(gone) ==
    /\ open' = open \ gone
    /\ UNCHANGED log

\* The rows of a session are deleted; an exchange under way stays under way.
Clear(s) ==
    /\ log' = [log EXCEPT ![s] = <<>>]
    /\ UNCHANGED open

Next ==
    \/ \E s \in Sessions, r \in Requests : Begin(s, r) \/ Consult(s, r) \/ Answer(s, r)
    \/ \E s \in Sessions : Clear(s)
    \/ \E gone \in SUBSET open : GiveUp(gone)

Spec == Init /\ [][Next]_vars
=============================================================================
