------------------------------ MODULE MCCalls ------------------------------
(***************************************************************************)
(* What an exchange waits for, with a lock held: a call of the provider,   *)
(* with up to three configured names, or the calls of tools in a thread.   *)
(* The two share no state, so a behaviour is of one of them.               *)
(***************************************************************************)
EXTENDS MCProvider, ToolThread

VARIABLE call

MCVars == <<call, vars, threadVars>>

\* Of the one that stays as it is, one initial state is enough.
MCInit ==
    /\ Init /\ ThreadInit
    /\ \/ call = "provider" /\ kind = "topic"
       \/ call = "tool" /\ ~configured /\ preferred = <<CHOOSE m \in Models : TRUE>>

Provide(A) == call = "provider" /\ A /\ UNCHANGED <<call, threadVars>>
RunTools(A) == call = "tool" /\ A /\ UNCHANGED <<call, vars>>

MCNext == Provide(Next) \/ RunTools(ThreadNext)

\* The fairness of the one or the other: Fairness or ThreadFairness.
MCSpec ==
    /\ MCInit /\ [][MCNext]_MCVars
    /\ WF_MCVars(Provide((\E code \in PostCodes : Post(code)) \/ Retry) \/ RunTools(CallWeb))
    /\ WF_MCVars(RunTools(CallServer)) /\ WF_MCVars(RunTools(RunWeb))
    /\ WF_MCVars(RunTools(Server!Wait /\ UNCHANGED webVars))
=============================================================================
