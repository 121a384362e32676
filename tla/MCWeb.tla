------------------------------- MODULE MCWeb -------------------------------
(***************************************************************************)
(* The web chat: the list of chats in the browser's tab, the limiter that  *)
(* admits its requests to the API, the sessions behind it.  The three      *)
(* share no state, so a behaviour is of one of them.                       *)
(***************************************************************************)
EXTENDS SmartChat, RateLimiter, ApiServer

VARIABLE part

MCVars == <<part, tabVars, limiterVars, vars>>

MCInit == part \in {"tab", "limiter", "sessions"} /\ TabInit /\ LimiterInit /\ Init

Tab(A) == part = "tab" /\ A /\ UNCHANGED <<part, limiterVars, vars>>
Limiter(A) == part = "limiter" /\ A /\ UNCHANGED <<part, tabVars, vars>>
Api(A) == part = "sessions" /\ A /\ UNCHANGED <<part, tabVars, limiterVars>>

MCNext == Tab(TabNext) \/ Limiter(LimiterNext) \/ Api(Next)

\* The fairness of the sessions; the other two promise nothing of what must happen.
MCSpec ==
    /\ MCInit /\ [][MCNext]_MCVars
    /\ \A r \in Requests : WF_MCVars(Api(ChatStep(r))) /\ WF_MCVars(Api(ThreadStep(r)))
=============================================================================
