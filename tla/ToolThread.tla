----------------------------- MODULE ToolThread -----------------------------
(***************************************************************************)
(* A thread of the event loop's executor, which runs the functions of      *)
(* tools: a web call and a server execution, in either order, the second   *)
(* when the first has returned.  The threads and processes of a call run   *)
(* beside it.                                                              *)
(***************************************************************************)
EXTENDS Naturals, Sequences

CONSTANTS Urls, Public, MaxPages, MaxCompared, MaxRedirects

ASSUME UrlsAssumption == Public \subseteq Urls
ASSUME PagesAssumption == MaxPages \in Nat \ {0} /\ MaxCompared \in Nat /\ MaxRedirects \in Nat

VARIABLES stage, kind, pages, returned, found, step, main, children, status

Web == INSTANCE WebResearch WITH result <- returned
Server == INSTANCE ServerExecution

webVars == <<stage, kind, pages, returned, found>>
serverVars == <<step, main, children, status>>
threadVars == <<webVars, serverVars>>

ThreadInit == Web!Init /\ Server!Init

\* The thread is taken by one call at a time.
CallWeb == ~Server!Busy /\ (Web!Refuse \/ Web!Call) /\ UNCHANGED serverVars
CallServer == ~Web!Busy /\ Server!Call /\ UNCHANGED webVars

RunWeb == Web!Proceed /\ UNCHANGED serverVars
RunServer == (Server!Wait \/ Server!Processes) /\ UNCHANGED webVars

ThreadNext == CallWeb \/ CallServer \/ RunWeb \/ RunServer

ThreadSpec == ThreadInit /\ [][ThreadNext]_threadVars

\* Requests have timeouts, and the wait for a process has one until it is killed.  Processes
\* are fair to nobody.
ThreadFairness ==
    /\ WF_threadVars(CallWeb) /\ WF_threadVars(CallServer) /\ WF_threadVars(RunWeb)
    /\ WF_threadVars(Server!Wait /\ UNCHANGED webVars)

ThreadFairSpec == ThreadSpec /\ ThreadFairness

-----------------------------------------------------------------------------
(* Correctness                                                             *)

ThreadTypeOK == Web!TypeOK /\ Server!TypeOK

\* Of WebResearch.
RequestsBounded == ThreadTypeOK /\ Web!RequestsBounded

\* Of WebResearch.
PagesAccounted == Web!PagesAccounted

\* Of ServerExecution.
NothingLeft == Server!NothingLeft

\* Once the thread is called, both calls end, however long pages redirect and processes run;
\* only an output that a process outside the group keeps open can hold the thread, and then
\* the calls behind it.
CallsEnd ==
    \/ stage # "idle" \/ step # "idle" ~> stage = "done" /\ step = "done"
    \/ <>[]Server!Detached
=============================================================================
