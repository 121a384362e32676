-------------------------- MODULE ServerExecution --------------------------
(***************************************************************************)
(* tools/server_execution.py: one call of execute.  A listed command or an *)
(* allowed script runs in a session of its own; when its time is over the  *)
(* group is killed and the call waits for the end of the output.           *)
(***************************************************************************)
EXTENDS Naturals, FiniteSets

VARIABLES
    step,      \* where the call is
    main,      \* the process that was started
    children,  \* the kinds of its descendants that run
    status     \* what execute returned

vars == <<step, main, children, status>>

\* A descendant is in the group of the process unless it made a session of its own, and
\* may have the output open.
Children == [inGroup : BOOLEAN, output : BOOLEAN]

TypeOK ==
    /\ step \in {"idle", "wait", "kill", "reap", "done"}
    /\ main \in {"none", "running", "zero", "nonzero", "killed"}
    /\ children \subseteq Children
    /\ status \in {"none", "denied", "error", "success", "timeout"}

Init == step = "idle" /\ main = "none" /\ children = {} /\ status = "none"

Return(s) == step' = "done" /\ status' = s

\* An operation that is not listed, execution switched off, or a script not allowed; the
\* operations that look at files and logs; and a process that cannot be started.
WithoutProcess ==
    /\ step = "idle"
    /\ \E s \in {"denied", "success", "error"} : Return(s)
    /\ UNCHANGED <<main, children>>

Launch ==
    /\ step = "idle"
    /\ step' = "wait"
    /\ main' = "running"
    /\ UNCHANGED <<children, status>>

\* Mutation of OutputEnds: the end of the process is the end of its output.
OutputEndsEarly == main # "running"

\* communicate returns when everyone closed the output and the process is over.
OutputEnds == main # "running" /\ \A c \in children : ~c.output

Communicated ==
    /\ step = "wait" /\ OutputEnds
    /\ Return(IF main = "zero" THEN "success" ELSE "error")
    /\ UNCHANGED <<main, children>>

\* TimeoutExpired, which does not look whether the process is over.
TimeExpires ==
    /\ step = "wait"
    /\ step' = "kill"
    /\ UNCHANGED <<main, children, status>>

\* Mutation of Kill: process.kill, without the group.
KillMain ==
    /\ step = "kill"
    /\ step' = "reap"
    /\ main' = IF main = "running" THEN "killed" ELSE main
    /\ UNCHANGED <<children, status>>

\* killpg; where it fails no member is left but the process.
Kill ==
    /\ step = "kill"
    /\ step' = "reap"
    /\ main' = IF main = "running" THEN "killed" ELSE main
    /\ children' = {c \in children : ~c.inGroup}
    /\ UNCHANGED status

\* The second communicate has no time limit.
Reap ==
    /\ step = "reap" /\ OutputEnds
    /\ Return("timeout")
    /\ UNCHANGED <<main, children>>

-----------------------------------------------------------------------------
(* The processes                                                           *)

\* By the process or by a descendant: what it makes is in its group and has its output open
\* at most.
Spawn(c) ==
    /\ \/ main = "running"
       \/ \E parent \in children :
             (c.inGroup => parent.inGroup) /\ (c.output => parent.output)
    /\ children' = children \cup {c}
    /\ UNCHANGED <<step, main, status>>

\* It ends by itself or at its limits.
MainExits ==
    /\ main = "running"
    /\ main' \in {"zero", "nonzero"}
    /\ UNCHANGED <<step, children, status>>

ChildExits(c) ==
    /\ c \in children
    /\ children' = children \ {c}
    /\ UNCHANGED <<step, main, status>>

Call == WithoutProcess \/ Launch
Wait == Communicated \/ TimeExpires \/ Kill \/ Reap
Processes == MainExits \/ \E c \in Children : Spawn(c) \/ ChildExits(c)

Next == Call \/ Wait \/ Processes

Spec == Init /\ [][Next]_vars

Busy == step \in {"wait", "kill", "reap"}

-----------------------------------------------------------------------------
(* Correctness                                                             *)

\* When execute reports a time-out nothing of the process's group runs any more, whatever
\* it had started and whatever ended while it was being killed; when it reports success the
\* process came to its end by itself and nobody writes output any more.
NothingLeft ==
    /\ status = "timeout" => main # "running" /\ \A c \in children : ~c.inGroup
    /\ status = "success" /\ main # "none" => main = "zero" /\ \A c \in children : ~c.output

\* A descendant that left the group and keeps the output open.
Detached == \E c \in children : ~c.inGroup /\ c.output
=============================================================================
