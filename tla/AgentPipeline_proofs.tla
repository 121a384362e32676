------------------------ MODULE AgentPipeline_proofs ------------------------
(***************************************************************************)
(* For all sessions, exchanges, configurations, texts and bounds: a plan   *)
(* is permitted by both policies, and no tool starts after its exchange    *)
(* gave up waiting; the rows of an exchange under way are its question and *)
(* its tool's, what the model is told of a tool is the last of them, an    *)
(* answered exchange is stored whole, and what is said to be forgotten is  *)
(* gone.                                                                   *)
(***************************************************************************)
EXTENDS AgentPipeline, FiniteSetTheorems, TLAPS

\* The functions updated point by point have a value for every exchange or session.
Total ==
    /\ stage = [x \in Exchanges |-> stage[x]]
    /\ session = [x \in Exchanges |-> session[x]]
    /\ plan = [x \in Exchanges |-> plan[x]]
    /\ job = [x \in Exchanges |-> job[x]]
    /\ facts = [s \in Sessions |-> facts[s]]

\* Before a tool is chosen there is no plan and no item; an item waits for a thread only
\* while its exchange waits for it.
ItemsWait ==
    \A x \in Exchanges :
        /\ stage[x] \in {"new", "plan"} => plan[x] = NoPlan /\ job[x] = "none"
        /\ stage[x] = "answer" => job[x] # "queued"
        /\ job[x] = "queued" => stage[x] = "tool"

IInv == Total /\ ItemsWait /\ PlansPermitted

-----------------------------------------------------------------------------
(* The two policies                                                        *)

\* server_execute is not for automatic selection, and not dangerous.
LEMMA ServerExecute ==
    /\ "server_execute" \in ToolNames
    /\ ~TOOLS["server_execute"].auto /\ ~TOOLS["server_execute"].dangerous
BY DEF TOOLS, ToolNames, Tool

\* Tool.run refuses nothing by policy: its answers are not run_tool's.
LEMMA RunsOrFails == \A p : RunFunction(p) \cap Refusals = {}
BY DEF RunFunction, Refusals

\* The metadata that _plan_tool tests are those that run_tool tests.
LEMMA MetadataPermit ==
    ASSUME NEW s, NEW p, p.tool \in ToolNames, Available(p.tool),
           ~TOOLS[p.tool].dangerous, TOOLS[p.tool].auto
    PROVE  Permitted(s, p)
<1>1. p.tool # "server_execute"
  BY ServerExecute
<1>2. RunTool(s, p) = RunFunction(p)
  BY <1>1 DEF RunTool
<1> QED
  BY <1>2, RunsOrFails DEF Permitted

\* The tool a text's words select is permitted.
LEMMA FastPermitted == ASSUME NEW s, NEW m, FastPlan(m) # NoPlan PROVE Permitted(s, FastPlan(m))
<1>1. /\ FastPlan(m) = m.fast /\ m.fast.tool \in ToolNames /\ Available(m.fast.tool)
      /\ ~TOOLS[m.fast.tool].dangerous /\ TOOLS[m.fast.tool].auto
  BY DEF FastPlan
<1> QED
  BY <1>1, MetadataPermit

\* The tool the planner names is permitted.
LEMMA PlannerPermitted ==
    ASSUME NEW s, NEW p \in PlannerChoices(s), p # NoPlan PROVE Permitted(s, p)
<1>1. p \in [tool : Allowed(s), args : PlannerArgs, safe_script : BOOLEAN]
  BY DEF PlannerChoices
<1>2. p.tool \in Allowed(s)
  BY <1>1
<1>3. CASE p.tool \in ToolNames /\ ~TOOLS[p.tool].dangerous /\ Available(p.tool) /\ TOOLS[p.tool].auto
  BY <1>3, MetadataPermit
<1>4. CASE p.tool = "server_execute" /\ CanUseServerExec(s) /\ Available(p.tool)
  <2>1. RunTool(s, p) = RunFunction(p)
    BY <1>4, ServerExecute DEF RunTool, CanUseServerExec
  <2> QED
    BY <2>1, <1>4, RunsOrFails DEF Permitted
<1> QED
  BY <1>2, <1>3, <1>4 DEF Allowed

\* The configuration is read once: what is permitted stays so.
LEMMA PermittedStays ==
    ASSUME NEW y, NEW STATE s, NEW STATE p, policy' = policy, session'[y] = s, plan'[y] = p, Permitted(s, p)
    PROVE  Permitted(session[y], plan[y])'
BY DEF Permitted, RunTool, RunFunction, Executes, Available, CanUseServerExec, Authorized

-----------------------------------------------------------------------------
(* The invariant                                                           *)

\* The initial states have it.
LEMMA InitInvariant == Init => IInv
BY DEF Init, IInv, Total, ItemsWait, PlansPermitted, NoExchange

\* A question that is stored on the way to the model keeps it.
LEMMA CameToWait ==
    ASSUME IInv, NEW x \in Exchanges, NEW s \in Sessions, NEW m,
           NEW to \in {"plan", "answer", "failed", "done"}, Come(x, s, to),
           UNCHANGED <<plan, poolVars>>,
           facts' = [t \in Sessions |-> facts'[t]]
    PROVE  IInv'
<1> USE DEF IInv, Come, poolVars
<1>1. Total'
  BY DEF Total
<1>2. ItemsWait'
  BY DEF ItemsWait, Total
<1>3. PlansPermitted'
  <2> SUFFICES ASSUME NEW y \in Exchanges, plan'[y] # NoPlan
               PROVE  Permitted(session[y], plan[y])'
    BY DEF PlansPermitted
  <2>1. y # x /\ plan[y] # NoPlan
    BY DEF ItemsWait
  <2>2. session'[y] = session[y] /\ plan'[y] = plan[y]
    BY <2>1 DEF Total
  <2>3. Permitted(session[y], plan[y])
    BY <2>1 DEF PlansPermitted
  <2> QED
    BY <2>2, <2>3, PermittedStays
<1> QED
  BY <1>1, <1>2, <1>3

\* A tool that is launched when it is permitted keeps it.
LEMMA LaunchKeeps ==
    ASSUME IInv, NEW x \in Exchanges, NEW s, NEW p, Permitted(s, p),
           stage[x] \in {"new", "plan"}, stage' = [stage EXCEPT ![x] = "tool"],
           session' = [session EXCEPT ![x] = s],
           policy' = policy, Launch(x, p)
    PROVE  /\ Total /\ (facts' = [t \in Sessions |-> facts'[t]]) => Total'
           /\ ItemsWait' /\ PlansPermitted'
<1> USE DEF IInv, Launch
<1>1. Total /\ (facts' = [t \in Sessions |-> facts'[t]]) => Total'
  BY DEF Total
<1>2. ItemsWait'
  BY DEF ItemsWait, Total
<1>3. PlansPermitted'
  <2> SUFFICES ASSUME NEW y \in Exchanges, plan'[y] # NoPlan
               PROVE  Permitted(session[y], plan[y])'
    BY DEF PlansPermitted
  <2>1. CASE y = x
    <3>1. session'[y] = s /\ plan'[y] = p
      BY <2>1 DEF Total
    <3> QED
      BY <3>1, PermittedStays
  <2>2. CASE y # x
    <3>1. plan'[y] = plan[y] /\ session'[y] = session[y]
      BY <2>2 DEF Total
    <3>2. Permitted(session[y], plan[y])
      BY <3>1 DEF PlansPermitted
    <3> QED
      BY <3>1, <3>2, PermittedStays
  <2> QED
    BY <2>1, <2>2
<1> QED
  BY <1>1, <1>2, <1>3

\* A step that launches nothing, forgets no plan but with its item, and leaves the facts,
\* keeps it: the tool, the timer, the database and the model.
LEMMA WaitKeeps ==
    ASSUME IInv, NEW x \in Exchanges,
           stage[x] \notin {"new", "plan"},
           \/ stage' = stage
           \/ stage' = [stage EXCEPT ![x] = "answer"] /\ job'[x] # "queued"
           \/ stage' = [stage EXCEPT ![x] = "done"] /\ stage[x] = "answer"
           \/ stage' = [stage EXCEPT ![x] = "failed"] /\ job'[x] # "queued",
           \/ UNCHANGED <<plan, job>>
           \/ DropJob(x)
           \/ plan' = plan /\ (\E to \in {"running", "returned"} : job' = [job EXCEPT ![x] = to]),
           UNCHANGED <<policy, session, facts>>
    PROVE  IInv'
<1> USE DEF IInv, DropJob
<1>1. Total'
  BY DEF Total
<1>2. ItemsWait'
  BY DEF ItemsWait, Total
<1>3. PlansPermitted'
  <2> SUFFICES ASSUME NEW y \in Exchanges, plan'[y] # NoPlan
               PROVE  Permitted(session[y], plan[y])'
    BY DEF PlansPermitted
  <2>1. session'[y] = session[y] /\ plan'[y] = plan[y]
    BY DEF Total
  <2>2. Permitted(session[y], plan[y])
    BY <2>1 DEF PlansPermitted
  <2> QED
    BY <2>1, <2>2, PermittedStays
<1> QED
  BY <1>1, <1>2, <1>3

-----------------------------------------------------------------------------
(* Every step                                                              *)

\* The start of ask.
LEMMA BeginKeeps ==
    ASSUME IInv, NEW x \in Exchanges, NEW s \in Sessions, NEW m \in Messages, Begin(x, s, m)
    PROVE  IInv'
<1>0. facts' = [t \in Sessions |-> facts'[t]]
  BY DEF IInv, Total, Begin, Refuse, Answer, BeginFails, AskTool, AskPlanner, AskModel, StoreQuestion, memoryVars
<1>1. CASE Refuse(x, s, m)
  BY <1>0, <1>1, CameToWait DEF Refuse
<1>2. CASE Answer(x, s, m)
  BY <1>0, <1>2, CameToWait DEF Answer
<1>3. CASE BeginFails(x, s, m)
  BY <1>0, <1>3, CameToWait DEF BeginFails
<1>4. CASE AskTool(x, s, m)
  <2>1. Permitted(s, FastPlan(m))
    BY <1>4, FastPermitted DEF AskTool
  <2>2. /\ stage[x] = "new" /\ stage' = [stage EXCEPT ![x] = "tool"]
        /\ session' = [session EXCEPT ![x] = s] /\ policy' = policy
        /\ Launch(x, FastPlan(m))
    BY <1>4 DEF AskTool, StoreQuestion, Come
  <2>3. Total
    BY DEF IInv
  <2> QED
    BY <1>0, <2>1, <2>2, <2>3, LaunchKeeps DEF IInv
<1>5. CASE AskPlanner(x, s, m)
  BY <1>0, <1>5, CameToWait DEF AskPlanner, StoreQuestion
<1>6. CASE AskModel(x, s, m)
  BY <1>0, <1>6, CameToWait DEF AskModel, StoreQuestion
<1> QED
  BY <1>1, <1>2, <1>3, <1>4, <1>5, <1>6 DEF Begin

\* The planner's reply.
LEMMA PlannerKeeps ==
    ASSUME IInv, NEW x \in Exchanges, stage[x] = "plan",
           NEW p \in PlannerChoices(session[x]), PlannerChooses(x, p)
    PROVE  IInv'
<1>1. CASE p = NoPlan
  <2>1. stage' = [stage EXCEPT ![x] = "answer"] /\ UNCHANGED <<policy, session, facts, plan, job>>
    BY <1>1 DEF PlannerChooses, memoryVars, poolVars
  <2>2. Total' /\ ItemsWait'
    BY <2>1 DEF IInv, Total, ItemsWait
  <2>3. PlansPermitted'
    BY <2>1, PermittedStays DEF IInv, PlansPermitted
  <2> QED
    BY <2>2, <2>3 DEF IInv
<1>2. CASE p # NoPlan
  <2>1. Permitted(session[x], p)
    BY <1>2, PlannerPermitted
  <2>2. /\ stage' = [stage EXCEPT ![x] = "tool"] /\ Launch(x, p)
        /\ UNCHANGED <<policy, session, facts>>
    BY <1>2 DEF PlannerChooses, memoryVars
  <2>3. /\ session' = [session EXCEPT ![x] = session[x]]
        /\ Total /\ facts' = [t \in Sessions |-> facts'[t]]
    BY <2>2 DEF IInv, Total
  <2>4. /\ Total /\ facts' = [t \in Sessions |-> facts'[t]] => Total'
        /\ ItemsWait' /\ PlansPermitted'
    <3> DEFINE s == session[x]
    <3>1. Permitted(s, p) /\ session' = [session EXCEPT ![x] = s]
      BY <2>1, <2>3
    <3>2. policy' = policy
      BY <2>2
    <3> HIDE DEF s
    <3> QED
      BY <2>2, <3>1, <3>2, LaunchKeeps
  <2> QED
    BY <2>3, <2>4 DEF IInv
<1> QED
  BY <1>1, <1>2

\* The end of the wait for a tool: afterwards no item of the exchange is queued.
LEMMA EndLeavesQueue ==
    ASSUME IInv, NEW x \in Exchanges, stage[x] = "tool", NEW r, ToolEnds(x, r)
    PROVE  /\ UNCHANGED <<plan, job>> \/ DropJob(x)
           /\ job'[x] # "queued"
BY DEF ToolEnds, Returned, TimedOut, DropJob, IInv, Total, ItemsWait

\* What a started exchange does next.
LEMMA ProceedKeeps == ASSUME IInv, NEW x \in Exchanges, Proceed(x) PROVE IInv'
<1>1. CASE stage[x] = "plan" /\ \E p \in PlannerChoices(session[x]) : PlannerChooses(x, p)
  BY <1>1, PlannerKeeps
<1>2. ASSUME stage[x] = "tool", NEW r \in {outcome[x], "timeout"},
             ToolDone(x, r) \/ ToolRowFails(x, r) \/ ToolRowLost(x, r)
      PROVE  IInv'
  <2>1. ToolEnds(x, r) /\ UNCHANGED <<policy, session, facts>>
    BY <1>2 DEF ToolDone, ToolRowFails, ToolRowLost
  <2>2. (UNCHANGED <<plan, job>> \/ DropJob(x)) /\ job'[x] # "queued"
    BY <1>2, <2>1, EndLeavesQueue
  <2>3. stage' = [stage EXCEPT ![x] = "answer"] \/ stage' = [stage EXCEPT ![x] = "failed"]
    BY <1>2 DEF ToolDone, ToolRowFails, ToolRowLost, Report
  <2> QED
    BY <1>2, <2>1, <2>2, <2>3, WaitKeeps
<1>3. ASSUME stage[x] = "answer", NEW says \in ModelSays, ModelAnswers(x, says) \/ AnswerLost(x, says)
      PROVE  IInv'
  <2>1. UNCHANGED <<policy, session, facts, plan, job>>
    BY <1>3 DEF ModelAnswers, AnswerLost, poolVars
  <2>2. stage' = [stage EXCEPT ![x] = "done"] \/ stage' = [stage EXCEPT ![x] = "failed"]
    BY <1>3 DEF ModelAnswers, AnswerLost
  <2>3. job'[x] # "queued"
    BY <1>3, <2>1 DEF IInv, ItemsWait
  <2> QED
    BY <1>3, <2>1, <2>2, <2>3, WaitKeeps
<1> QED
  BY <1>1, <1>2, <1>3 DEF Proceed

\* The threads of the pool.
LEMMA PoolKeeps == ASSUME IInv, NEW x \in Exchanges, StartJob(x) \/ FinishJob(x) PROVE IInv'
<1>1. stage[x] \notin {"new", "plan"}
  BY DEF StartJob, FinishJob, IInv, ItemsWait
<1>2. CASE StartJob(x)
  BY <1>1, <1>2, WaitKeeps DEF StartJob, memoryVars
<1>3. CASE FinishJob(x)
  <2>1. UNCHANGED <<policy, stage, session, facts>>
    BY <1>3 DEF FinishJob, memoryVars
  <2>2. CASE stage[x] = "tool"
    BY <1>1, <1>3, <2>1, <2>2, WaitKeeps DEF FinishJob
  <2>3. CASE stage[x] # "tool"
    <3>1. job' = [job EXCEPT ![x] = "none"] /\ plan' = [plan EXCEPT ![x] = NoPlan]
      BY <1>3, <2>3 DEF FinishJob
    <3>2. Total' /\ ItemsWait'
      BY <2>1, <3>1 DEF IInv, Total, ItemsWait
    <3>3. PlansPermitted'
      BY <2>1, <3>1, PermittedStays DEF IInv, Total, PlansPermitted
    <3> QED
      BY <3>2, <3>3 DEF IInv
  <2> QED
    BY <2>2, <2>3
<1> QED
  BY <1>2, <1>3

\* Every step, and a step of nothing.
LEMMA NextInvariant == IInv /\ [Next]_vars => IInv'
<1> SUFFICES ASSUME IInv, [Next]_vars PROVE IInv'
  OBVIOUS
<1>1. CASE Next
  BY <1>1, BeginKeeps, ProceedKeeps, PoolKeeps DEF Next
<1>2. CASE UNCHANGED vars
  <2>1. Total' /\ ItemsWait'
    BY <1>2 DEF vars, IInv, Total, ItemsWait
  <2>2. PlansPermitted'
    BY <1>2, PermittedStays DEF vars, IInv, PlansPermitted
  <2> QED
    BY <2>1, <2>2 DEF IInv
<1> QED
  BY <1>1, <1>2

-----------------------------------------------------------------------------
(* The theorems                                                            *)

\* The invariant holds in every state of every behaviour.
THEOREM Invariance == Spec => []IInv
<1>1. Init => IInv
  BY InitInvariant
<1>2. IInv /\ [Next]_vars => IInv'
  BY NextInvariant
<1> QED
  BY <1>1, <1>2, PTL DEF Spec

\* Whatever _plan_tool chooses, by keyword or by the model, run_tool permits, and only
\* what is for automatic selection or may be executed by the session is chosen.
THEOREM PlansArePermitted == Spec => []PlansPermitted
<1>1. IInv => PlansPermitted
  BY DEF IInv
<1> QED
  BY <1>1, Invariance, PTL

\* A step that starts an item starts it while its exchange waits.
LEMMA StartsInTime ==
    ASSUME IInv, [Next]_vars
    PROVE  \A x \in Exchanges : job'[x] = "running" /\ job[x] # "running" => stage[x] = "tool"
<1> SUFFICES ASSUME NEW x \in Exchanges, job'[x] = "running", job[x] # "running" PROVE stage[x] = "tool"
  OBVIOUS
<1>1. PICK y \in Exchanges : \/ \E s \in Sessions, m \in Messages : Begin(y, s, m)
                             \/ Proceed(y) \/ StartJob(y) \/ FinishJob(y)
  BY DEF Next, vars
<1>2. CASE StartJob(y)
  BY <1>2 DEF StartJob, IInv, Total, ItemsWait
<1>3. CASE FinishJob(y)
  BY <1>3 DEF FinishJob, IInv, Total
<1>4. CASE Proceed(y)
  BY <1>4 DEF Proceed, PlannerChooses, ToolDone, ToolRowFails, ToolRowLost, ToolEnds, Returned, TimedOut,
              DropJob, Launch, ModelAnswers, AnswerLost, poolVars, IInv, Total
<1>5. CASE \E s \in Sessions, m \in Messages : Begin(y, s, m)
  BY <1>5 DEF Begin, Refuse, Answer, BeginFails, AskTool, AskPlanner, AskModel, Launch, poolVars, IInv, Total
<1> QED
  BY <1>1, <1>2, <1>3, <1>4, <1>5

\* No tool starts after its exchange gave up waiting for it, whatever the pool's size.
THEOREM NothingStartsLate == Spec => NoLateStart
<1>1. IInv /\ [Next]_vars =>
        [\A x \in Exchanges : job'[x] = "running" /\ job[x] # "running" => stage[x] = "tool"]_vars
  BY StartsInTime
<1> QED
  BY <1>1, Invariance, PTL DEF Spec, NoLateStart

-----------------------------------------------------------------------------
(* The rows of an exchange                                                 *)

RowSet == [ex : Exchanges, role : Roles, says : Results \cup Replies \cup Texts]

\* The question of the exchange is stored and after it rows of its tool only.
Opened(rows, x) ==
    \E first \in Own(rows, x) :
        /\ rows[first].role = "user"
        /\ \A i \in Own(rows, x) \ {first} : first < i /\ rows[i].role = "tool"

\* r is what the last row of the tool says, or "none" when there is no such row.
Told(rows, x, r) ==
    \/ ToolRows(rows, x) = {} /\ r = "none"
    \/ \E last \in ToolRows(rows, x) : r = rows[last].says /\ \A i \in ToolRows(rows, x) : i <= last

RowsFit ==
    \A x \in Exchanges :
        /\ stage[x] = "new" => prompt[x] = "none" /\ \A s \in Sessions : Own(log[s], x) = {}
        /\ UnderWay(x) => Opened(log[session[x]], x)
        /\ stage[x] \in {"plan", "tool"} => prompt[x] = "none" /\ ToolRows(log[session[x]], x) = {}
        /\ stage[x] = "answer" => Told(log[session[x]], x, prompt[x])

\* An item that returned has a result, and the running ones are finitely many.
PoolFit ==
    /\ \A x \in Exchanges : job[x] = "returned" => outcome[x] \in Results
    /\ IsFiniteSet(Running)

Stored == TypeOK /\ PoolFit /\ RowsFit

\* Two sequences put together, place by place.
LEMMA Concatenated ==
    ASSUME NEW S, NEW q \in Seq(S), NEW e \in Seq(S)
    PROVE  /\ q \o e \in Seq(S) /\ Len(q \o e) = Len(q) + Len(e)
           /\ Len(q) \in Nat /\ Len(e) \in Nat
           /\ DOMAIN q = 1..Len(q) /\ DOMAIN e = 1..Len(e) /\ DOMAIN (q \o e) = 1..(Len(q) + Len(e))
           /\ \A i \in 1..Len(q) : (q \o e)[i] = q[i]
           /\ \A i \in 1..Len(e) : (q \o e)[Len(q) + i] = e[i]
OBVIOUS

\* One more element behind a sequence.
LEMMA OneMore ==
    ASSUME NEW S, NEW q \in Seq(S), NEW r \in S, NEW c, c = q \o <<r>>
    PROVE  /\ c \in Seq(S) /\ Len(q) \in Nat
           /\ DOMAIN q = 1..Len(q) /\ DOMAIN c = 1..(Len(q) + 1)
           /\ \A i \in 1..Len(q) : c[i] = q[i]
           /\ c[Len(q) + 1] = r
OBVIOUS

\* Rows of other exchanges behind them change nothing about an exchange's own.
LEMMA OtherRows ==
    ASSUME NEW q \in Seq(RowSet), NEW e \in Seq(RowSet), NEW x, \A i \in 1..Len(e) : e[i].ex # x
    PROVE  /\ Own(q \o e, x) = Own(q, x) /\ ToolRows(q \o e, x) = ToolRows(q, x)
           /\ Opened(q, x) => Opened(q \o e, x)
           /\ \A r : Told(q, x, r) => Told(q \o e, x, r)
<1>1. /\ Len(q) \in Nat /\ Len(e) \in Nat
      /\ DOMAIN q = 1..Len(q) /\ DOMAIN (q \o e) = 1..(Len(q) + Len(e))
      /\ \A i \in 1..Len(q) : (q \o e)[i] = q[i]
      /\ \A i \in 1..Len(e) : (q \o e)[Len(q) + i] = e[i]
  BY Concatenated
<1>2. \A i \in 1..(Len(q) + Len(e)) : i \in 1..Len(q) \/ (q \o e)[i].ex # x
  <2>1. SUFFICES ASSUME NEW i \in 1..(Len(q) + Len(e)), i \notin 1..Len(q)
                 PROVE  (q \o e)[i].ex # x
    OBVIOUS
  <2>2. i - Len(q) \in 1..Len(e) /\ Len(q) + (i - Len(q)) = i
    BY <1>1, <2>1
  <2> QED
    BY <1>1, <2>2
<1>3. 1..Len(q) \subseteq 1..(Len(q) + Len(e))
  BY <1>1
<1> DEFINE c == q \o e
<1> HIDE DEF c
<1>4. Own(c, x) = Own(q, x) /\ \A i \in Own(q, x) : c[i] = q[i]
  BY <1>1, <1>2, <1>3 DEF Own, c
<1>5. ToolRows(c, x) = ToolRows(q, x)
  BY <1>4 DEF ToolRows
<1>6. ToolRows(q, x) \subseteq Own(q, x)
  BY DEF ToolRows
<1>7. Opened(q, x) => Opened(c, x)
  BY <1>4 DEF Opened
<1>8. \A r : Told(q, x, r) => Told(c, x, r)
  BY <1>4, <1>5, <1>6 DEF Told
<1> QED
  BY <1>4, <1>5, <1>7, <1>8 DEF c

\* A question behind rows of other exchanges.
LEMMA QuestionOpens ==
    ASSUME NEW q \in Seq(RowSet), NEW x \in Exchanges, Own(q, x) = {}
    PROVE  LET c == q \o <<Row(x, "user", "none")>> IN Opened(c, x) /\ ToolRows(c, x) = {}
<1> DEFINE r == Row(x, "user", "none")
           c == q \o <<r>>
<1>1. r \in RowSet /\ r.ex = x /\ r.role = "user"
  BY DEF RowSet, Row, Roles, Replies
<1> HIDE DEF r
<1>2. /\ Len(q) \in Nat /\ DOMAIN q = 1..Len(q) /\ DOMAIN c = 1..(Len(q) + 1)
      /\ \A i \in 1..Len(q) : c[i] = q[i]
      /\ c[Len(q) + 1] = r
  BY <1>1, OneMore
<1> HIDE DEF c
<1>3. \A i \in 1..(Len(q) + 1) : i \in 1..Len(q) \/ i = Len(q) + 1
  BY <1>2
<1>4. Own(c, x) = {Len(q) + 1}
  BY <1>1, <1>2, <1>3 DEF Own
<1>5. c[Len(q) + 1].role = "user"
  BY <1>1, <1>2
<1> QED
  BY <1>4, <1>5 DEF Opened, ToolRows, c, r

\* A row of the tool behind the rows of its exchange.
LEMMA ToolRowTells ==
    ASSUME NEW q \in Seq(RowSet), NEW x \in Exchanges, Opened(q, x), NEW r \in Results
    PROVE  LET c == q \o <<Row(x, "tool", r)>> IN
           c \in Seq(RowSet) /\ Opened(c, x) /\ Told(c, x, r)
<1> DEFINE e == Row(x, "tool", r)
           c == q \o <<e>>
<1>1. e \in RowSet /\ e.ex = x /\ e.role = "tool" /\ e.says = r
  BY DEF RowSet, Row, Roles
<1> HIDE DEF e
<1>2. /\ Len(q) \in Nat /\ DOMAIN q = 1..Len(q) /\ DOMAIN c = 1..(Len(q) + 1) /\ c \in Seq(RowSet)
      /\ \A i \in 1..Len(q) : c[i] = q[i]
      /\ c[Len(q) + 1] = e
  BY <1>1, OneMore
<1> HIDE DEF c
<1>3. \A i \in 1..(Len(q) + 1) : (i \in 1..Len(q) /\ i < Len(q) + 1) \/ i = Len(q) + 1
  BY <1>2
<1>4. Own(c, x) = Own(q, x) \cup {Len(q) + 1} /\ Own(q, x) \subseteq 1..Len(q)
  BY <1>1, <1>2, <1>3 DEF Own
<1>5. Opened(c, x)
  <2>1. PICK first \in Own(q, x) :
          /\ q[first].role = "user"
          /\ \A i \in Own(q, x) \ {first} : first < i /\ q[i].role = "tool"
    BY DEF Opened
  <2>2. first \in Own(c, x) /\ c[first].role = "user"
    BY <1>2, <1>4, <2>1
  <2>3. ASSUME NEW i \in Own(c, x) \ {first} PROVE first < i /\ c[i].role = "tool"
    <3>1. CASE i \in Own(q, x)
      BY <1>2, <1>4, <2>1, <2>3, <3>1
    <3>2. CASE i = Len(q) + 1
      BY <1>1, <1>2, <1>4, <2>1, <3>2
    <3> QED
      BY <1>4, <3>1, <3>2
  <2> QED
    BY <2>2, <2>3 DEF Opened
<1>6. Told(c, x, r)
  <2>1. Len(q) + 1 \in ToolRows(c, x) /\ c[Len(q) + 1].says = r
    BY <1>1, <1>2, <1>4 DEF ToolRows
  <2>2. \A i \in ToolRows(c, x) : i <= Len(q) + 1
    BY <1>2, <1>4 DEF ToolRows
  <2> QED
    BY <2>1, <2>2 DEF Told
<1> QED
  BY <1>2, <1>5, <1>6 DEF c, e

\* Adding rows of exchange x to a log, that of its session, which is emptied before only when no
\* exchange of the session is under way.
LEMMA RowsStep ==
    ASSUME TypeOK, RowsFit, NEW x \in Exchanges, NEW s \in Sessions, NEW q \in Seq(RowSet),
           NEW e \in Seq(RowSet), \A i \in 1..Len(e) : e[i].ex = x,
           log' = [log EXCEPT ![s] = q \o e], q = log[s] \/ (q = <<>> /\ Idle(s)),
           NEW to, to # "new", stage' = [stage EXCEPT ![x] = to], session' = [session EXCEPT ![x] = s],
           \A y \in Exchanges \ {x} : prompt'[y] = prompt[y],
           to \in {"plan", "tool", "answer"} => Opened(q \o e, x),
           to \in {"plan", "tool"} => prompt'[x] = "none" /\ ToolRows(q \o e, x) = {},
           to = "answer" => Told(q \o e, x, prompt'[x])
    PROVE  RowsFit' /\ log' \in [Sessions -> Seq(RowSet)]
<1>1. /\ log \in [Sessions -> Seq(RowSet)] /\ stage'[x] = to /\ session'[x] = s
      /\ \A y \in Exchanges \ {x} : stage'[y] = stage[y] /\ session'[y] = session[y]
      /\ session \in [Exchanges -> Sessions]
  BY DEF TypeOK, RowSet
<1>2. q \o e \in Seq(RowSet)
  BY Concatenated
<1>3. /\ log'[s] = q \o e /\ \A t \in Sessions \ {s} : log'[t] = log[t]
      /\ log' \in [Sessions -> Seq(RowSet)]
  BY <1>1, <1>2
<1>4. ASSUME NEW y \in Exchanges, y # x, NEW t \in Sessions
      PROVE  /\ Own(log[t], y) = {} => Own(log'[t], y) = {}
             /\ UnderWay(y) /\ t = session[y] =>
                  /\ Opened(log[t], y) => Opened(log'[t], y)
                  /\ ToolRows(log[t], y) = {} => ToolRows(log'[t], y) = {}
                  /\ \A r : Told(log[t], y, r) => Told(log'[t], y, r)
  <2>1. CASE t # s
    BY <1>3, <2>1
  <2>2. CASE t = s /\ q = log[s]
    <3>1. \A i \in 1..Len(e) : e[i].ex # y
      BY <1>4
    <3> HIDE DEF RowSet
    <3>2. /\ Own(q \o e, y) = Own(q, y) /\ ToolRows(q \o e, y) = ToolRows(q, y)
          /\ Opened(q, y) => Opened(q \o e, y)
          /\ \A r : Told(q, y, r) => Told(q \o e, y, r)
      BY <3>1, OtherRows
    <3> QED
      BY <1>3, <2>2, <3>2
  <2>3. CASE t = s /\ q = <<>> /\ Idle(s)
    <3>1. ~(UnderWay(y) /\ t = session[y])
      BY <2>3 DEF Idle
    <3>2. \A i \in 1..Len(e) : e[i].ex # y
      BY <1>4
    <3>3. Own(q \o e, y) = Own(q, y)
      BY <3>2, OtherRows
    <3>4. Own(q, y) = {}
      BY <2>3 DEF Own
    <3> QED
      BY <1>3, <2>3, <3>1, <3>3, <3>4
  <2> QED
    BY <2>1, <2>2, <2>3
<1>5. ASSUME NEW y \in Exchanges
      PROVE  /\ stage'[y] = "new" => prompt'[y] = "none" /\ \A t \in Sessions : Own(log'[t], y) = {}
             /\ stage'[y] \in {"plan", "tool", "answer"} => Opened(log'[session'[y]], y)
             /\ stage'[y] \in {"plan", "tool"} =>
                   prompt'[y] = "none" /\ ToolRows(log'[session'[y]], y) = {}
             /\ stage'[y] = "answer" => Told(log'[session'[y]], y, prompt'[y])
  <2>1. CASE y = x
    BY <1>1, <1>3, <2>1
  <2>2. CASE y # x
    <3>1. stage'[y] = stage[y] /\ session'[y] = session[y] /\ prompt'[y] = prompt[y]
          /\ session[y] \in Sessions
      BY <1>1, <2>2
    <3>2. /\ stage[y] = "new" => prompt[y] = "none" /\ \A t \in Sessions : Own(log[t], y) = {}
          /\ UnderWay(y) => Opened(log[session[y]], y)
          /\ stage[y] \in {"plan", "tool"} => prompt[y] = "none" /\ ToolRows(log[session[y]], y) = {}
          /\ stage[y] = "answer" => Told(log[session[y]], y, prompt[y])
      BY DEF RowsFit
    <3> QED
      BY <1>4, <2>2, <3>1, <3>2 DEF UnderWay
  <2> QED
    BY <2>1, <2>2
<1>6. RowsFit'
  BY <1>5 DEF RowsFit, UnderWay, Opened, Told, ToolRows, Own
<1> QED
  BY <1>3, <1>6

-----------------------------------------------------------------------------
(* The types                                                               *)

\* A plan names a tool and arguments the tool declares.
PlanFits(p) == p = NoPlan \/ p \in Plans(p.tool)

\* What is remembered and forgotten of a text leaves facts, also when only some is remembered.
LEMMA FactsFit ==
    ASSUME NEW m \in Messages, NEW fs \in SUBSET Facts
    PROVE  /\ \A keys \in SUBSET Remembered(m) : Remember(fs, m, keys) \in SUBSET Facts
           /\ RememberFromMessage(fs, m) \in SUBSET Facts /\ FactsBefore(fs, m) \in SUBSET Facts
<1>1. Remembered(m) \subseteq Keys
  BY MessagesAssumption DEF Remembered
<1>2. \A keys \in SUBSET Remembered(m) : Remember(fs, m, keys) \in SUBSET Facts
  BY <1>1 DEF Remember, Facts
<1>3. RememberFromMessage(fs, m) \in SUBSET Facts
  BY <1>2 DEF RememberFromMessage
<1>4. \A told \in SUBSET Facts : ForgetFacts(told, m) \in SUBSET Facts
  BY DEF ForgetFacts
<1> QED
  BY <1>2, <1>3, <1>4 DEF FactsBefore

\* What is chosen by the words of a text.
LEMMA FastFits == ASSUME NEW m \in Messages PROVE PlanFits(FastPlan(m))
<1>1. m.fast = [tool |-> m.fast.tool, args |-> m.fast.args, safe_script |-> FALSE]
  BY MessagesAssumption
<1>2. ASSUME FastPlan(m) # NoPlan
      PROVE  /\ FastPlan(m) = m.fast /\ m.fast.tool \in ToolNames
             /\ m.fast.args \subseteq TOOLS[m.fast.tool].args
  BY <1>2, Zenon DEF FastPlan
<1>3. ASSUME NEW t \in ToolNames, NEW args \in SUBSET TOOLS[t].args
      PROVE  [tool |-> t, args |-> args, safe_script |-> FALSE] \in Plans(t)
  <2> HIDE DEF TOOLS, ToolNames
  <2> QED
    BY <1>3 DEF Plans
<1>4. CASE FastPlan(m) # NoPlan
  <2>1. m.fast \in Plans(m.fast.tool)
    BY <1>1, <1>2, <1>3, <1>4
  <2> QED
    BY <1>2, <1>4, <2>1 DEF PlanFits
<1> QED
  BY <1>4 DEF PlanFits

\* What is chosen by the planner.
LEMMA PlannerFits == ASSUME NEW s, NEW p \in PlannerChoices(s) PROVE PlanFits(p)
<1>1. \/ p = NoPlan
      \/ /\ p \in [tool : Allowed(s), args : PlannerArgs, safe_script : BOOLEAN]
         /\ p.args \subseteq TOOLS[p.tool].args
  BY DEF PlannerChoices
<1>2. Allowed(s) \subseteq ToolNames
  BY ServerExecute DEF Allowed
<1> QED
  BY <1>1, <1>2 DEF PlanFits, Plans

\* A call of run_tool has a result.
LEMMA RunFits == \A s, p : RunTool(s, p) \subseteq Results
BY DEF RunTool, RunFunction, Results, Refusals

\* What the model writes and what the user is shown of it have their types.
LEMMA SaysFits == \A says \in ModelSays : says \in Replies \cup Texts /\ Shown(says) \in Replies
<1>1. \A a \in Answers : a \in Texts
  BY AnswersAssumption
<1>2. \A says \in ModelSays :
        says \in {"text", "placeholder", "echo_web", "echo_other", "echo_broken", "apology"}
  BY <1>1 DEF ModelSays, Recorded, Texts
<1> QED
  BY <1>2 DEF Shown, Replies, Texts

\* While no item starts, no more of them run.
LEMMA FewerRun ==
    ASSUME TypeOK, PoolFit, \A x \in Exchanges : job'[x] = "running" => job[x] = "running"
    PROVE  IsFiniteSet(Running') /\ Cardinality(Running') <= Workers
<1>1. Running' \subseteq Running
  BY DEF Running
<1>2. IsFiniteSet(Running) /\ Cardinality(Running) <= Workers
  BY DEF PoolFit, TypeOK, Running
<1>3. IsFiniteSet(Running') /\ Cardinality(Running') <= Cardinality(Running)
  BY <1>1, <1>2, FS_Subset
<1>4. Cardinality(Running') \in Nat /\ Cardinality(Running) \in Nat /\ Workers \in Nat
  BY <1>2, <1>3, FS_CardinalityType, BoundsAssumption
<1> QED
  BY <1>2, <1>3, <1>4

\* An item starts when a thread is free.
LEMMA OneMoreRuns ==
    ASSUME TypeOK, PoolFit, NEW x \in Exchanges, StartJob(x)
    PROVE  IsFiniteSet(Running') /\ Cardinality(Running') <= Workers
<1>1. job \in [Exchanges -> {"none", "queued", "running", "returned"}] /\ job' = [job EXCEPT ![x] = "running"]
      /\ job[x] = "queued" /\ Cardinality(Running) < Workers
  BY DEF TypeOK, StartJob
<1>2. Running' = Running \cup {x} /\ x \notin Running
  BY <1>1 DEF Running
<1>3. IsFiniteSet(Running)
  BY DEF PoolFit
<1>4. IsFiniteSet(Running') /\ Cardinality(Running') = Cardinality(Running) + 1
  BY <1>2, <1>3, FS_AddElement
<1>5. Cardinality(Running) \in Nat /\ Workers \in Nat
  BY <1>3, FS_CardinalityType, BoundsAssumption
<1> QED
  BY <1>1, <1>4, <1>5

\* The types of the variables but for the log and the pool.
FormFits ==
    /\ policy \in Policies
    /\ stage \in [Exchanges -> {"new", "plan", "tool", "answer", "done", "failed"}]
    /\ session \in [Exchanges -> Sessions]
    /\ facts \in [Sessions -> SUBSET Facts]
    /\ prompt \in [Exchanges -> Results \cup {"none"}]
    /\ reply \in [Exchanges -> Replies]
    /\ faults \in 0..MaxFaults

\* The items of the pool, their tools and their results.
PoolForm ==
    /\ \A x \in Exchanges : PlanFits(plan[x])
    /\ job \in [Exchanges -> {"none", "queued", "running", "returned"}]
    /\ outcome \in [Exchanges -> Results \cup {"none"}]
    /\ Cardinality(Running) <= Workers
    /\ PoolFit

\* Together they are the types.
LEMMA Parts ==
    TypeOK /\ PoolFit <=> FormFits /\ PoolForm /\ log \in [Sessions -> Seq(RowSet)]
BY DEF TypeOK, FormFits, PoolForm, PlanFits, RowSet, Running

\* Which items and tools there are after a step of one exchange.
LEMMA PoolStep ==
    ASSUME Total, TypeOK, PoolFit, NEW x \in Exchanges,
           \/ UNCHANGED <<plan, job, outcome>>
           \/ DropJob(x)
           \/ \E p : PlanFits(p) /\ Launch(x, p)
           \/ FinishJob(x)
    PROVE  PoolForm'
<1>1. /\ plan = [y \in Exchanges |-> plan[y]] /\ \A y \in Exchanges : PlanFits(plan[y])
      /\ job \in [Exchanges -> {"none", "queued", "running", "returned"}]
      /\ outcome \in [Exchanges -> Results \cup {"none"}]
      /\ \A y \in Exchanges : job[y] = "returned" => outcome[y] \in Results
  BY DEF Total, TypeOK, PoolFit, PlanFits
<1>2. PlanFits(NoPlan)
  BY DEF PlanFits
<1>3. /\ \A y \in Exchanges : PlanFits(plan'[y])
      /\ job' \in [Exchanges -> {"none", "queued", "running", "returned"}]
      /\ outcome' \in [Exchanges -> Results \cup {"none"}]
      /\ \A y \in Exchanges : job'[y] = "returned" => outcome'[y] \in Results
      /\ \A y \in Exchanges : job'[y] = "running" => job[y] = "running"
  <2>1. CASE UNCHANGED <<plan, job, outcome>>
    BY <1>1, <2>1
  <2>2. CASE DropJob(x)
    BY <1>1, <1>2, <2>2 DEF DropJob
  <2>3. ASSUME NEW p, PlanFits(p), Launch(x, p)
        PROVE  /\ \A y \in Exchanges : PlanFits(plan'[y])
               /\ job' \in [Exchanges -> {"none", "queued", "running", "returned"}]
               /\ outcome' \in [Exchanges -> Results \cup {"none"}]
               /\ \A y \in Exchanges : job'[y] = "returned" => outcome'[y] \in Results
               /\ \A y \in Exchanges : job'[y] = "running" => job[y] = "running"
    BY <1>1, <2>3 DEF Launch
  <2>4. CASE FinishJob(x) /\ stage[x] = "tool"
    <3>1. PICK r \in RunTool(session[x], plan[x]) : outcome' = [outcome EXCEPT ![x] = r]
      BY <2>4 DEF FinishJob
    <3>2. r \in Results
      BY RunFits
    <3>3. job' = [job EXCEPT ![x] = "returned"] /\ plan' = plan
      BY <2>4 DEF FinishJob
    <3> QED
      BY <1>1, <3>1, <3>2, <3>3
  <2>5. CASE FinishJob(x) /\ stage[x] # "tool"
    <3>1. job' = [job EXCEPT ![x] = "none"] /\ plan' = [plan EXCEPT ![x] = NoPlan] /\ outcome' = outcome
      BY <2>5 DEF FinishJob
    <3> QED
      BY <1>1, <1>2, <3>1
  <2> QED
    BY <2>1, <2>2, <2>3, <2>4, <2>5
<1>4. IsFiniteSet(Running') /\ Cardinality(Running') <= Workers
  BY <1>3, FewerRun
<1> QED
  BY <1>3, <1>4 DEF PoolForm, PoolFit, PlanFits

-----------------------------------------------------------------------------
(* The rows of every exchange after a step                                 *)

\* What the rows of the exchanges are after a step, from those of each exchange.
LEMMA RowsNext ==
    ASSUME \A y \in Exchanges :
              /\ stage'[y] = "new" => prompt'[y] = "none" /\ \A t \in Sessions : Own(log'[t], y) = {}
              /\ stage'[y] \in {"plan", "tool", "answer"} => Opened(log'[session'[y]], y)
              /\ stage'[y] \in {"plan", "tool"} =>
                    prompt'[y] = "none" /\ ToolRows(log'[session'[y]], y) = {}
              /\ stage'[y] = "answer" => Told(log'[session'[y]], y, prompt'[y])
    PROVE  RowsFit'
BY DEF RowsFit, UnderWay, Opened, Told, ToolRows, Own

\* A step that stores no row.
LEMMA RowsStay ==
    ASSUME TypeOK, RowsFit, NEW x \in Exchanges, UNCHANGED <<log, prompt>>,
           \/ UNCHANGED <<stage, session>>
           \/ /\ stage[x] = "plan" /\ session' = session
              /\ \E to \in {"tool", "answer"} : stage' = [stage EXCEPT ![x] = to]
           \/ /\ stage' = [stage EXCEPT ![x] = "failed"]
              /\ \E s \in Sessions : session' = [session EXCEPT ![x] = s]
    PROVE  RowsFit'
<1> SUFFICES ASSUME NEW y \in Exchanges
             PROVE  /\ stage'[y] = "new" => prompt'[y] = "none" /\ \A t \in Sessions : Own(log'[t], y) = {}
                    /\ stage'[y] \in {"plan", "tool", "answer"} => Opened(log'[session'[y]], y)
                    /\ stage'[y] \in {"plan", "tool"} =>
                          prompt'[y] = "none" /\ ToolRows(log'[session'[y]], y) = {}
                    /\ stage'[y] = "answer" => Told(log'[session'[y]], y, prompt'[y])
  BY RowsNext
<1>1. /\ stage[y] = "new" => prompt[y] = "none" /\ \A t \in Sessions : Own(log[t], y) = {}
      /\ UnderWay(y) => Opened(log[session[y]], y)
      /\ stage[y] \in {"plan", "tool"} => prompt[y] = "none" /\ ToolRows(log[session[y]], y) = {}
      /\ stage[y] = "answer" => Told(log[session[y]], y, prompt[y])
  BY DEF RowsFit
<1>2. /\ stage \in [Exchanges -> {"new", "plan", "tool", "answer", "done", "failed"}]
      /\ session \in [Exchanges -> Sessions]
  BY DEF TypeOK
<1>3. CASE y # x
  <2>1. stage'[y] = stage[y] /\ session'[y] = session[y]
    BY <1>2, <1>3
  <2> QED
    BY <1>1, <2>1 DEF UnderWay
<1>4. CASE y = x
  <2>1. CASE UNCHANGED <<stage, session>>
    BY <1>1, <2>1 DEF UnderWay
  <2>2. ASSUME stage[x] = "plan", session' = session, NEW to \in {"tool", "answer"},
               stage' = [stage EXCEPT ![x] = to]
        PROVE  /\ stage'[y] \in {"tool", "answer"} /\ stage[y] = "plan" /\ session'[y] = session[y]
    BY <1>2, <1>4, <2>2
  <2>3. ASSUME stage[x] = "plan", stage'[y] \in {"tool", "answer"}, session'[y] = session[y]
        PROVE  /\ stage'[y] # "new"
               /\ Opened(log'[session'[y]], y)
               /\ prompt'[y] = "none" /\ ToolRows(log'[session'[y]], y) = {}
               /\ Told(log'[session'[y]], y, prompt'[y])
    BY <1>1, <1>4, <2>3 DEF UnderWay, Told
  <2>4. CASE stage' = [stage EXCEPT ![x] = "failed"]
    <3>1. stage'[y] = "failed"
      BY <1>2, <1>4, <2>4
    <3> QED
      BY <3>1
  <2> QED
    BY <2>1, <2>2, <2>3, <2>4
<1> QED
  BY <1>3, <1>4

\* A question is stored first.
LEMMA QuestionStored ==
    ASSUME TypeOK, RowsFit, NEW x \in Exchanges, NEW s \in Sessions, NEW m,
           NEW to \in {"plan", "tool", "answer"}, StoreQuestion(x, s, m, to)
    PROVE  RowsFit' /\ log' \in [Sessions -> Seq(RowSet)]
<1> DEFINE q == log[s]
           r == Row(x, "user", "none")
           e == <<r>>
<1>1. /\ q \in Seq(RowSet) /\ r \in RowSet /\ r.ex = x
  BY DEF TypeOK, RowSet, Row, Roles, Replies
<1>2. /\ stage[x] = "new" /\ stage' = [stage EXCEPT ![x] = to]
      /\ session' = [session EXCEPT ![x] = s] /\ UNCHANGED prompt
      /\ log' = [log EXCEPT ![s] = Append(log[s], r)]
  BY DEF StoreQuestion, Come
<1>3. Own(q, x) = {} /\ prompt[x] = "none"
  BY <1>2 DEF RowsFit
<1>4. Opened(q \o e, x) /\ ToolRows(q \o e, x) = {}
  <2> HIDE DEF q
  <2> QED
    BY <1>1, <1>3, QuestionOpens
<1>5. Told(q \o e, x, "none")
  BY <1>4 DEF Told
<1> HIDE DEF q, r
<1>6. e \in Seq(RowSet) /\ (\A i \in 1..Len(e) : e[i].ex = x) /\ Append(q, r) = q \o e
  BY <1>1
<1>7. log' = [log EXCEPT ![s] = q \o e]
  BY <1>2, <1>6 DEF q
<1>8. q = log[s]
  BY DEF q
<1> HIDE DEF e
<1>9. /\ to # "new" /\ \A y \in Exchanges \ {x} : prompt'[y] = prompt[y]
      /\ to \in {"plan", "tool", "answer"} => Opened(q \o e, x)
      /\ to \in {"plan", "tool"} => prompt'[x] = "none" /\ ToolRows(q \o e, x) = {}
      /\ to = "answer" => Told(q \o e, x, prompt'[x])
      /\ q = log[s] \/ (q = <<>> /\ Idle(s))
  BY <1>2, <1>3, <1>4, <1>5, <1>8
<1> QED
  BY <1>1, <1>2, <1>6, <1>7, <1>9, RowsStep

\* A row of an exchange.
LEMMA RowFits ==
    ASSUME NEW x \in Exchanges, NEW role \in Roles, NEW says \in Results \cup Replies \cup Texts
    PROVE  Row(x, role, says) \in RowSet /\ Row(x, role, says).ex = x
BY DEF RowSet, Row

\* Up to two rows of an exchange.
LEMMA FewRows ==
    ASSUME NEW x, NEW r \in RowSet, NEW t \in RowSet, r.ex = x, t.ex = x
    PROVE  \A e \in {<<>>, <<r>>, <<t>>, <<r, t>>} : e \in Seq(RowSet) /\ \A i \in 1..Len(e) : e[i].ex = x
<1> SUFFICES ASSUME NEW e \in {<<>>, <<r>>, <<t>>, <<r, t>>}
             PROVE  e \in Seq(RowSet) /\ \A i \in 1..Len(e) : e[i].ex = x
  OBVIOUS
<1>3. CASE e = <<>>
  BY <1>3
<1>4. CASE e = <<r>>
  BY <1>4
<1>5. CASE e = <<t>>
  BY <1>5
<1>6. CASE e = <<r, t>>
  <2>1. e \in Seq(RowSet) /\ Len(e) = 2 /\ e[1] = r /\ e[2] = t
    BY <1>6
  <2>2. \A i \in 1..2 : i = 1 \/ i = 2
    OBVIOUS
  <2> QED
    BY <2>1, <2>2
<1> QED
  BY <1>3, <1>4, <1>5, <1>6

\* An exchange ends with rows of its own.
LEMMA RowsEnd ==
    ASSUME TypeOK, RowsFit, NEW x \in Exchanges, NEW s \in Sessions, NEW q \in Seq(RowSet),
           NEW e \in Seq(RowSet), \A i \in 1..Len(e) : e[i].ex = x,
           log' = [log EXCEPT ![s] = q \o e], q = log[s] \/ (q = <<>> /\ Idle(s)),
           NEW to \in {"done", "failed"}, stage' = [stage EXCEPT ![x] = to],
           session' = [session EXCEPT ![x] = s],
           \A y \in Exchanges \ {x} : prompt'[y] = prompt[y]
    PROVE  RowsFit' /\ log' \in [Sessions -> Seq(RowSet)]
<1>1. /\ to # "new"
      /\ to \in {"plan", "tool", "answer"} => Opened(q \o e, x)
      /\ to \in {"plan", "tool"} => prompt'[x] = "none" /\ ToolRows(q \o e, x) = {}
      /\ to = "answer" => Told(q \o e, x, prompt'[x])
  OBVIOUS
<1> QED
  BY <1>1, RowsStep

\* The answers that need no model, and the writes that fail before the first await.
LEMMA AnswerRows ==
    ASSUME TypeOK, RowsFit, NEW x \in Exchanges, NEW s \in Sessions, NEW m,
           Answer(x, s, m) \/ BeginFails(x, s, m)
    PROVE  RowsFit' /\ log' \in [Sessions -> Seq(RowSet)]
<1> DEFINE q == RowsBefore(log[s], m)
           u == Row(x, "user", "none")
           a == Row(x, "assistant", OwnAnswer(m))
<1>1. /\ log \in [Sessions -> Seq(RowSet)] /\ log[s] \in Seq(RowSet)
  BY DEF TypeOK, RowSet
<1>2. q = log[s] \/ q = <<>>
  BY DEF RowsBefore, ForgetRows
<1>3. Idle(s) /\ session' = [session EXCEPT ![x] = s]
  BY DEF Answer, BeginFails, Come
<1>4. OwnAnswer(m) \in Replies
  BY DEF OwnAnswer, Replies
<1>5. prompt' = prompt
  BY DEF Answer, BeginFails
<1>6. q \in Seq(RowSet)
  <2>1. <<>> \in Seq(RowSet)
    OBVIOUS
  <2> HIDE DEF q
  <2> QED
    BY <1>1, <1>2, <2>1
<1>7. \A e \in {<<>>, <<u>>, <<u, a>>} : e \in Seq(RowSet) /\ \A i \in 1..Len(e) : e[i].ex = x
  <2>1. "user" \in Roles /\ "assistant" \in Roles /\ "none" \in Replies
    BY DEF Roles, Replies
  <2>2. u \in RowSet /\ a \in RowSet /\ u.ex = x /\ a.ex = x
    BY <1>4, <2>1, RowFits
  <2> HIDE DEF u, a
  <2>3. \A e \in {<<>>, <<u>>, <<a>>, <<u, a>>} : e \in Seq(RowSet) /\ \A i \in 1..Len(e) : e[i].ex = x
    BY <2>2, FewRows, Zenon
  <2> QED
    BY <2>3, Zenon
<1>8. CASE Answer(x, s, m)
  <2>1. stage' = [stage EXCEPT ![x] = "done"] /\ log' = [log EXCEPT ![s] = q \o <<u, a>>]
    BY <1>8 DEF Answer, Come
  <2> HIDE DEF q, u, a
  <2>2. <<u, a>> \in Seq(RowSet) /\ \A i \in 1..Len(<<u, a>>) : <<u, a>>[i].ex = x
    BY <1>7
  <2> DEFINE e == <<u, a>>
  <2>3. e \in Seq(RowSet) /\ (\A i \in 1..Len(e) : e[i].ex = x) /\ log' = [log EXCEPT ![s] = q \o e]
    BY <2>1, <2>2
  <2> HIDE DEF e
  <2> QED
    BY <1>2, <1>3, <1>5, <1>6, <2>1, <2>3, RowsEnd
<1>9. CASE BeginFails(x, s, m)
  <2>1. stage' = [stage EXCEPT ![x] = "failed"]
    BY <1>9 DEF BeginFails, Come
  <2>2. CASE UNCHANGED log
    BY <1>1, <1>3, <1>5, <2>1, <2>2, RowsStay
  <2>3. ASSUME NEW e \in {<<>>, <<u>>, <<u, a>>}, log' = [log EXCEPT ![s] = q \o e]
        PROVE  RowsFit' /\ log' \in [Sessions -> Seq(RowSet)]
    <3> HIDE DEF q, u, a
    <3>1. e \in Seq(RowSet) /\ \A i \in 1..Len(e) : e[i].ex = x
      BY <1>7, <2>3
    <3> QED
      BY <1>2, <1>3, <1>5, <1>6, <2>1, <2>3, <3>1, RowsEnd
  <2>4. CASE log' = [log EXCEPT ![s] = q]
    <3>1. q \o <<>> = q
      <4> HIDE DEF q
      <4> QED
        BY <1>6
    <3>2. log' = [log EXCEPT ![s] = q \o <<>>]
      BY <2>4, <3>1
    <3> HIDE DEF q, u, a
    <3> QED
      BY <2>3, <3>2
  <2>5. ASSUME NEW e \in FirstRows(x, m), log' = [log EXCEPT ![s] = q \o e]
        PROVE  RowsFit' /\ log' \in [Sessions -> Seq(RowSet)]
    <3>1. e \in {<<>>, <<u>>, <<u, a>>}
      BY <2>5, Zenon DEF FirstRows
    <3> HIDE DEF q, u, a
    <3> QED
      BY <2>3, <2>5, <3>1
  <2>6. \/ UNCHANGED log
        \/ log' = [log EXCEPT ![s] = q]
        \/ \E e \in FirstRows(x, m) : log' = [log EXCEPT ![s] = q \o e]
    BY <1>9, Zenon DEF BeginFails
  <2> QED
    BY <2>2, <2>4, <2>5, <2>6
<1> QED
  BY <1>8, <1>9

\* The tool's row, or the failure to store it.
LEMMA ReportRows ==
    ASSUME TypeOK, RowsFit, NEW x \in Exchanges, stage[x] = "tool", NEW r \in Results, session' = session,
           NEW b \in {<<>>} \cup {<<Row(x, "tool", t)>> : t \in Results}, Report(x, b, r)
    PROVE  RowsFit' /\ log' \in [Sessions -> Seq(RowSet)]
<1> DEFINE s == session[x]
           q == log[s]
           t == Row(x, "tool", r)
           e == b \o <<t>>
<1>1. /\ log \in [Sessions -> Seq(RowSet)] /\ session \in [Exchanges -> Sessions] /\ s \in Sessions
      /\ q \in Seq(RowSet) /\ prompt \in [Exchanges -> Results \cup {"none"}]
  BY DEF TypeOK, RowSet
<1>2. Opened(q, x)
  BY DEF RowsFit, UnderWay
<1>3. b \in Seq(RowSet) /\ (\A i \in 1..Len(b) : b[i].ex = x) /\ Opened(q \o b, x)
  <2>1. CASE b = <<>>
    <3> HIDE DEF q
    <3> QED
      BY <1>1, <1>2, <2>1
  <2>2. ASSUME NEW v \in Results, b = <<Row(x, "tool", v)>>
        PROVE  b \in Seq(RowSet) /\ (\A i \in 1..Len(b) : b[i].ex = x) /\ Opened(q \o b, x)
    <3>1. b \in Seq(RowSet) /\ \A i \in 1..Len(b) : b[i].ex = x
      <4> DEFINE w == Row(x, "tool", v)
      <4>1. w \in RowSet /\ w.ex = x /\ b = <<w>>
        BY <2>2, RowFits DEF Roles
      <4> HIDE DEF w
      <4> QED
        BY <4>1, FewRows
    <3> HIDE DEF q
    <3> QED
      BY <1>1, <1>2, <2>2, <3>1, ToolRowTells
  <2> QED
    BY <2>1, <2>2
<1>4. t \in RowSet /\ t.ex = x
  BY DEF RowSet, Row, Roles
<1>5. /\ log' = [log EXCEPT ![s] = (q \o b) \o <<t>>]
      /\ prompt' = [prompt EXCEPT ![x] = r] /\ stage' = [stage EXCEPT ![x] = "answer"]
  BY DEF Report
<1>6. q \o b \in Seq(RowSet) /\ (q \o b) \o <<t>> = q \o e
      /\ e \in Seq(RowSet) /\ \A i \in 1..Len(e) : e[i].ex = x
  <2> HIDE DEF q, t
  <2>1. q \o b \in Seq(RowSet) /\ e \in Seq(RowSet) /\ (q \o b) \o <<t>> = q \o e
    BY <1>1, <1>3, <1>4
  <2>2. Len(b) \in Nat /\ Len(e) = Len(b) + 1 /\ (\A i \in 1..Len(b) : e[i] = b[i]) /\ e[Len(b) + 1] = t
    BY <1>3, <1>4, OneMore
  <2>3. \A i \in 1..(Len(b) + 1) : i \in 1..Len(b) \/ i = Len(b) + 1
    BY <2>2
  <2> QED
    BY <1>3, <1>4, <2>1, <2>2, <2>3
<1>7. Opened(q \o e, x) /\ Told(q \o e, x, r)
  <2> DEFINE c == q \o b
  <2>1. c \in Seq(RowSet) /\ Opened(c, x)
    BY <1>3, <1>6
  <2> HIDE DEF c
  <2>2. Opened(c \o <<t>>, x) /\ Told(c \o <<t>>, x, r)
    BY <2>1, ToolRowTells
  <2>3. c \o <<t>> = q \o e
    BY <1>6 DEF c
  <2> HIDE DEF q, e, t
  <2> QED
    BY <2>2, <2>3
<1>8. /\ session' = [session EXCEPT ![x] = s] /\ log' = [log EXCEPT ![s] = q \o e]
      /\ prompt'[x] = r /\ \A y \in Exchanges \ {x} : prompt'[y] = prompt[y]
  BY <1>1, <1>5, <1>6
<1>9. q = log[s] /\ "answer" # "new"
  OBVIOUS
<1> HIDE DEF q, e, t, s
<1>10. /\ "answer" \in {"plan", "tool", "answer"} => Opened(q \o e, x)
       /\ "answer" \in {"plan", "tool"} => prompt'[x] = "none" /\ ToolRows(q \o e, x) = {}
       /\ "answer" = "answer" => Told(q \o e, x, prompt'[x])
  BY <1>7, <1>8
<1> QED
  BY <1>1, <1>5, <1>6, <1>8, <1>9, <1>10, RowsStep

\* The row of the tool is lost, or the model's answer is stored or lost.
LEMMA EndRows ==
    ASSUME TypeOK, RowsFit, NEW x \in Exchanges, session' = session, NEW s, s = session[x],
           NEW a \in {"tool", "assistant"}, NEW u \in Results \cup Replies \cup Texts,
           NEW e \in {<<>>, <<Row(x, a, u)>>, <<Row(x, "tool", "unavailable")>>,
                      <<Row(x, a, u), Row(x, "tool", "unavailable")>>},
           log' = [log EXCEPT ![s] = log[s] \o e],
           NEW to \in {"done", "failed"}, stage' = [stage EXCEPT ![x] = to],
           \A y \in Exchanges \ {x} : prompt'[y] = prompt[y]
    PROVE  RowsFit' /\ log' \in [Sessions -> Seq(RowSet)]
<1> DEFINE q == log[s]
           r == Row(x, a, u)
           t == Row(x, "tool", "unavailable")
<1>1. /\ s \in Sessions /\ q \in Seq(RowSet) /\ session' = [session EXCEPT ![x] = s]
  BY DEF TypeOK, RowSet
<1>2. r \in RowSet /\ t \in RowSet /\ r.ex = x /\ t.ex = x
  BY RowFits DEF Roles, Results, Refusals
<1>3. e \in {<<>>, <<r>>, <<t>>, <<r, t>>} /\ log' = [log EXCEPT ![s] = q \o e] /\ q = log[s]
  OBVIOUS
<1> HIDE DEF q, r, t
<1>4. \A d \in {<<>>, <<r>>, <<t>>, <<r, t>>} : d \in Seq(RowSet) /\ \A i \in 1..Len(d) : d[i].ex = x
  BY <1>2, FewRows, Zenon
<1>5. e \in Seq(RowSet) /\ \A i \in 1..Len(e) : e[i].ex = x
  BY <1>3, <1>4, Zenon
<1> QED
  BY <1>1, <1>3, <1>5, RowsEnd

\* What ends a wait is a result.
LEMMA EndFits ==
    ASSUME PoolFit, NEW x \in Exchanges, NEW r, ToolEnds(x, r)
    PROVE  /\ r \in Results
           /\ UNCHANGED <<plan, job, outcome>> \/ DropJob(x)
BY DEF PoolFit, ToolEnds, Returned, TimedOut, Results

-----------------------------------------------------------------------------
(* Types and rows in every step                                            *)

\* The initial states.
LEMMA StoredInit == Init => Stored
<1> SUFFICES ASSUME Init PROVE Stored
  OBVIOUS
<1>1. Running = {} /\ IsFiniteSet(Running) /\ Cardinality(Running) = 0
  <2>1. Running = {}
    BY DEF Init, NoExchange, Running
  <2> QED
    BY <2>1, FS_EmptySet
<1>2. (CHOOSE s \in Sessions : TRUE) \in Sessions
  BY SessionsAssumption
<1>3. FormFits
  BY <1>2, BoundsAssumption DEF Init, FormFits, NoExchange, Replies
<1>4. PoolForm
  BY <1>1, BoundsAssumption DEF Init, PoolForm, PoolFit, PlanFits, NoExchange
<1>5. log \in [Sessions -> Seq(RowSet)]
  BY DEF Init
<1>6. RowsFit
  BY DEF Init, RowsFit, UnderWay, NoExchange, Own
<1> QED
  BY <1>3, <1>4, <1>5, <1>6, Parts DEF Stored

\* The parts of the types after a step.
LEMMA PartsNext ==
    FormFits' /\ PoolForm' /\ RowsFit' /\ log' \in [Sessions -> Seq(RowSet)] => Stored'
BY DEF Stored, TypeOK, FormFits, PoolForm, PlanFits, RowSet, Running

\* The start of ask.
LEMMA BeginStores ==
    ASSUME Total, Stored, NEW x \in Exchanges, NEW s \in Sessions, NEW m \in Messages, Begin(x, s, m)
    PROVE  Stored'
<1>1. TypeOK /\ PoolFit /\ RowsFit
  BY DEF Stored
<1>2. facts[s] \in SUBSET Facts
  BY <1>1 DEF TypeOK
<1>3. /\ \A keys \in SUBSET Remembered(m) : Remember(facts[s], m, keys) \in SUBSET Facts
      /\ RememberFromMessage(facts[s], m) \in SUBSET Facts /\ FactsBefore(facts[s], m) \in SUBSET Facts
  BY <1>2, FactsFit
<1>4. OwnAnswer(m) \in Replies
  BY DEF OwnAnswer, Replies
<1>5. FormFits'
  <2>1. /\ policy' = policy /\ session' = [session EXCEPT ![x] = s]
        /\ \E to \in {"plan", "tool", "answer", "done", "failed"} : stage' = [stage EXCEPT ![x] = to]
    BY DEF Begin, Refuse, Answer, BeginFails, AskTool, AskPlanner, AskModel, StoreQuestion, Come
  <2>2. \/ \E keys \in SUBSET Remembered(m) : facts' = [facts EXCEPT ![s] = Remember(facts[s], m, keys)]
        \/ facts' \in {facts, [facts EXCEPT ![s] = RememberFromMessage(facts[s], m)],
                              [facts EXCEPT ![s] = FactsBefore(facts[s], m)]}
    BY DEF Begin, Refuse, Answer, BeginFails, AskTool, AskPlanner, AskModel, StoreQuestion, memoryVars
  <2>3. facts' \in [Sessions -> SUBSET Facts]
    <3>1. \A fs \in SUBSET Facts : [facts EXCEPT ![s] = fs] \in [Sessions -> SUBSET Facts]
      BY <1>1 DEF TypeOK
    <3>2. \E fs \in SUBSET Facts : facts' = facts \/ facts' = [facts EXCEPT ![s] = fs]
      <4>1. ASSUME NEW keys \in SUBSET Remembered(m),
                   facts' = [facts EXCEPT ![s] = Remember(facts[s], m, keys)]
            PROVE  \E fs \in SUBSET Facts : facts' = [facts EXCEPT ![s] = fs]
        BY <1>3, <4>1, Zenon
      <4>2. facts' = [facts EXCEPT ![s] = RememberFromMessage(facts[s], m)] =>
               \E fs \in SUBSET Facts : facts' = [facts EXCEPT ![s] = fs]
        BY <1>3, Zenon
      <4>3. facts' = [facts EXCEPT ![s] = FactsBefore(facts[s], m)] =>
               \E fs \in SUBSET Facts : facts' = [facts EXCEPT ![s] = fs]
        BY <1>3, Zenon
      <4> QED
        BY <1>2, <2>2, <4>1, <4>2, <4>3, Zenon
    <3> HIDE DEF Facts
    <3> QED
      BY <1>1, <3>1, <3>2, Zenon DEF TypeOK
  <2>4. /\ prompt' = prompt /\ reply' \in {reply, [reply EXCEPT ![x] = OwnAnswer(m)]}
        /\ faults' = faults \/ (faults < MaxFaults /\ faults' = faults + 1)
    BY DEF Begin, Refuse, Answer, BeginFails, AskTool, AskPlanner, AskModel, StoreQuestion, memoryVars
  <2>5. faults' \in 0..MaxFaults
    BY <1>1, <2>4, BoundsAssumption DEF TypeOK
  <2>6. reply' \in [Exchanges -> Replies]
    BY <1>1, <1>4, <2>4 DEF TypeOK
  <2>7. /\ stage' \in [Exchanges -> {"new", "plan", "tool", "answer", "done", "failed"}]
        /\ session' \in [Exchanges -> Sessions]
    BY <1>1, <2>1 DEF TypeOK
  <2> QED
    BY <1>1, <2>1, <2>3, <2>4, <2>5, <2>6, <2>7 DEF TypeOK, FormFits
<1>6. PoolForm'
  <2>1. UNCHANGED <<plan, job, outcome>> \/ Launch(x, FastPlan(m))
    BY DEF Begin, Refuse, Answer, BeginFails, AskTool, AskPlanner, AskModel, poolVars
  <2> QED
    BY <1>1, <2>1, FastFits, PoolStep
<1>7. RowsFit' /\ log' \in [Sessions -> Seq(RowSet)]
  <2>1. CASE Refuse(x, s, m)
    <3>1. UNCHANGED <<log, prompt>> /\ stage' = [stage EXCEPT ![x] = "failed"]
          /\ session' = [session EXCEPT ![x] = s]
      BY <2>1 DEF Refuse, Come, memoryVars
    <3> QED
      BY <1>1, <3>1, RowsStay DEF TypeOK, RowSet
  <2>2. CASE Answer(x, s, m) \/ BeginFails(x, s, m)
    BY <1>1, <2>2, AnswerRows
  <2>3. ASSUME NEW to \in {"plan", "tool", "answer"}, StoreQuestion(x, s, m, to)
        PROVE  RowsFit' /\ log' \in [Sessions -> Seq(RowSet)]
    BY <1>1, <2>3, QuestionStored
  <2> QED
    BY <2>1, <2>2, <2>3 DEF Begin, AskTool, AskPlanner, AskModel
<1> QED
  BY <1>5, <1>6, <1>7, PartsNext

\* The planner's reply.
LEMMA PlannerStores ==
    ASSUME Total, Stored, NEW x \in Exchanges, stage[x] = "plan",
           NEW p \in PlannerChoices(session[x]), PlannerChooses(x, p)
    PROVE  Stored'
<1>1. TypeOK /\ PoolFit /\ RowsFit
  BY DEF Stored
<1>2. /\ UNCHANGED <<policy, session, facts, log, faults, prompt, reply>>
      /\ \E to \in {"tool", "answer"} : stage' = [stage EXCEPT ![x] = to]
      /\ UNCHANGED <<plan, job, outcome>> \/ Launch(x, p)
  BY DEF PlannerChooses, memoryVars, poolVars
<1>3. FormFits'
  BY <1>1, <1>2 DEF TypeOK, FormFits
<1>4. PoolForm'
  BY <1>1, <1>2, PlannerFits, PoolStep
<1>5. RowsFit'
  BY <1>1, <1>2, RowsStay
<1> QED
  BY <1>1, <1>2, <1>3, <1>4, <1>5, PartsNext DEF TypeOK, RowSet

\* The end of the wait for a tool.
LEMMA ToolStores ==
    ASSUME Total, Stored, NEW x \in Exchanges, stage[x] = "tool", NEW r,
           ToolDone(x, r) \/ ToolRowFails(x, r) \/ ToolRowLost(x, r)
    PROVE  Stored'
<1>1. TypeOK /\ PoolFit /\ RowsFit
  BY DEF Stored
<1>2. /\ UNCHANGED <<policy, session, facts, reply>> /\ ToolEnds(x, r)
      /\ faults' = faults \/ (faults < MaxFaults /\ faults' = faults + 1)
  BY DEF ToolDone, ToolRowFails, ToolRowLost
<1>3. r \in Results /\ (UNCHANGED <<plan, job, outcome>> \/ DropJob(x))
  BY <1>1, <1>2, EndFits
<1>4. PoolForm'
  BY <1>1, <1>3, PoolStep
<1>5. \/ \E b \in {<<>>, <<Row(x, "tool", r)>>}, t \in {r, "unavailable"} : Report(x, b, t)
      \/ ToolRowLost(x, r)
  BY DEF ToolDone, ToolRowFails
<1>6. FormFits'
  <2>1. \/ prompt' = prompt
        \/ \E t \in {r, "unavailable"} : prompt' = [prompt EXCEPT ![x] = t]
    BY <1>5 DEF Report, ToolRowLost
  <2>2. \E to \in {"answer", "failed"} : stage' = [stage EXCEPT ![x] = to]
    BY <1>5 DEF Report, ToolRowLost
  <2>3. "unavailable" \in Results
    BY DEF Results
  <2>4. prompt' \in [Exchanges -> Results \cup {"none"}]
    <3>1. prompt \in [Exchanges -> Results \cup {"none"}] /\ {r, "unavailable"} \subseteq Results
      BY <1>1, <1>3, <2>3 DEF TypeOK
    <3> QED
      BY <2>1, <3>1
  <2>5. faults' \in 0..MaxFaults
    BY <1>1, <1>2, BoundsAssumption DEF TypeOK
  <2> QED
    BY <1>1, <1>2, <2>2, <2>4, <2>5 DEF TypeOK, FormFits
<1>7. RowsFit' /\ log' \in [Sessions -> Seq(RowSet)]
  <2>1. ASSUME NEW b \in {<<>>, <<Row(x, "tool", r)>>}, NEW t \in {r, "unavailable"}, Report(x, b, t)
        PROVE  RowsFit' /\ log' \in [Sessions -> Seq(RowSet)]
    <3>1. t \in Results
      BY <1>3 DEF Results
    <3>2. b \in {<<>>} \cup {<<Row(x, "tool", v)>> : v \in Results}
      BY <1>3, <2>1
    <3> QED
      BY <1>1, <1>2, <2>1, <3>1, <3>2, ReportRows
  <2>2. CASE ToolRowLost(x, r)
    <3>1. PICK e \in {<<>>, <<Row(x, "tool", r)>>, <<Row(x, "tool", "unavailable")>>,
                      <<Row(x, "tool", r), Row(x, "tool", "unavailable")>>} :
            log' = [log EXCEPT ![session[x]] = log[session[x]] \o e]
      BY <2>2 DEF ToolRowLost
    <3>2. stage' = [stage EXCEPT ![x] = "failed"] /\ prompt' = prompt
      BY <2>2 DEF ToolRowLost
    <3> QED
      BY <1>1, <1>2, <1>3, <3>1, <3>2, EndRows
  <2> QED
    BY <1>5, <2>1, <2>2
<1> QED
  BY <1>4, <1>6, <1>7, PartsNext

\* The model's answer.
LEMMA ModelStores ==
    ASSUME Total, Stored, NEW x \in Exchanges, NEW says \in ModelSays,
           ModelAnswers(x, says) \/ AnswerLost(x, says)
    PROVE  Stored'
<1>1. TypeOK /\ PoolFit /\ RowsFit
  BY DEF Stored
<1>2. says \in Replies \cup Texts /\ Shown(says) \in Replies
  BY SaysFits
<1>3. /\ UNCHANGED <<policy, session, facts, plan, job, outcome>>
      /\ prompt' = [prompt EXCEPT ![x] = "none"]
      /\ reply' \in {reply, [reply EXCEPT ![x] = Shown(says)]}
      /\ faults' = faults \/ (faults < MaxFaults /\ faults' = faults + 1)
      /\ \E to \in {"done", "failed"} : stage' = [stage EXCEPT ![x] = to]
  BY DEF ModelAnswers, AnswerLost, poolVars
<1>4. FormFits'
  <2>1. faults' \in 0..MaxFaults
    BY <1>1, <1>3, BoundsAssumption DEF TypeOK
  <2>2. reply' \in [Exchanges -> Replies]
    BY <1>1, <1>2, <1>3 DEF TypeOK
  <2> QED
    BY <1>1, <1>3, <2>1, <2>2 DEF TypeOK, FormFits
<1>5. PoolForm'
  BY <1>1, <1>3, PoolStep
<1>6. RowsFit' /\ log' \in [Sessions -> Seq(RowSet)]
  <2>1. PICK e \in {<<>>, <<Row(x, "assistant", says)>>} :
          log' = [log EXCEPT ![session[x]] = log[session[x]] \o e]
    <3> DEFINE q == log[session[x]]
               t == Row(x, "assistant", says)
    <3>1. q \in Seq(RowSet) /\ t \in RowSet
      BY <1>1, <1>2, RowFits DEF TypeOK, RowSet, Roles
    <3>2. Append(q, t) = q \o <<t>>
      <4> HIDE DEF q, t
      <4> QED
        BY <3>1
    <3> QED
      BY <3>2 DEF ModelAnswers, AnswerLost
  <2>2. e \in {<<>>, <<Row(x, "assistant", says)>>, <<Row(x, "tool", "unavailable")>>,
               <<Row(x, "assistant", says), Row(x, "tool", "unavailable")>>}
    BY <2>1
  <2>3. prompt \in [Exchanges -> Results \cup {"none"}]
    BY <1>1 DEF TypeOK
  <2>4. \A y \in Exchanges \ {x} : prompt'[y] = prompt[y]
    BY <1>3, <2>3
  <2>5. PICK to \in {"done", "failed"} : stage' = [stage EXCEPT ![x] = to]
    BY <1>3
  <2> QED
    BY <1>1, <1>2, <1>3, <2>1, <2>2, <2>4, <2>5, EndRows
<1> QED
  BY <1>4, <1>5, <1>6, PartsNext

\* The threads of the pool.
LEMMA PoolStores ==
    ASSUME Total, Stored, NEW x \in Exchanges, StartJob(x) \/ FinishJob(x)
    PROVE  Stored'
<1>1. TypeOK /\ PoolFit /\ RowsFit
  BY DEF Stored
<1>2. UNCHANGED <<policy, stage, session, facts, log, faults, prompt, reply>>
  BY DEF StartJob, FinishJob, memoryVars
<1>3. FormFits'
  BY <1>1, <1>2 DEF TypeOK, FormFits
<1>4. PoolForm'
  <2>1. CASE StartJob(x)
    <3>1. IsFiniteSet(Running') /\ Cardinality(Running') <= Workers
      BY <1>1, <2>1, OneMoreRuns
    <3>2. plan' = plan /\ outcome' = outcome /\ job' = [job EXCEPT ![x] = "running"]
      BY <2>1 DEF StartJob
    <3> QED
      BY <1>1, <3>1, <3>2 DEF TypeOK, PoolForm, PoolFit, PlanFits
  <2>2. CASE FinishJob(x)
    BY <1>1, <2>2, PoolStep
  <2> QED
    BY <2>1, <2>2
<1>5. RowsFit'
  BY <1>1, <1>2, RowsStay
<1> QED
  BY <1>1, <1>2, <1>3, <1>4, <1>5, PartsNext DEF TypeOK, RowSet

\* Every step, and a step of nothing.
LEMMA NextStores == IInv /\ Stored /\ [Next]_vars => Stored'
<1> SUFFICES ASSUME Total, Stored, [Next]_vars PROVE Stored'
  BY DEF IInv
<1>1. CASE Next
  <2>1. PICK x \in Exchanges :
          \/ \E s \in Sessions, m \in Messages : Begin(x, s, m)
          \/ Proceed(x) \/ StartJob(x) \/ FinishJob(x)
    BY <1>1 DEF Next
  <2>2. CASE \E s \in Sessions, m \in Messages : Begin(x, s, m)
    BY <2>2, BeginStores
  <2>3. CASE Proceed(x)
    BY <2>3, PlannerStores, ToolStores, ModelStores DEF Proceed
  <2>4. CASE StartJob(x) \/ FinishJob(x)
    BY <2>4, PoolStores
  <2> QED
    BY <2>1, <2>2, <2>3, <2>4
<1>2. CASE UNCHANGED vars
  <2>1. TypeOK'
    BY <1>2 DEF vars, Stored, TypeOK
  <2>2. PoolFit'
    BY <1>2 DEF vars, Stored, PoolFit, Running
  <2>3. RowsFit'
    <3>1. CASE \E x \in Exchanges : TRUE
      BY <1>2, <3>1, RowsStay DEF vars, Stored
    <3>2. CASE ~\E x \in Exchanges : TRUE
      BY <3>2 DEF RowsFit
    <3> QED
      BY <3>1, <3>2
  <2> QED
    BY <2>1, <2>2, <2>3 DEF Stored
<1> QED
  BY <1>1, <1>2

\* In every reachable state the variables have their types, at most as many tools run as there
\* are threads, and the rows of an exchange under way are its question and then its tool's.
THEOREM RowsInvariance == Spec => []Stored
<1>1. Init => Stored
  BY StoredInit
<1>2. IInv /\ Stored /\ [Next]_vars => Stored'
  BY NextStores
<1> QED
  BY <1>1, <1>2, Invariance, PTL DEF Spec

\* What the model is told of a tool is what the last stored row of the tool says, whichever of
\* the tool, the timer and the database ends the wait.
THEOREM PromptIsExact == Spec => []PromptExact
<1>1. Stored => PromptExact
  BY DEF Stored, RowsFit, Told, PromptExact, PromptTellsRow
<1> QED
  BY <1>1, RowsInvariance, PTL

-----------------------------------------------------------------------------
(* What is promised of a step                                              *)

\* The question of the exchange comes first, the answer r last, rows of its tool between them.
Closed(rows, x, r) ==
    \E first, last \in Own(rows, x) :
        /\ rows[first].role = "user" /\ rows[last].role = "assistant" /\ rows[last] = r
        /\ first < last
        /\ \A i \in Own(rows, x) \ {first, last} : first < i /\ i < last /\ rows[i].role = "tool"

\* The model's answer behind the question and the tool's rows of its exchange.
LEMMA AnswerCloses ==
    ASSUME NEW q \in Seq(RowSet), NEW x, Opened(q, x), NEW r \in RowSet, r.ex = x, r.role = "assistant"
    PROVE  Closed(Append(q, r), x, r)
<1> DEFINE c == Append(q, r)
<1>1. c = q \o <<r>>
  OBVIOUS
<1> HIDE DEF c
<1>2. /\ Len(q) \in Nat /\ DOMAIN q = 1..Len(q) /\ DOMAIN c = 1..(Len(q) + 1)
      /\ \A i \in 1..Len(q) : c[i] = q[i]
      /\ c[Len(q) + 1] = r
  BY <1>1, OneMore
<1>3. \A i \in 1..(Len(q) + 1) : (i \in 1..Len(q) /\ i < Len(q) + 1) \/ i = Len(q) + 1
  BY <1>2
<1>4. Own(c, x) = Own(q, x) \cup {Len(q) + 1} /\ Own(q, x) \subseteq 1..Len(q)
  BY <1>2, <1>3 DEF Own
<1>5. PICK first \in Own(q, x) :
        /\ q[first].role = "user"
        /\ \A i \in Own(q, x) \ {first} : first < i /\ q[i].role = "tool"
  BY DEF Opened
<1> DEFINE last == Len(q) + 1
<1>6. first \in Own(c, x) /\ last \in Own(c, x) /\ first < last
  BY <1>2, <1>3, <1>4
<1>7. c[first].role = "user" /\ c[last].role = "assistant" /\ c[last] = r
  BY <1>2, <1>4, <1>5
<1>8. \A i \in Own(c, x) \ {first, last} : first < i /\ i < last /\ c[i].role = "tool"
  BY <1>2, <1>3, <1>4, <1>5
<1> HIDE DEF last
<1>9. Closed(c, x, r)
  <2> USE <1>6 DEF Closed
  <2> WITNESS first \in Own(c, x), last \in Own(c, x)
  <2> QED
    BY <1>7, <1>8
<1> QED
  BY <1>9 DEF c

\* Only the model's answer or one of the assistant's own ends an exchange well.
LEMMA DoneIsStored ==
    ASSUME IInv, Stored, [Next]_vars, NEW x \in Exchanges, stage[x] # "done", stage'[x] = "done"
    PROVE  \E first, last \in Own(log'[session'[x]], x) :
              /\ log'[session'[x]][first].role = "user"
              /\ log'[session'[x]][last].role = "assistant"
              /\ reply'[x] = Shown(log'[session'[x]][last].says)
              /\ first < last
              /\ \A i \in Own(log'[session'[x]], x) \ {first, last} :
                    first < i /\ i < last /\ log'[session'[x]][i].role = "tool"
<1>1. PICK y \in Exchanges : \/ \E s \in Sessions, m \in Messages : Begin(y, s, m)
                             \/ Proceed(y) \/ StartJob(y) \/ FinishJob(y)
  BY DEF Next, vars
<1>2. /\ stage \in [Exchanges -> {"new", "plan", "tool", "answer", "done", "failed"}]
      /\ session \in [Exchanges -> Sessions] /\ log \in [Sessions -> Seq(RowSet)]
      /\ reply \in [Exchanges -> Replies]
  BY DEF Stored, TypeOK, RowSet
<1>3. \/ \E s \in Sessions, m \in Messages : Answer(x, s, m)
      \/ stage[x] = "answer" /\ \E says \in ModelSays : ModelAnswers(x, says)
  <2>1. CASE \E s \in Sessions, m \in Messages : Begin(y, s, m)
    <3>1. PICK s \in Sessions, m \in Messages : Begin(y, s, m)
      BY <2>1
    <3>2. CASE Answer(y, s, m)
      <4>1. y = x
        BY <1>2, <3>2 DEF Answer, Come
      <4> QED
        BY <3>2, <4>1
    <3>3. CASE ~Answer(y, s, m)
      <4>1. \E to \in {"plan", "tool", "answer", "failed"} : stage' = [stage EXCEPT ![y] = to]
        BY <3>1, <3>3 DEF Begin, Refuse, BeginFails, AskTool, AskPlanner, AskModel, StoreQuestion, Come
      <4> QED
        BY <1>2, <4>1
    <3> QED
      BY <3>2, <3>3
  <2>2. CASE Proceed(y)
    BY <1>2, <2>2 DEF Proceed, PlannerChooses, ToolDone, ToolRowFails, ToolRowLost, Report,
                      ModelAnswers, AnswerLost
  <2>3. CASE StartJob(y) \/ FinishJob(y)
    BY <2>3 DEF StartJob, FinishJob
  <2> QED
    BY <1>1, <2>1, <2>2, <2>3
<1>4. ASSUME stage[x] = "answer", NEW says \in ModelSays, ModelAnswers(x, says)
      PROVE  \E q \in Seq(RowSet), r \in RowSet :
                /\ Opened(q, x) /\ r.ex = x /\ r.role = "assistant"
                /\ log'[session'[x]] = Append(q, r) /\ reply'[x] = Shown(r.says)
  <2> DEFINE q == log[session[x]]
             r == Row(x, "assistant", says)
  <2>1. q \in Seq(RowSet) /\ Opened(q, x)
    BY <1>2, <1>4 DEF Stored, RowsFit, UnderWay
  <2>2. r \in RowSet /\ r.ex = x /\ r.role = "assistant" /\ r.says = says
    BY SaysFits DEF RowSet, Row, Roles
  <2>3. log'[session'[x]] = Append(q, r) /\ reply'[x] = Shown(says)
    BY <1>2, <1>4 DEF ModelAnswers
  <2> HIDE DEF q, r
  <2> QED
    BY <2>1, <2>2, <2>3
<1>5. ASSUME NEW s \in Sessions, NEW m \in Messages, Answer(x, s, m)
      PROVE  \E q \in Seq(RowSet), r \in RowSet :
                /\ Opened(q, x) /\ r.ex = x /\ r.role = "assistant"
                /\ log'[session'[x]] = Append(q, r) /\ reply'[x] = Shown(r.says)
  <2> DEFINE b == RowsBefore(log[s], m)
             u == Row(x, "user", "none")
             q == b \o <<u>>
             r == Row(x, "assistant", OwnAnswer(m))
  <2>1. OwnAnswer(m) \in Replies \cup Texts /\ Shown(OwnAnswer(m)) = OwnAnswer(m)
    BY DEF OwnAnswer, Replies, Shown
  <2>2. /\ r \in RowSet /\ r.ex = x /\ r.role = "assistant" /\ r.says = OwnAnswer(m)
        /\ u \in RowSet
    BY <2>1 DEF RowSet, Row, Roles, Replies
  <2>3. b \in Seq(RowSet) /\ Own(b, x) = {}
    <3>1. log[s] \in Seq(RowSet) /\ Own(log[s], x) = {}
      BY <1>2, <1>5 DEF Stored, RowsFit, Answer, Come
    <3>2. b = log[s] \/ b = <<>>
      BY DEF RowsBefore, ForgetRows
    <3>3. <<>> \in Seq(RowSet) /\ Own(<<>>, x) = {}
      BY DEF Own
    <3> HIDE DEF b
    <3> QED
      BY <3>1, <3>2, <3>3
  <2>4. log'[session'[x]] = b \o <<u, r>> /\ reply'[x] = OwnAnswer(m)
    BY <1>2, <1>5 DEF Answer, Come
  <2>5. Opened(q, x)
    <3> HIDE DEF b
    <3> QED
      BY <2>3, QuestionOpens
  <2> HIDE DEF b, u, r
  <2>6. q \in Seq(RowSet) /\ b \o <<u, r>> = Append(q, r)
    BY <2>2, <2>3
  <2> HIDE DEF q
  <2> QED
    BY <2>1, <2>2, <2>4, <2>5, <2>6
<1>6. PICK q \in Seq(RowSet), r \in RowSet :
                /\ Opened(q, x) /\ r.ex = x /\ r.role = "assistant"
                /\ log'[session'[x]] = Append(q, r) /\ reply'[x] = Shown(r.says)
  BY <1>3, <1>4, <1>5
<1> DEFINE c == log'[session'[x]]
<1>7. c = Append(q, r)
  BY <1>6
<1> HIDE DEF c
<1>8. Closed(c, x, r)
  BY <1>6, <1>7, AnswerCloses
<1>9. reply'[x] = Shown(r.says)
  BY <1>6
<1>10. \E first, last \in Own(c, x) :
              /\ c[first].role = "user" /\ c[last].role = "assistant" /\ reply'[x] = Shown(c[last].says)
              /\ first < last
              /\ \A i \in Own(c, x) \ {first, last} : first < i /\ i < last /\ c[i].role = "tool"
  BY <1>8, <1>9 DEF Closed
<1> QED
  BY <1>10 DEF c

\* An exchange is answered with its question, the tool's rows and exactly one answer stored, in
\* this order, the one the user is shown something of.
THEOREM Answered == Spec => AnsweredIsStored
<1>1. IInv /\ Stored /\ [Next]_vars =>
        [\A x \in Exchanges : stage[x] # "done" /\ stage'[x] = "done" =>
            LET rows == log'[session'[x]]
            IN \E first, last \in Own(rows, x) :
                  /\ rows[first].role = "user"
                  /\ rows[last].role = "assistant" /\ reply'[x] = Shown(rows[last].says)
                  /\ first < last
                  /\ \A i \in Own(rows, x) \ {first, last} :
                        first < i /\ i < last /\ rows[i].role = "tool"]_vars
  BY DoneIsStored
<1> QED
  BY <1>1, Invariance, RowsInvariance, PTL DEF Spec, AnsweredIsStored

\* What is to be forgotten is gone after the answer that says so.
LEMMA AnswerForgets ==
    ASSUME IInv, Stored, NEW m \in Messages, OwnAnswer(m) = "forgotten",
           NEW x \in Exchanges, NEW s \in Sessions, Answer(x, s, m)
    PROVE  /\ \A f \in facts'[s] : m.forget \notin {"all", f[1]}
           /\ m.forget = "all" => \A i \in DOMAIN log'[s] : log'[s][i].ex = x
<1>1. facts \in [Sessions -> SUBSET Facts] /\ log \in [Sessions -> Seq(RowSet)]
  BY DEF Stored, TypeOK, RowSet
<1>2. facts'[s] = ForgetFacts(RememberFromMessage(facts[s], m), m)
  BY <1>1 DEF Answer, FactsBefore
<1>3. \A f \in facts'[s] : m.forget \notin {"all", f[1]}
  BY <1>2 DEF ForgetFacts
<1>4. ASSUME m.forget = "all" PROVE \A i \in DOMAIN log'[s] : log'[s][i].ex = x
  <2> DEFINE u == Row(x, "user", "none")
             a == Row(x, "assistant", "forgotten")
  <2>1. u.ex = x /\ a.ex = x
    BY DEF Row
  <2>2. log'[s] = <<>> \o <<u, a>>
    BY <1>1, <1>4 DEF Answer, RowsBefore, ForgetRows
  <2> HIDE DEF u, a
  <2>3. DOMAIN (<<>> \o <<u, a>>) = 1..2 /\ (<<>> \o <<u, a>>)[1] = u /\ (<<>> \o <<u, a>>)[2] = a
    OBVIOUS
  <2>4. \A i \in 1..2 : i = 1 \/ i = 2
    OBVIOUS
  <2> QED
    BY <2>1, <2>2, <2>3, <2>4
<1> QED
  BY <1>3, <1>4

\* When the user is told that something was forgotten it is gone, even if the same text told it
\* again, and with everything forgotten only the two rows that say so are left.
THEOREM Forgotten == Spec => ForgottenIsGone
<1>1. IInv /\ Stored /\ [Next]_vars =>
        [\A m \in Messages : OwnAnswer(m) = "forgotten" =>
            \A x \in Exchanges, s \in Sessions : Answer(x, s, m) =>
                /\ \A f \in facts'[s] : m.forget \notin {"all", f[1]}
                /\ m.forget = "all" => \A i \in DOMAIN log'[s] : log'[s][i].ex = x]_vars
  BY AnswerForgets
<1> QED
  BY <1>1, Invariance, RowsInvariance, PTL DEF Spec, ForgottenIsGone

-----------------------------------------------------------------------------
(* What a tool's result says                                               *)

\* An exchange has a plan while it has an item, and a result only of a call of that plan.
ResultFits(y) ==
    /\ job[y] = "none" <=> plan[y] = NoPlan
    /\ outcome[y] # "none" => job[y] = "returned" /\ outcome[y] \in RunTool(session[y], plan[y])

ResultsFit == \A x \in Exchanges : ResultFits(x)

\* An exchange without an item has nothing; one that changes is not the one that moves.
LEMMA ResultStays ==
    ASSUME NEW y, ResultFits(y), policy' = policy, session'[y] = session[y] \/ job[y] = "none",
           plan'[y] = plan[y], job'[y] = job[y], outcome'[y] = outcome[y]
    PROVE  ResultFits(y)'
BY DEF ResultFits, RunTool, RunFunction, Available, Executes, CanUseServerExec, Authorized

\* Launching an item for an exchange that has none.
LEMMA LaunchFits ==
    ASSUME Total, ResultsFit, NEW x \in Exchanges, job[x] = "none", NEW p, p # NoPlan, Launch(x, p),
           policy' = policy, \A y \in Exchanges \ {x} : session'[y] = session[y]
    PROVE  ResultsFit'
<1>1. /\ plan'[x] = p /\ job'[x] = "queued" /\ outcome'[x] = outcome[x]
      /\ \A y \in Exchanges \ {x} : plan'[y] = plan[y] /\ job'[y] = job[y] /\ outcome'[y] = outcome[y]
  BY DEF Launch, Total
<1>2. ResultFits(x)'
  BY <1>1 DEF ResultsFit, ResultFits
<1>3. \A y \in Exchanges \ {x} : ResultFits(y)'
  BY <1>1, ResultStays DEF ResultsFit
<1> QED
  BY <1>2, <1>3 DEF ResultsFit

\* Dropping an item, or nothing.
LEMMA DropFits ==
    ASSUME IInv, Stored, ResultsFit, NEW x \in Exchanges,
           UNCHANGED <<plan, job, outcome>> \/ DropJob(x),
           policy' = policy, \A y \in Exchanges : session'[y] = session[y] \/ job[y] = "none"
    PROVE  ResultsFit'
<1>1. CASE UNCHANGED <<plan, job, outcome>>
  <2>1. \A y \in Exchanges : ResultFits(y)'
    BY <1>1, ResultStays DEF ResultsFit
  <2> QED
    BY <2>1 DEF ResultsFit
<1>2. CASE DropJob(x)
  <2>1. /\ plan'[x] = NoPlan /\ job'[x] = "none" /\ outcome'[x] = "none"
        /\ \A y \in Exchanges \ {x} : plan'[y] = plan[y] /\ job'[y] = job[y] /\ outcome'[y] = outcome[y]
    BY <1>2 DEF DropJob, IInv, Total, Stored, TypeOK
  <2>2. ResultFits(x)'
    BY <2>1 DEF ResultFits
  <2>3. \A y \in Exchanges \ {x} : ResultFits(y)'
    BY <2>1, ResultStays DEF ResultsFit
  <2> QED
    BY <2>2, <2>3 DEF ResultsFit
<1> QED
  BY <1>1, <1>2

\* The start of an exchange.
LEMMA BeginResult ==
    ASSUME IInv, Stored, ResultsFit, NEW x \in Exchanges, NEW s \in Sessions, NEW m \in Messages,
           Begin(x, s, m)
    PROVE  ResultsFit'
<1>1. /\ job[x] = "none" /\ policy' = policy
      /\ \A y \in Exchanges \ {x} : session'[y] = session[y]
  BY DEF Begin, Refuse, Answer, BeginFails, AskTool, AskPlanner, AskModel, StoreQuestion, Come,
         IInv, Total, ItemsWait
<1>2. CASE AskTool(x, s, m)
  BY <1>1, <1>2, LaunchFits DEF AskTool, IInv
<1>3. CASE ~AskTool(x, s, m)
  <2>1. UNCHANGED <<plan, job, outcome>>
    BY <1>3 DEF Begin, Refuse, Answer, BeginFails, AskPlanner, AskModel, poolVars
  <2> QED
    BY <1>1, <2>1, DropFits
<1> QED
  BY <1>2, <1>3

\* What a started exchange does next.
LEMMA ProceedResult ==
    ASSUME IInv, Stored, ResultsFit, NEW x \in Exchanges, Proceed(x)
    PROVE  ResultsFit'
<1>1. CASE stage[x] = "plan" /\ \E p \in PlannerChoices(session[x]) : PlannerChooses(x, p)
  <2>1. PICK p \in PlannerChoices(session[x]) : PlannerChooses(x, p)
    BY <1>1
  <2>2. job[x] = "none" /\ UNCHANGED <<policy, session>>
    BY <1>1, <2>1 DEF IInv, ItemsWait, PlannerChooses
  <2>3. CASE p = NoPlan
    <3>1. UNCHANGED <<plan, job, outcome>>
      BY <2>1, <2>3 DEF PlannerChooses, poolVars
    <3> QED
      BY <2>2, <3>1, DropFits
  <2>4. CASE p # NoPlan
    BY <2>1, <2>2, <2>4, LaunchFits DEF PlannerChooses, IInv
  <2> QED
    BY <2>3, <2>4
<1>2. ASSUME NEW r, ToolDone(x, r) \/ ToolRowFails(x, r) \/ ToolRowLost(x, r)
      PROVE  ResultsFit'
  <2>1. ToolEnds(x, r) /\ UNCHANGED <<policy, session>>
    BY <1>2 DEF ToolDone, ToolRowFails, ToolRowLost
  <2>2. UNCHANGED <<plan, job, outcome>> \/ DropJob(x)
    BY <2>1 DEF ToolEnds, Returned, TimedOut
  <2> QED
    BY <2>1, <2>2, DropFits
<1>3. ASSUME NEW says, ModelAnswers(x, says) \/ AnswerLost(x, says)
      PROVE  ResultsFit'
  <2>1. UNCHANGED <<policy, session, plan, job, outcome>>
    BY <1>3 DEF ModelAnswers, AnswerLost, poolVars
  <2> QED
    BY <2>1, DropFits
<1> QED
  BY <1>1, <1>2, <1>3 DEF Proceed

\* The threads of the pool: what returns is a result of the plan.
LEMMA PoolResult ==
    ASSUME IInv, Stored, ResultsFit, NEW x \in Exchanges, StartJob(x) \/ FinishJob(x)
    PROVE  ResultsFit'
<1>1. UNCHANGED <<policy, session>>
  BY DEF StartJob, FinishJob
<1>2. outcome[x] = "none" /\ plan[x] # NoPlan
  BY DEF StartJob, FinishJob, ResultsFit, ResultFits
<1>3. \A y \in Exchanges \ {x} : plan'[y] = plan[y] /\ job'[y] = job[y] /\ outcome'[y] = outcome[y]
  BY DEF StartJob, FinishJob, IInv, Total, Stored, TypeOK
<1>4. \A y \in Exchanges \ {x} : ResultFits(y)'
  BY <1>1, <1>3, ResultStays DEF ResultsFit
<1>5. ResultFits(x)'
  <2>1. CASE StartJob(x)
    <3>1. plan'[x] = plan[x] /\ job'[x] = "running" /\ outcome'[x] = "none"
      BY <1>2, <2>1 DEF StartJob, IInv, Total
    <3> QED
      BY <1>2, <3>1 DEF ResultFits
  <2>2. CASE FinishJob(x) /\ stage[x] = "tool"
    <3>1. PICK r \in RunTool(session[x], plan[x]) : outcome' = [outcome EXCEPT ![x] = r]
      BY <2>2 DEF FinishJob
    <3>2. plan'[x] = plan[x] /\ job'[x] = "returned" /\ outcome'[x] = r
      BY <2>2, <3>1 DEF FinishJob, IInv, Total, Stored, TypeOK
    <3>3. RunTool(session[x], plan[x])' = RunTool(session[x], plan[x])
      BY <1>1, <3>2 DEF RunTool, RunFunction, Available, Executes, CanUseServerExec, Authorized
    <3> QED
      BY <1>2, <3>1, <3>2, <3>3 DEF ResultFits
  <2>3. CASE FinishJob(x) /\ stage[x] # "tool"
    <3>1. plan'[x] = NoPlan /\ job'[x] = "none" /\ outcome'[x] = "none"
      BY <1>2, <2>3 DEF FinishJob, IInv, Total
    <3> QED
      BY <3>1 DEF ResultFits
  <2> QED
    BY <2>1, <2>2, <2>3
<1> QED
  BY <1>4, <1>5 DEF ResultsFit

\* In every reachable state a result is one of a call of the exchange's plan.
THEOREM ResultsInvariance == Spec => []ResultsFit
<1>1. Init => ResultsFit
  BY DEF Init, ResultsFit, ResultFits, NoExchange
<1>2. IInv /\ Stored /\ ResultsFit /\ [Next]_vars => ResultsFit'
  <2> SUFFICES ASSUME IInv, Stored, ResultsFit, [Next]_vars PROVE ResultsFit'
    OBVIOUS
  <2>1. CASE Next
    BY <2>1, BeginResult, ProceedResult, PoolResult DEF Next
  <2>2. CASE UNCHANGED vars
    <3>1. \A y \in Exchanges : ResultFits(y)'
      BY <2>2, ResultStays DEF vars, ResultsFit
    <3> QED
      BY <3>1 DEF ResultsFit
  <2> QED
    BY <2>1, <2>2
<1> QED
  BY <1>1, <1>2, Invariance, RowsInvariance, PTL DEF Spec

\* No tool that was chosen is refused when it runs: the policies of _plan_tool and of run_tool
\* agree up to the result, in every configuration.
NoneRefused == \A x \in Exchanges : outcome[x] \notin Refusals

THEOREM ToolsAreNotRefused == Spec => []NoneRefused
<1>1. IInv /\ ResultsFit => NoneRefused
  <2> SUFFICES ASSUME IInv, ResultsFit, NEW x \in Exchanges PROVE outcome[x] \notin Refusals
    BY DEF NoneRefused
  <2>1. CASE outcome[x] = "none"
    BY <2>1 DEF Refusals
  <2>2. CASE outcome[x] # "none"
    <3>1. plan[x] # NoPlan /\ outcome[x] \in RunTool(session[x], plan[x])
      BY <2>2 DEF ResultsFit, ResultFits
    <3> QED
      BY <3>1 DEF IInv, PlansPermitted, Permitted
  <2> QED
    BY <2>1, <2>2
<1> QED
  BY <1>1, Invariance, ResultsInvariance, PTL

\* A call of web_research with arguments it declares lacks one that it requires.
LEMMA ResearchFails == ASSUME NEW p, p.tool = "web_research" PROVE RunFunction(p) = {"arg-error"}
<1>1. TOOLS["web_research"].args = {"url"} /\ TOOLS["web_research"].required = {"query"}
  BY DEF TOOLS, Tool
<1>2. ~(p.args \subseteq {"url"} /\ {"query"} \subseteq p.args)
  OBVIOUS
<1>3. TOOLS[p.tool].args = {"url"} /\ TOOLS[p.tool].required = {"query"}
  BY <1>1
<1> QED
  BY <1>2, <1>3, Zenon DEF RunFunction

\* web_research declares the argument url and its function requires query: whatever text or
\* model chooses it, in every configuration, its function is not called.
ResearchNeverRuns ==
    \A x \in Exchanges :
        plan[x] # NoPlan /\ plan[x].tool = "web_research" => outcome[x] \in {"none", "arg-error"}

THEOREM ResearchIsNotCalled == Spec => []ResearchNeverRuns
<1>1. IInv /\ Stored /\ ResultsFit => ResearchNeverRuns
  <2> SUFFICES ASSUME IInv, Stored, ResultsFit, NEW x \in Exchanges, outcome[x] # "none",
                      plan[x] # NoPlan, plan[x].tool = "web_research"
               PROVE  outcome[x] = "arg-error"
    BY DEF ResearchNeverRuns
  <2>1. outcome[x] \in RunTool(session[x], plan[x]) /\ RunTool(session[x], plan[x]) \cap Refusals = {}
    BY DEF ResultsFit, ResultFits, IInv, PlansPermitted, Permitted
  <2>2. RunTool(session[x], plan[x]) \subseteq Refusals \/ RunTool(session[x], plan[x]) = RunFunction(plan[x])
    BY DEF RunTool, Refusals
  <2> QED
    BY <2>1, <2>2, ResearchFails
<1> QED
  BY <1>1, Invariance, RowsInvariance, ResultsInvariance, PTL

-----------------------------------------------------------------------------
(* Progress                                                                *)

\* How far an exchange has come.
Rank(st) ==
    CASE st = "new" -> 0 [] st = "plan" -> 1 [] st = "tool" -> 2 [] st = "answer" -> 3
      [] OTHER -> 4

\* No step takes an exchange back or ends one that is over, its own steps take it further, and
\* what the threads of the pool do, when its time is up too, leaves it where it is: with fairness,
\* an exchange ends after three steps of its own at most.
ExchangesGoForward ==
    [][\A x \in Exchanges :
          /\ stage'[x] = stage[x] \/ Rank(stage[x]) < Rank(stage'[x])
          /\ Proceed(x) => Rank(stage[x]) < Rank(stage'[x])
          /\ stage[x] \in {"done", "failed"} => stage'[x] = stage[x]
          /\ StartJob(x) \/ FinishJob(x) => stage'[x] = stage[x]]_vars

\* A stage is left for a later one.
LEMMA LaterStage ==
    ASSUME Total, NEW x \in Exchanges, NEW a, NEW b, stage[x] = a, Rank(a) < Rank(b),
           stage' = [stage EXCEPT ![x] = b], NEW y \in Exchanges
    PROVE  /\ stage'[y] = stage[y] \/ (y = x /\ Rank(stage[y]) < Rank(stage'[y]))
           /\ y = x => stage'[y] = b
<1>1. DOMAIN stage = Exchanges
  BY DEF Total
<1>2. stage'[x] = b /\ (y # x => stage'[y] = stage[y])
  BY <1>1
<1> QED
  BY <1>2

\* The steps of an exchange.
LEMMA OwnStep ==
    ASSUME Total, NEW x \in Exchanges, Proceed(x) \/ \E s \in Sessions, m \in Messages : Begin(x, s, m)
    PROVE  \E b : /\ stage' = [stage EXCEPT ![x] = b] /\ Rank(stage[x]) < Rank(b)
                  /\ stage[x] \notin {"done", "failed"}
<1>1. ASSUME NEW s \in Sessions, NEW m \in Messages, Begin(x, s, m)
      PROVE  \E b \in {"plan", "tool", "answer", "done", "failed"} :
                stage[x] = "new" /\ stage' = [stage EXCEPT ![x] = b]
  BY <1>1 DEF Begin, Refuse, Answer, BeginFails, AskTool, AskPlanner, AskModel, StoreQuestion, Come
<1>2. CASE Proceed(x)
  <2>1. CASE /\ stage[x] = "plan"
             /\ \E p \in PlannerChoices(session[x]) : PlannerChooses(x, p)
    <3>1. PICK b \in {"tool", "answer"} : stage' = [stage EXCEPT ![x] = b]
      BY <2>1 DEF PlannerChooses
    <3>2. Rank(stage[x]) < Rank(b)
      BY <2>1, <3>1 DEF Rank
    <3> QED
      BY <2>1, <3>1, <3>2
  <2>2. CASE /\ stage[x] = "tool"
             /\ \E r \in {outcome[x], "timeout"} : ToolDone(x, r) \/ ToolRowFails(x, r) \/ ToolRowLost(x, r)
    <3>1. PICK b \in {"answer", "failed"} : stage' = [stage EXCEPT ![x] = b]
      BY <2>2 DEF ToolDone, ToolRowFails, ToolRowLost, Report
    <3>2. Rank(stage[x]) < Rank(b)
      BY <2>2, <3>1 DEF Rank
    <3> QED
      BY <2>2, <3>1, <3>2
  <2>3. CASE /\ stage[x] = "answer"
             /\ \E says \in ModelSays : ModelAnswers(x, says) \/ AnswerLost(x, says)
    <3>1. PICK b \in {"done", "failed"} : stage' = [stage EXCEPT ![x] = b]
      BY <2>3 DEF ModelAnswers, AnswerLost
    <3>2. Rank(stage[x]) < Rank(b)
      BY <2>3, <3>1 DEF Rank
    <3> QED
      BY <2>3, <3>1, <3>2
  <2> QED
    BY <1>2, <2>1, <2>2, <2>3 DEF Proceed
<1> QED
  BY <1>1, <1>2 DEF Rank

\* An exchange takes at most three steps after it began.
THEOREM ExchangesAdvance == Spec => ExchangesGoForward
<1>1. ASSUME IInv, [Next]_vars
      PROVE  [\A x \in Exchanges :
                 /\ stage'[x] = stage[x] \/ Rank(stage[x]) < Rank(stage'[x])
                 /\ Proceed(x) => Rank(stage[x]) < Rank(stage'[x])
                 /\ stage[x] \in {"done", "failed"} => stage'[x] = stage[x]
                 /\ StartJob(x) \/ FinishJob(x) => stage'[x] = stage[x]]_vars
  <2> SUFFICES ASSUME Next, NEW x \in Exchanges
               PROVE  /\ stage'[x] = stage[x] \/ Rank(stage[x]) < Rank(stage'[x])
                      /\ Proceed(x) => Rank(stage[x]) < Rank(stage'[x])
                      /\ stage[x] \in {"done", "failed"} => stage'[x] = stage[x]
                      /\ StartJob(x) \/ FinishJob(x) => stage'[x] = stage[x]
    BY <1>1
  <2>1. Total
    BY <1>1 DEF IInv
  <2>2. Proceed(x) => Rank(stage[x]) < Rank(stage'[x])
    BY <2>1, OwnStep, LaterStage
  <2>3. StartJob(x) \/ FinishJob(x) => stage'[x] = stage[x]
    BY DEF StartJob, FinishJob
  <2>4. PICK y \in Exchanges : \/ Proceed(y) \/ \E s \in Sessions, m \in Messages : Begin(y, s, m)
                               \/ StartJob(y) \/ FinishJob(y)
    BY DEF Next
  <2>5. CASE StartJob(y) \/ FinishJob(y)
    BY <2>2, <2>3, <2>5 DEF StartJob, FinishJob
  <2>6. CASE Proceed(y) \/ \E s \in Sessions, m \in Messages : Begin(y, s, m)
    <3>1. PICK b : /\ stage' = [stage EXCEPT ![y] = b] /\ Rank(stage[y]) < Rank(b)
                   /\ stage[y] \notin {"done", "failed"}
      BY <2>1, <2>6, OwnStep
    <3>2. stage'[x] = stage[x] \/ (x = y /\ Rank(stage[x]) < Rank(stage'[x]))
      BY <2>1, <3>1, LaterStage
    <3> QED
      BY <2>2, <2>3, <3>1, <3>2
  <2> QED
    BY <2>4, <2>5, <2>6
<1> QED
  BY <1>1, Invariance, PTL DEF Spec, ExchangesGoForward
=============================================================================
