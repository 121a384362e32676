--------------------------- MODULE AgentPipeline ---------------------------
(***************************************************************************)
(* core/agent.py, core/agent_impl.py, tools/registry.py, tools/base.py:    *)
(* Agent.ask.  A message is remembered from, may be answered by itself     *)
(* (identity, forget), may be given to one internal tool chosen by keyword *)
(* or by the model, and is answered by the model.  Exchanges of different  *)
(* sessions interleave at the awaits on one event loop; tools run in the   *)
(* threads of one pool, and a tool that exceeds its time goes on there.    *)
(* Callers run one exchange of a session at a time.                        *)
(***************************************************************************)
EXTENDS Naturals, Sequences, FiniteSets

CONSTANTS
    Sessions,
    Exchanges,    \* the calls of ask
    Policies,     \* the configurations the process may be started with
    Messages,     \* what the texts may be
    Answers,      \* what the model may answer
    PlannerArgs,  \* the sets of arguments the planning model may name
    Workers,      \* threads of the event loop's default executor
    MaxFaults     \* bound on the times writing to the database fails

ASSUME BoundsAssumption == Workers \in Nat \ {0} /\ MaxFaults \in Nat

-----------------------------------------------------------------------------
(* The registry: one tool of every kind of profile, danger and selection.  *)

Profiles == {"local", "device", "server"}
LocalOnly == {"local", "device"}

Tool(profiles, auto, args, required) ==
    [profiles |-> profiles, auto |-> auto, dangerous |-> FALSE, args |-> args, required |-> required]

\* Of the two tools whose function is server_execution.execute.
ExecuteArgs == {"operation", "path", "script", "timeout"}

\* args are the declared ones, required those of the function's signature without a default.
TOOLS == [
    shell |-> [Tool(LocalOnly, FALSE, {"command"}, {"command"}) EXCEPT !.dangerous = TRUE],
    ping |-> Tool(LocalOnly, TRUE, {"host"}, {"host"}),
    local_ip |-> Tool(LocalOnly, TRUE, {}, {}),
    battery |-> Tool({"device"}, TRUE, {}, {}),
    notify |-> Tool({"device"}, FALSE, {"title", "content"}, {"title", "content"}),
    web_search |-> Tool({"local", "server"}, TRUE, {"query"}, {"query"}),
    web_research |-> Tool({"local", "server"}, TRUE, {"url"}, {"query"}),
    server_diagnostics |-> Tool({"server"}, TRUE, ExecuteArgs, {"operation"}),
    server_execute |-> Tool({"server"}, FALSE, ExecuteArgs, {"operation"}),
    recall |-> Tool(Profiles, FALSE, {"key"}, {"key"})]

ToolNames == DOMAIN TOOLS
ServerTools == {"server_diagnostics", "server_execute"}

\* safe_script: the operation named is safe_script, which runs the script named.
NoPlan == [tool |-> "none", args |-> {}, safe_script |-> FALSE]

\* The fact keys; a value is what the user told or words taken from a question.
Keys == {"name", "preference", "note"}
Facts == Keys \X {"told", "asked"}

\* A text: whether it is empty or too long, whether it is a question for the name, and what
\* the patterns find in it: facts, words that _NAME_QUERY takes for that question, a question
\* who the assistant is, what is to be forgotten ("none", a key or "all"; an unknown target
\* is none), the tool its words select and the words that call the planner.
NoText == [bad |-> TRUE, asksName |-> FALSE, tells |-> {}, query |-> FALSE, identity |-> FALSE,
           forget |-> "none", fast |-> NoPlan, signals |-> FALSE]

\* What a tool's row or the prompt says of it.
Refusals == {"unknown_tool", "capability_unavailable", "denied"}
Results == Refusals \cup {"arg-error", "success", "error", "timeout", "unavailable"}

\* What the model writes; echo_*: a copy of a tool's payload, of a web result, of
\* another tool, or one that does not parse.
Texts == {"text", "empty", "echo_web", "echo_other", "echo_broken"}
ASSUME AnswersAssumption == Answers \subseteq Texts
ASSUME SessionsAssumption == Sessions # {}
ASSUME MessagesAssumption ==
    \A m \in Messages :
        /\ m.tells \subseteq Keys
        /\ m.fast = [tool |-> m.fast.tool, args |-> m.fast.args, safe_script |-> FALSE]

Replies == {"none", "identity", "forgotten", "apology", "placeholder", "text", "results", "payload"}

VARIABLES
    policy,   \* config, read once when the process starts
    stage,    \* stage[x]: where the exchange is
    session,  \* session[x]: whose agent is asked
    facts,    \* facts[s]: the stored facts
    log,      \* log[s]: the stored rows, as [ex, role, says]
    plan,     \* plan[x]: the tool the exchange uses
    job,      \* job[x]: its work item in the executor
    outcome,  \* outcome[x]: what run_tool returned
    prompt,   \* prompt[x]: what the model is told of the tool
    reply,    \* reply[x]: what the user is shown
    faults

memoryVars == <<facts, log, faults>>
poolVars == <<job, outcome>>
vars == <<policy, stage, session, facts, log, faults, plan, job, outcome, prompt, reply>>

Roles == {"user", "tool", "assistant"}
Row(x, role, says) == [ex |-> x, role |-> role, says |-> says]

Plans(t) == [tool : ToolNames \cap {t}, args : SUBSET TOOLS[t].args, safe_script : BOOLEAN]

TypeOK ==
    /\ policy \in Policies
    /\ stage \in [Exchanges -> {"new", "plan", "tool", "answer", "done", "failed"}]
    /\ session \in [Exchanges -> Sessions]
    /\ facts \in [Sessions -> SUBSET Facts]
    /\ log \in [Sessions -> Seq([ex : Exchanges, role : Roles, says : Results \cup Replies \cup Texts])]
    /\ \A x \in Exchanges : plan[x] = NoPlan \/ plan[x] \in Plans(plan[x].tool)
    /\ job \in [Exchanges -> {"none", "queued", "running", "returned"}]
    /\ outcome \in [Exchanges -> Results \cup {"none"}]
    /\ Cardinality({x \in Exchanges : job[x] = "running"}) <= Workers
    /\ prompt \in [Exchanges -> Results \cup {"none"}]
    /\ reply \in [Exchanges -> Replies]
    /\ faults \in 0..MaxFaults

NoExchange(v) == [x \in Exchanges |-> v]

Init ==
    /\ policy \in Policies
    /\ stage = NoExchange("new")
    /\ session = NoExchange(CHOOSE s \in Sessions : TRUE)
    /\ facts = [s \in Sessions |-> {}] /\ log = [s \in Sessions |-> <<>>] /\ faults = 0
    /\ plan = NoExchange(NoPlan)
    /\ job = NoExchange("none") /\ outcome = NoExchange("none")
    /\ prompt = NoExchange("none") /\ reply = NoExchange("none")

-----------------------------------------------------------------------------
(* The policy of tools, when one is chosen and again when it runs          *)

Available(t) == policy.profile \in TOOLS[t].profiles

\* The session may have the server execute what is enabled for it.
Authorized(s) == policy.execEnabled /\ policy.profile = "server" /\ s \in policy.execSessions

CanUseServerExec(s) == Authorized(s) /\ policy.execListed

\* Mutation of Allowed: the planner may choose what is only for explicit use.
AllowExplicit(s) ==
    {t \in policy.auto \cap ToolNames : ~TOOLS[t].dangerous /\ Available(t)}

\* What the planning model may choose from.
Allowed(s) ==
    {t \in policy.auto \cap ToolNames : ~TOOLS[t].dangerous /\ Available(t) /\ TOOLS[t].auto}
        \cup {t \in {"server_execute"} : CanUseServerExec(s) /\ Available(t)}

\* The tool a text's words select, when the policy has it.
FastPlan(m) ==
    IF /\ m.fast.tool \in ToolNames
       /\ Available(m.fast.tool)
       /\ ~TOOLS[m.fast.tool].dangerous
       /\ TOOLS[m.fast.tool].auto
       /\ m.fast.args \subseteq TOOLS[m.fast.tool].args
    THEN m.fast ELSE NoPlan

\* server_execution.execute does nothing while it is switched off, and of scripts runs those
\* that SERVER_SAFE_SCRIPTS lists; what it denies is an error here.
Executes(p) == policy.execEnabled /\ (p.safe_script => policy.safeScripts)

\* Tool.run: the function is called with declared arguments and all it requires.
RunFunction(p) ==
    IF ~(p.args \subseteq TOOLS[p.tool].args /\ TOOLS[p.tool].required \subseteq p.args) THEN {"arg-error"}
    ELSE IF p.tool \in ServerTools /\ ~Executes(p) THEN {"error"}
    ELSE {"success", "error"}

\* run_tool
RunTool(s, p) ==
    IF p.tool \notin ToolNames THEN {"unknown_tool"}
    ELSE IF ~Available(p.tool) THEN {"capability_unavailable"}
    ELSE IF TOOLS[p.tool].dangerous \/ (p.tool = "server_execute" /\ ~CanUseServerExec(s)) THEN {"denied"}
    ELSE RunFunction(p)

-----------------------------------------------------------------------------
(* The facts of a text                                                     *)

\* The keys of the facts that are stored: the facade looks for a question for the name first.
Remembered(m) == IF m.query THEN {} ELSE m.tells

\* The facts with those of keys replaced by what the text has for them.
Remember(fs, m, keys) ==
    {f \in fs : f[1] \notin keys} \cup (keys \X {IF m.asksName THEN "asked" ELSE "told"})

RememberFromMessage(fs, m) == Remember(fs, m, Remembered(m))

ForgetFacts(fs, m) == {f \in fs : m.forget \notin {"all", f[1]}}
ForgetRows(rows, m) == IF m.forget = "all" THEN <<>> ELSE rows

\* The answer that needs no model.
OwnAnswer(m) ==
    IF m.identity THEN "identity" ELSE IF m.forget # "none" THEN "forgotten" ELSE "none"

\* Mutation of FactsBefore: the text is remembered from after it was forgotten from.
RememberLast(fs, m) ==
    RememberFromMessage(IF OwnAnswer(m) = "forgotten" THEN ForgetFacts(fs, m) ELSE fs, m)

\* What ask leaves of the facts and of the rows before it stores the question.
FactsBefore(fs, m) ==
    LET told == RememberFromMessage(fs, m)
    IN IF OwnAnswer(m) = "forgotten" THEN ForgetFacts(told, m) ELSE told
RowsBefore(rows, m) == IF OwnAnswer(m) = "forgotten" THEN ForgetRows(rows, m) ELSE rows

-----------------------------------------------------------------------------
(* The start of ask, up to its first await                                 *)

UnderWay(x) == stage[x] \in {"plan", "tool", "answer"}
Idle(s) == \A y \in Exchanges : session[y] = s => ~UnderWay(y)

Come(x, s, to) ==
    /\ stage[x] = "new" /\ Idle(s)
    /\ stage' = [stage EXCEPT ![x] = to]
    /\ session' = [session EXCEPT ![x] = s]
    /\ UNCHANGED policy

\* An empty or too long text.
Refuse(x, s, m) ==
    /\ m.bad
    /\ Come(x, s, "failed")
    /\ UNCHANGED <<memoryVars, plan, poolVars, prompt, reply>>

Answer(x, s, m) ==
    /\ ~m.bad /\ OwnAnswer(m) # "none"
    /\ Come(x, s, "done")
    /\ facts' = [facts EXCEPT ![s] = FactsBefore(@, m)]
    /\ log' = [log EXCEPT ![s] = RowsBefore(@, m) \o
                  <<Row(x, "user", "none"), Row(x, "assistant", OwnAnswer(m))>>]
    /\ reply' = [reply EXCEPT ![x] = OwnAnswer(m)]
    /\ UNCHANGED <<faults, plan, poolVars, prompt>>

StoreQuestion(x, s, m, to) ==
    /\ ~m.bad /\ OwnAnswer(m) = "none"
    /\ Come(x, s, to)
    /\ facts' = [facts EXCEPT ![s] = FactsBefore(@, m)]
    /\ log' = [log EXCEPT ![s] = Append(@, Row(x, "user", "none"))]
    /\ UNCHANGED <<faults, prompt, reply>>

\* asyncio.to_thread
Launch(x, p) ==
    /\ plan' = [plan EXCEPT ![x] = p]
    /\ job' = [job EXCEPT ![x] = "queued"]
    /\ UNCHANGED outcome

AskTool(x, s, m) ==
    /\ FastPlan(m) # NoPlan
    /\ StoreQuestion(x, s, m, "tool")
    /\ Launch(x, FastPlan(m))

NeedsPlanner(s, m) == FastPlan(m) = NoPlan /\ m.signals /\ Allowed(s) # {}

AskPlanner(x, s, m) ==
    /\ NeedsPlanner(s, m)
    /\ StoreQuestion(x, s, m, "plan")
    /\ UNCHANGED <<plan, poolVars>>

AskModel(x, s, m) ==
    /\ FastPlan(m) = NoPlan /\ ~NeedsPlanner(s, m)
    /\ StoreQuestion(x, s, m, "answer")
    /\ UNCHANGED <<plan, poolVars>>

\* What may be stored of the rows that ask writes before its first await.
FirstRows(x, m) ==
    {<<>>, <<Row(x, "user", "none")>>} \cup
    {<<Row(x, "user", "none"), Row(x, "assistant", a)>> : a \in {OwnAnswer(m)} \ {"none"}}

\* A write before the first await fails, after those that come before it and with its own kept
\* for the next commit or not: some facts may be stored, rows forgotten without the facts, or
\* both done and the first rows stored.
BeginFails(x, s, m) ==
    /\ ~m.bad /\ faults < MaxFaults
    /\ Come(x, s, "failed")
    /\ faults' = faults + 1
    /\ \/ /\ \E keys \in SUBSET Remembered(m) : facts' = [facts EXCEPT ![s] = Remember(@, m, keys)]
          /\ UNCHANGED log
       \/ /\ facts' = [facts EXCEPT ![s] = RememberFromMessage(@, m)]
          /\ log' = [log EXCEPT ![s] = RowsBefore(@, m)]
       \/ /\ facts' = [facts EXCEPT ![s] = FactsBefore(@, m)]
          /\ \E rows \in FirstRows(x, m) : log' = [log EXCEPT ![s] = RowsBefore(@, m) \o rows]
    /\ UNCHANGED <<plan, poolVars, prompt, reply>>

Begin(x, s, m) ==
    \/ Refuse(x, s, m) \/ Answer(x, s, m) \/ BeginFails(x, s, m)
    \/ AskTool(x, s, m) \/ AskPlanner(x, s, m) \/ AskModel(x, s, m)

-----------------------------------------------------------------------------
(* The planner's reply.  One that fails, cannot be parsed or names nothing *)
(* permitted chooses no tool.                                              *)

PlannerChoices(s) ==
    {NoPlan} \cup
    {p \in [tool : Allowed(s), args : PlannerArgs, safe_script : BOOLEAN] :
        /\ p.args \subseteq TOOLS[p.tool].args
        /\ p.safe_script => p.tool \in ServerTools /\ {"operation", "script"} \subseteq p.args}

PlannerChooses(x, p) ==
    /\ \/ /\ p = NoPlan
          /\ stage' = [stage EXCEPT ![x] = "answer"]
          /\ UNCHANGED <<plan, poolVars>>
       \/ /\ p # NoPlan
          /\ stage' = [stage EXCEPT ![x] = "tool"]
          /\ Launch(x, p)
    /\ UNCHANGED <<policy, session, memoryVars, prompt, reply>>

-----------------------------------------------------------------------------
(* The thread pool.  It does not know whether anyone still waits.          *)

Running == {x \in Exchanges : job[x] = "running"}

\* A free thread takes an item.  (The executor takes the oldest; any may be taken here.)
StartJob(x) ==
    /\ job[x] = "queued" /\ Cardinality(Running) < Workers
    /\ job' = [job EXCEPT ![x] = "running"]
    /\ UNCHANGED <<policy, stage, session, memoryVars, plan, outcome, prompt, reply>>

\* The result of a tool nobody waits for is dropped.
FinishJob(x) ==
    /\ job[x] = "running"
    /\ IF stage[x] = "tool"
       THEN /\ job' = [job EXCEPT ![x] = "returned"]
            /\ \E r \in RunTool(session[x], plan[x]) : outcome' = [outcome EXCEPT ![x] = r]
            /\ UNCHANGED plan
       ELSE /\ job' = [job EXCEPT ![x] = "none"]
            /\ plan' = [plan EXCEPT ![x] = NoPlan]
            /\ UNCHANGED outcome
    /\ UNCHANGED <<policy, stage, session, memoryVars, prompt, reply>>

-----------------------------------------------------------------------------
(* _run_internal_tool: the end of the wait                                 *)

DropJob(x) ==
    /\ job' = [job EXCEPT ![x] = "none"]
    /\ plan' = [plan EXCEPT ![x] = NoPlan]
    /\ outcome' = [outcome EXCEPT ![x] = "none"]

Returned(x, r) ==
    /\ job[x] = "returned" /\ r = outcome[x]
    /\ DropJob(x)

\* Mutation of TimedOut: the item stays in the executor's queue, to run later.
TimedOutQueued(x, r) ==
    /\ r = "timeout"
    /\ IF job[x] = "returned" THEN DropJob(x) ELSE UNCHANGED <<plan, job, outcome>>

\* Mutation of TimedOut: the time of a tool is counted from its start.
TimedOutRunning(x, r) ==
    /\ r = "timeout" /\ job[x] # "queued"
    /\ IF job[x] = "running" THEN UNCHANGED <<plan, job, outcome>> ELSE DropJob(x)

\* wait_for gives up: an item not yet started is cancelled, a running thread goes on, and a
\* result that was just returned is lost.
TimedOut(x, r) ==
    /\ r = "timeout"
    /\ IF job[x] = "running" THEN UNCHANGED <<plan, job, outcome>> ELSE DropJob(x)

ToolEnds(x, r) == Returned(x, r) \/ TimedOut(x, r)

\* Mutation of Report: the result is stored and the prompt says what the tool returned,
\* whatever the timer did.
ReportOutcome(x, before, r) ==
    /\ log' = [log EXCEPT ![session[x]] = @ \o before \o <<Row(x, "tool", r)>>]
    /\ prompt' = [prompt EXCEPT ![x] = outcome[x]]
    /\ stage' = [stage EXCEPT ![x] = "answer"]

\* The row is stored, and the result becomes part of the prompt.
Report(x, before, r) ==
    /\ log' = [log EXCEPT ![session[x]] = @ \o before \o <<Row(x, "tool", r)>>]
    /\ prompt' = [prompt EXCEPT ![x] = r]
    /\ stage' = [stage EXCEPT ![x] = "answer"]

ToolDone(x, r) ==
    /\ ToolEnds(x, r)
    /\ Report(x, <<>>, r)
    /\ UNCHANGED <<policy, session, facts, faults, reply>>

\* The storing of the row fails, with the row kept for the next commit or not: ask
\* stores another row that says the tool is not available.
ToolRowFails(x, r) ==
    /\ faults < MaxFaults
    /\ faults' = faults + 1
    /\ ToolEnds(x, r)
    /\ \E kept \in {<<>>, <<Row(x, "tool", r)>>} : Report(x, kept, "unavailable")
    /\ UNCHANGED <<policy, session, facts, reply>>

\* That row cannot be stored either, while the failure lasts.
ToolRowLost(x, r) ==
    /\ faults < MaxFaults
    /\ faults' = faults + 1
    /\ ToolEnds(x, r)
    /\ \E kept \in {<<>>, <<Row(x, "tool", r)>>, <<Row(x, "tool", "unavailable")>>,
                     <<Row(x, "tool", r), Row(x, "tool", "unavailable")>>} :
          log' = [log EXCEPT ![session[x]] = @ \o kept]
    /\ stage' = [stage EXCEPT ![x] = "failed"]
    /\ UNCHANGED <<policy, session, facts, prompt, reply>>

-----------------------------------------------------------------------------
(* The model's answer.  A provider's failure is an answer, too.            *)

\* What is stored.
Recorded(a) == IF a = "empty" THEN "placeholder" ELSE a

\* What the facade makes of it: a web result echoed is shown as a list, of another
\* payload the word before it is removed, one that does not parse is not found.
Shown(says) ==
    CASE says = "echo_web" -> "results"
      [] says \in {"echo_other", "echo_broken"} -> "payload"
      [] OTHER -> says

ModelSays == {Recorded(a) : a \in Answers} \cup {"apology"}

\* Mutation of ModelAnswers: a provider's failure is shown to the user and not stored.
ApologyNotStored(x, says) ==
    /\ log' = [log EXCEPT ![session[x]] =
                  IF says = "apology" THEN @ ELSE Append(@, Row(x, "assistant", says))]
    /\ reply' = [reply EXCEPT ![x] = Shown(says)]
    /\ stage' = [stage EXCEPT ![x] = "done"]
    /\ prompt' = [prompt EXCEPT ![x] = "none"]
    /\ UNCHANGED <<policy, session, facts, faults, plan, poolVars>>

ModelAnswers(x, says) ==
    /\ log' = [log EXCEPT ![session[x]] = Append(@, Row(x, "assistant", says))]
    /\ reply' = [reply EXCEPT ![x] = Shown(says)]
    /\ stage' = [stage EXCEPT ![x] = "done"]
    /\ prompt' = [prompt EXCEPT ![x] = "none"]
    /\ UNCHANGED <<policy, session, facts, faults, plan, poolVars>>

AnswerLost(x, says) ==
    /\ faults < MaxFaults
    /\ faults' = faults + 1
    /\ \E kept \in {<<>>, <<Row(x, "assistant", says)>>} :
          log' = [log EXCEPT ![session[x]] = @ \o kept]
    /\ stage' = [stage EXCEPT ![x] = "failed"]
    /\ prompt' = [prompt EXCEPT ![x] = "none"]
    /\ UNCHANGED <<policy, session, facts, plan, poolVars, reply>>

-----------------------------------------------------------------------------
\* What a started exchange waits for: the model, or the tool and its time.
Proceed(x) ==
    \/ /\ stage[x] = "plan"
       /\ \E p \in PlannerChoices(session[x]) : PlannerChooses(x, p)
    \/ /\ stage[x] = "tool"
       /\ \E r \in {outcome[x], "timeout"} : ToolDone(x, r) \/ ToolRowFails(x, r) \/ ToolRowLost(x, r)
    \/ /\ stage[x] = "answer"
       /\ \E says \in ModelSays : ModelAnswers(x, says) \/ AnswerLost(x, says)

Next ==
    \E x \in Exchanges :
        \/ \E s \in Sessions, m \in Messages : Begin(x, s, m)
        \/ Proceed(x)
        \/ StartJob(x) \/ FinishJob(x)

Spec == Init /\ [][Next]_vars

\* The provider's calls end and wait_for's timer fires; no tool need ever start or end.
FairSpec == Spec /\ \A x \in Exchanges : WF_vars(Proceed(x))

-----------------------------------------------------------------------------
(* Properties                                                              *)

\* The two policies agree: whatever _plan_tool chooses, run_tool finds it known, available
\* and permitted, and nothing that is not for automatic selection is chosen except
\* server_execute for a session that may use it.  (The documents know no exception: see
\* AutoSelectableOnly.)
Permitted(s, p) ==
    /\ RunTool(s, p) \cap Refusals = {}
    /\ TOOLS[p.tool].auto \/ (p.tool = "server_execute" /\ CanUseServerExec(s))
PlansPermitted == \A x \in Exchanges : plan[x] # NoPlan => Permitted(session[x], plan[x])

\* docs/ARCHITECTURE.md:41: tool selection is limited to `auto_selectable` read-only tools.
AutoSelectableOnly == \A x \in Exchanges : plan[x] # NoPlan => TOOLS[plan[x].tool].auto

\* docs/AUDIT_STATUS.md:28: server execution is disabled unless session-authorized; here, a
\* script runs only for a session that may have scripts run.
ScriptsAuthorized ==
    \A x \in Exchanges : plan[x].safe_script /\ outcome[x] = "success" => Authorized(session[x])

\* The places in a log where a row of the exchange stands.
Own(rows, x) == {i \in DOMAIN rows : rows[i].ex = x}
ToolRows(rows, x) == {i \in Own(rows, x) : rows[i].role = "tool"}

\* What the model is told of the tool is what the last stored row of the tool says, and it is
\* told of a tool exactly when a row is stored, whichever of the tool, the timer and the
\* database ends the wait.
PromptTellsRow ==
    \A x \in Exchanges : stage[x] = "answer" =>
        LET rows == log[session[x]]
        IN \/ ToolRows(rows, x) = {} /\ prompt[x] = "none"
           \/ \E last \in ToolRows(rows, x) :
                 prompt[x] = rows[last].says /\ \A i \in ToolRows(rows, x) : i <= last

\* The prompt and the rows agree while every variable keeps its type.
PromptExact == TypeOK /\ PromptTellsRow

\* An exchange is answered with its question, the tool's rows and exactly one answer
\* stored, in this order, the one the user is shown something of.
AnsweredIsStored ==
    [][\A x \in Exchanges : stage[x] # "done" /\ stage'[x] = "done" =>
          LET rows == log'[session'[x]]
          IN \E first, last \in Own(rows, x) :
                /\ rows[first].role = "user"
                /\ rows[last].role = "assistant" /\ reply'[x] = Shown(rows[last].says)
                /\ first < last
                /\ \A i \in Own(rows, x) \ {first, last} :
                      first < i /\ i < last /\ rows[i].role = "tool"]_vars

\* When the user is told that something was forgotten it is gone, even if the same text
\* told it again, and with everything forgotten only the two rows that say so are left.
ForgottenIsGone ==
    [][\A m \in Messages : OwnAnswer(m) = "forgotten" =>
          \A x \in Exchanges, s \in Sessions : Answer(x, s, m) =>
              /\ \A f \in facts'[s] : m.forget \notin {"all", f[1]}
              /\ m.forget = "all" => \A i \in DOMAIN log'[s] : log'[s][i].ex = x]_vars

\* tests/test_agent.py:45-49: a name that was told is still in the prompt after a question for
\* it; so the words of no such question take its place.
NameOutlastsQuestion ==
    [][\A s \in Sessions : <<"name", "told">> \in facts[s] => <<"name", "asked">> \notin facts'[s]]_vars

\* A tool's function does not start after its exchange gave up waiting: only what was
\* already running goes on.
NoLateStart == [][\A x \in Exchanges : job'[x] = "running" /\ job[x] # "running" => stage[x] = "tool"]_vars

\* Every call of ask ends, although a tool may hang and with it every thread of the pool.
ExchangeEnds == \A x \in Exchanges : stage[x] # "new" ~> stage[x] \in {"done", "failed"}

\* The registry's and the planner's words for web_research: it reads the URL it is given
\* (tools/registry.py:54, core/agent_impl.py:50).
ResearchReadsUrl ==
    \A x \in Exchanges : plan[x] # NoPlan /\ plan[x].tool = "web_research" => outcome[x] # "arg-error"
=============================================================================
