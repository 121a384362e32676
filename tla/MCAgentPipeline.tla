-------------------------- MODULE MCAgentPipeline --------------------------
(* Two exchanges of one or of two sessions, in four configurations.        *)
EXTENDS AgentPipeline

CONSTANTS s1, s2

\* AUTO_TOOLS also names what is not for automatic selection: the metadata must hold.
MCAuto == {"shell", "ping", "battery", "notify", "server_diagnostics", "unknown"}
Policy(profile, enabled, listed) ==
    [profile |-> profile, auto |-> MCAuto, execEnabled |-> enabled, execSessions |-> {s1},
     execListed |-> listed, safeScripts |-> listed]
MCPolicies ==
    {Policy("local", TRUE, TRUE), Policy("device", FALSE, TRUE),
     Policy("server", TRUE, TRUE), Policy("server", TRUE, FALSE)}

Text == [NoText EXCEPT !.bad = FALSE]
Fast(tool, args) == [Text EXCEPT !.fast = [tool |-> tool, args |-> args, safe_script |-> FALSE], !.signals = TRUE]
MCMessages == {
    NoText,
    [Text EXCEPT !.tells = {"name"}, !.asksName = TRUE, !.query = TRUE],
    [Text EXCEPT !.tells = {"name"}, !.asksName = TRUE],
    [Text EXCEPT !.tells = {"name"}, !.forget = "name"],
    [Text EXCEPT !.tells = {"note"}, !.forget = "all"],
    [Text EXCEPT !.tells = {"name"}, !.identity = TRUE, !.forget = "all"],
    [Text EXCEPT !.signals = TRUE],
    Fast("web_research", {"url"}),
    Fast("battery", {})}

MCPlannerArgs == {{}, {"host"}, {"operation", "script"}}
MCAnswers == {"empty", "echo_other"}
=============================================================================
