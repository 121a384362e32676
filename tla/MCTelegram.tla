----------------------------- MODULE MCTelegram -----------------------------
(***************************************************************************)
(* The Telegram bot in one of the two ways it is run: it polls, or the     *)
(* webhook posts to it.  The two share no state, and a deployment has one. *)
(* Of the webhook, two updates of one chat, one of another, one of a       *)
(* refused sender.                                                         *)
(***************************************************************************)
EXTENDS TelegramWebhook, PollingBot

CONSTANTS u1, u2, u3, u4, home, group

MCChat == [u \in {u1, u2, u3, u4} |-> IF u = u3 THEN group ELSE home]

VARIABLE mode

MCVars == <<mode, vars, allVars>>

MCInit == mode \in {"polling", "webhook"} /\ BotInit /\ Init

Polling(A) == mode = "polling" /\ A /\ UNCHANGED <<mode, vars>>
Webhook(A) == mode = "webhook" /\ A /\ UNCHANGED <<mode, allVars>>

MCNext == Polling(BotNext) \/ Webhook(Next)

\* The fairness of the one or the other: the loop's, or that of every task.
MCSpec ==
    /\ MCInit /\ [][MCNext]_MCVars
    /\ \A t \in 1..MaxTasks :
          WF_MCVars(Polling(t = 1 /\ BotStep) \/ Webhook(t <= Len(tasks) /\ Step(t)))
=============================================================================
