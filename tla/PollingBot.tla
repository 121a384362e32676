----------------------------- MODULE PollingBot -----------------------------
(***************************************************************************)
(* interfaces/telegram_bot.py: the long-polling bot and the Bot API server *)
(* it talks to.  Updates are numbered 1, 2, ... as they arrive.  The       *)
(* server forgets the updates below the offset of a getUpdates call and    *)
(* returns the rest; the bot keeps its offset in memory and handles one    *)
(* update after the other.  A request may fail before or after the server  *)
(* acted on it, and the bot may die at any point.                          *)
(***************************************************************************)
EXTENDS Naturals, Sequences, FiniteSets

CONSTANTS
    MaxUpdates,         \* bound on the updates that arrive
    MaxMessages,        \* bound on the messages one answer is cut into
    Attempts,           \* len(RETRY_DELAYS) + 1, 4 in the code
    MaxFailedRequests,  \* bound on requests that fail
    MaxCrashes          \* bound on the deaths of the process

ASSUME LimitsAssumption ==
    /\ MaxUpdates \in Nat /\ MaxFailedRequests \in Nat /\ MaxCrashes \in Nat
    /\ MaxMessages \in Nat \ {0} /\ Attempts \in Nat \ {0}

VARIABLES
    kind,       \* kind of the updates that arrived
    confirmed,  \* server: updates below this one are forgotten
    sent,       \* server: the messages users got, in order
    offset,     \* bot: offset of the next getUpdates
    batch,      \* bot: updates of the last getUpdates not yet handled
    stage,      \* bot: what the loop is doing
    parts,      \* bot: number of messages of the answer being sent
    part,       \* bot: the message being sent
    tries,      \* bot: failed attempts of the request under way
    asks,       \* how often each update was given to the agent; without end, and not
                \* counted, when its user is sent nothing
    failed, crashes

botVars == <<offset, batch, stage, parts, part, tries>>
allVars == <<kind, confirmed, sent, botVars, asks, failed, crashes>>

\* skip: no text, no chat, or a chat that is not allowed. long: over MAX_INPUT.
\* blocked: as ask, of a user the server refuses messages to.
Kinds == {"skip", "long", "ask", "blocked"}
Asking == {"ask", "blocked"}
UpdateIds == 1..MaxUpdates
Arrived == Len(kind)

Messages == [upd : UpdateIds, ask : Nat, part : 1..MaxMessages, of : 1..MaxMessages]

BotTypeOK ==
    /\ kind \in Seq(Kinds) /\ Len(kind) <= MaxUpdates
    /\ confirmed \in 0..(Arrived + 1)
    /\ sent \in Seq(Messages)
    /\ offset \in 0..(Arrived + 1)
    /\ batch \in Seq(1..Arrived)
    /\ stage \in {"poll", "look", "send", "backoff"}
    /\ stage \in {"look", "send"} => batch # <<>>
    /\ parts \in 1..MaxMessages /\ part \in 1..parts
    /\ tries \in 0..(Attempts - 1)
    /\ asks \in [UpdateIds -> Nat]
    /\ failed \in 0..MaxFailedRequests /\ crashes \in 0..MaxCrashes

BotInit ==
    /\ kind = <<>> /\ confirmed = 0 /\ sent = <<>>
    /\ offset = 0 /\ batch = <<>> /\ stage = "poll"
    /\ parts = 1 /\ part = 1 /\ tries = 0
    /\ asks = [u \in UpdateIds |-> 0]
    /\ failed = 0 /\ crashes = 0

\* A user writes: the server has one more update.
Arrive(k) ==
    /\ Arrived < MaxUpdates
    /\ kind' = Append(kind, k)
    /\ UNCHANGED <<confirmed, sent, botVars, asks, failed, crashes>>

-----------------------------------------------------------------------------
(* _request                                                                *)

Larger(m, n) == IF m > n THEN m ELSE n

\* An attempt fails.  It is repeated after a delay while attempts are left; otherwise,
\* or when the server says `"ok": false`, the exception reaches the loop.
AttemptFails ==
    /\ failed < MaxFailedRequests
    /\ failed' = failed + 1
    /\ \/ /\ tries + 1 < Attempts
          /\ tries' = tries + 1
          /\ UNCHANGED stage
       \/ /\ stage' = "backoff"
          /\ tries' = 0

-----------------------------------------------------------------------------
(* getUpdates                                                              *)

Confirm == confirmed' = Larger(confirmed, offset)

\* The updates the server still has from offset o on.
Available(o) ==
    LET first == Larger(1, Larger(confirmed, o))
    IN [i \in 1..((Arrived + 1) - first) |-> first + i - 1]

Poll ==
    /\ stage = "poll"
    /\ Confirm
    /\ batch' = Available(offset)
    /\ stage' = IF batch' = <<>> THEN "poll" ELSE "look"
    /\ tries' = 0
    /\ UNCHANGED <<kind, sent, offset, parts, part, asks, failed, crashes>>

\* The server may have confirmed updates although its answer did not arrive.
PollFails ==
    /\ stage = "poll"
    /\ Confirm \/ UNCHANGED confirmed
    /\ AttemptFails
    /\ UNCHANGED <<kind, sent, offset, batch, parts, part, asks, crashes>>

-----------------------------------------------------------------------------
(* The loop over the updates                                               *)

Current == Head(batch)

\* Mutation of Advance and SkipAdvances: the offset does not move.
ForgetOffset ==
    /\ batch' = Tail(batch)
    /\ stage' = IF Tail(batch) = <<>> THEN "poll" ELSE "look"
    /\ UNCHANGED offset

\* `offset = max(offset, update_id + 1)`, and on to the next update or getUpdates.
Advance ==
    /\ offset' = Larger(offset, Current + 1)
    /\ batch' = Tail(batch)
    /\ stage' = IF Tail(batch) = <<>> THEN "poll" ELSE "look"

SkipAdvances == Advance

Skip ==
    /\ stage = "look" /\ kind[Current] = "skip"
    /\ SkipAdvances
    /\ UNCHANGED <<kind, confirmed, sent, parts, part, tries, asks, failed, crashes>>

\* Too long: one message says so.
Refuse ==
    /\ stage = "look" /\ kind[Current] = "long"
    /\ stage' = "send"
    /\ parts' = 1 /\ part' = 1
    /\ UNCHANGED <<kind, confirmed, sent, offset, batch, tries, asks, failed, crashes>>

\* Mutation of OffsetBeforeSend: the offset moves when the agent has answered.
OffsetEarly == offset' = Larger(offset, Current + 1)

OffsetBeforeSend == UNCHANGED offset

\* The agent answers, or fails and an apology takes the place of its answer; the text
\* is cut into messages of MAX_OUTPUT characters.
Ask ==
    /\ stage = "look" /\ kind[Current] \in Asking
    /\ stage' = "send"
    /\ parts' \in 1..MaxMessages /\ part' = 1
    /\ asks' = IF kind[Current] = "blocked" THEN asks ELSE [asks EXCEPT ![Current] = @ + 1]
    /\ OffsetBeforeSend
    /\ UNCHANGED <<kind, confirmed, sent, batch, tries, failed, crashes>>

\* The agent cannot be created: its database cannot be opened.
NoAgent ==
    /\ stage = "look" /\ kind[Current] \in Asking
    /\ failed < MaxFailedRequests
    /\ failed' = failed + 1
    /\ stage' = "backoff"
    /\ UNCHANGED <<kind, confirmed, sent, offset, batch, parts, part, tries, asks, crashes>>

Deliver ==
    sent' = Append(sent, [upd |-> Current, ask |-> asks[Current], part |-> part, of |-> parts])

\* A message arrives and the bot learns it: the next one, or the next update.
SendPart ==
    /\ stage = "send" /\ kind[Current] # "blocked"
    /\ Deliver
    /\ tries' = 0
    /\ IF part < parts
       THEN part' = part + 1 /\ UNCHANGED <<offset, batch, stage, parts>>
       ELSE Advance /\ part' = 1 /\ parts' = 1
    /\ UNCHANGED <<kind, confirmed, asks, failed, crashes>>

\* A message does not arrive, or arrives and the bot does not learn it.
SendPartFails ==
    /\ stage = "send" /\ kind[Current] # "blocked"
    /\ Deliver \/ UNCHANGED sent
    /\ AttemptFails
    /\ UNCHANGED <<kind, confirmed, offset, batch, parts, part, asks, crashes>>

\* Every attempt to send to this user is refused, and the exception reaches the loop.
SendRefused ==
    /\ stage = "send" /\ kind[Current] = "blocked"
    /\ stage' = "backoff"
    /\ tries' = 0
    /\ UNCHANGED <<kind, confirmed, sent, offset, batch, parts, part, asks, failed, crashes>>

\* Mutation of KeepOffset: the failed update counts as handled.
SkipFailed == offset' = IF batch = <<>> THEN offset ELSE Larger(offset, Current + 1)

KeepOffset == UNCHANGED offset

\* Two seconds later: getUpdates with the offset as it is, the batch is dropped.
Backoff ==
    /\ stage = "backoff"
    /\ KeepOffset
    /\ stage' = "poll" /\ batch' = <<>> /\ parts' = 1 /\ part' = 1
    /\ UNCHANGED <<kind, confirmed, sent, tries, asks, failed, crashes>>

\* The process dies and starts again with offset 0.
Crash ==
    /\ crashes < MaxCrashes
    /\ crashes' = crashes + 1
    /\ offset' = 0 /\ batch' = <<>> /\ stage' = "poll"
    /\ parts' = 1 /\ part' = 1 /\ tries' = 0
    /\ UNCHANGED <<kind, confirmed, sent, asks, failed>>

BotStep == Poll \/ Skip \/ Refuse \/ Ask \/ SendPart \/ SendRefused \/ Backoff

BotNext == (\E k \in Kinds : Arrive(k)) \/ BotStep \/ PollFails \/ NoAgent \/ SendPartFails \/ Crash

BotSpec == BotInit /\ [][BotNext]_allVars

\* The loop runs as long as the process does, and requests that fail do so after a
\* timeout: the bot never stays where it is.
BotFairness == WF_allVars(BotStep)

BotFairSpec == BotSpec /\ BotFairness

-----------------------------------------------------------------------------
(* Correctness                                                             *)

PartsSent(u, a) == {sent[i].part : i \in {j \in 1..Len(sent) : sent[j].upd = u /\ sent[j].ask = a}}

\* The user of update u got one answer in full (or u gets none).
Handled(u) ==
    \/ kind[u] = "skip"
    \/ \E i \in 1..Len(sent) :
           sent[i].upd = u /\ PartsSent(u, sent[i].ask) = 1..sent[i].of

\* The server forgets an update only after its user got one complete answer to it,
\* whatever fails and whenever the bot dies.  An update whose answer is refused is
\* therefore never confirmed, nor is any later one of whatever user.
NoUpdateLost == \A u \in 1..Arrived : u < confirmed => Handled(u)

\* No user gets a message for an update before every earlier update was handled.
FirstInOrder ==
    \A i \in 1..Len(sent) : \A u \in 1..(sent[i].upd - 1) :
        \/ kind[u] = "skip"
        \/ \E a \in 0..asks[u] : \E j \in 1..(i - 1) :
               sent[j].upd = u /\ sent[j].ask = a /\ sent[j].part = sent[j].of

\* The messages of one answer arrive in order, each at least once before the next.
PartsInOrder ==
    \A i \in 1..Len(sent) : sent[i].part > 1 =>
        \E j \in 1..(i - 1) :
            /\ sent[j].upd = sent[i].upd /\ sent[j].ask = sent[i].ask
            /\ sent[j].part = sent[i].part - 1

\* Whatever is asked and sent again, no message overtakes another.
SentInOrder == BotTypeOK /\ FirstInOrder /\ PartsInOrder

\* When requests stop failing, every update is handled and confirmed that does not wait
\* behind one whose user the server refuses messages to.
EveryUpdateConfirmed ==
    \A u \in UpdateIds :
        u <= Arrived /\ (\A v \in 1..u : kind[v] # "blocked") ~> u < confirmed
=============================================================================
