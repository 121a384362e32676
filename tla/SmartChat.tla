----------------------------- MODULE SmartChat -----------------------------
(***************************************************************************)
(* components/smart-chat.tsx: the list of chats of one browser tab and its *)
(* copy in localStorage.  send is a closure over the list of the render in *)
(* which it was called; when the reply comes it stores that list, with the *)
(* reply added, whatever was done to the chats meanwhile.                  *)
(***************************************************************************)
EXTENDS Naturals, Sequences, SequencesExt

CONSTANTS
    MaxChats,  \* MAX_LOCAL_CHATS, 30 in the code
    MaxMade,   \* bound on the chats made
    MaxSent    \* bound on the messages sent

ASSUME BoundsAssumption == MaxChats \in Nat \ {0} /\ MaxMade \in Nat \ {0} /\ MaxSent \in Nat

VARIABLES
    chats,     \* the tab's list, the one changed last first
    stored,    \* what localStorage has
    activeId,
    loading,
    flights,   \* the requests under way, each with what its closure holds
    made,      \* chats made so far; their ids are numbers
    sent,      \* messages sent so far
    replacing  \* the ids of the chats that clearing put in their place

listVars == <<chats, stored>>
tabVars == <<chats, stored, activeId, loading, flights, made, sent, replacing>>

\* A message is its number and who wrote it.
Messages == (1..MaxSent) \X {"user", "assistant"}
Chats == [id : 1..MaxMade, messages : Seq(Messages)]
EmptyChat(id) == [id |-> id, messages |-> <<>>]

Ids(list) == {list[i].id : i \in DOMAIN list}
ChatOf(list, id) == CHOOSE chat \in ToSet(list) : chat.id = id

TabTypeOK ==
    /\ chats \in Seq(Chats) /\ stored \in Seq(Chats)
    /\ Len(chats) <= MaxChats /\ IsInjective([i \in DOMAIN chats |-> chats[i].id])
    /\ activeId \in 1..MaxMade
    /\ loading \in BOOLEAN
    /\ \A f \in flights : f.chat \in Chats /\ f.list \in Seq(Chats) /\ f.number \in 1..MaxSent
    /\ made \in 1..MaxMade /\ sent \in 0..MaxSent
    /\ replacing \subseteq 1..MaxMade

\* Nothing is stored yet: one empty chat.
TabInit ==
    /\ chats = <<EmptyChat(1)>> /\ stored = chats
    /\ activeId = 1
    /\ loading = FALSE
    /\ flights = {}
    /\ made = 1 /\ sent = 0
    /\ replacing = {}

-----------------------------------------------------------------------------
\* persist: the list in the order of its last changes, cut off at the limit.
Persist(list) ==
    /\ chats' = SubSeq(list, 1, IF Len(list) < MaxChats THEN Len(list) ELSE MaxChats)
    /\ stored' = chats'

\* The list with chat instead of the one with that id, and first since changed last.
Place(list, id) == CHOOSE i \in DOMAIN list : list[i].id = id
Replaced(list, id, chat) == <<chat>> \o RemoveAt(list, Place(list, id))

\* Mutation of Sendable: a message may be sent while another is under way.
SendableAlways == activeId \in Ids(chats)

Sendable == ~loading /\ activeId \in Ids(chats)

Send ==
    /\ Sendable
    /\ sent < MaxSent
    /\ sent' = sent + 1
    /\ LET old == ChatOf(chats, activeId)
           new == [old EXCEPT !.messages = Append(@, <<sent + 1, "user">>)]
       IN /\ Persist(Replaced(chats, activeId, new))
          /\ flights' = flights \cup {[chat |-> new, list |-> chats, number |-> sent + 1]}
    /\ loading' = TRUE
    /\ UNCHANGED <<activeId, made, replacing>>

\* The reply comes: the list of the closure is stored with it.
Reply(f) ==
    /\ f \in flights
    /\ LET final == [f.chat EXCEPT !.messages = Append(@, <<f.number, "assistant">>)]
       IN Persist(Replaced(f.list, final.id, final))
    /\ flights' = flights \ {f}
    /\ loading' = FALSE
    /\ UNCHANGED <<activeId, made, sent, replacing>>

\* The request fails, or the user stops it.
Fail(f) ==
    /\ f \in flights
    /\ flights' = flights \ {f}
    /\ loading' = FALSE
    /\ UNCHANGED <<listVars, activeId, made, sent, replacing>>

\* Mutation of CreateChat: the request under way is not aborted.
CreateBeside ==
    /\ made < MaxMade
    /\ made' = made + 1
    /\ Persist(<<EmptyChat(made + 1)>> \o chats)
    /\ activeId' = made + 1
    /\ UNCHANGED <<flights, loading, sent, replacing>>

\* createChat aborts the request under way.
CreateChat ==
    /\ made < MaxMade
    /\ made' = made + 1
    /\ Persist(<<EmptyChat(made + 1)>> \o chats)
    /\ activeId' = made + 1
    /\ flights' = {} /\ loading' = FALSE
    /\ UNCHANGED <<sent, replacing>>

SelectChat(id) ==
    /\ id \in Ids(chats) \ {activeId}
    /\ activeId' = id
    /\ UNCHANGED <<listVars, loading, flights, made, sent, replacing>>

\* clearChat leaves a request under way alone.
ClearChat ==
    /\ activeId \in Ids(chats)
    /\ made < MaxMade
    /\ made' = made + 1
    /\ Persist(Replaced(chats, activeId, EmptyChat(made + 1)))
    /\ activeId' = made + 1
    /\ replacing' = replacing \cup {made + 1}
    /\ UNCHANGED <<loading, flights, sent>>

\* The page is loaded again, from what is stored.
Reload ==
    /\ chats' = stored
    /\ activeId' = Head(stored).id
    /\ flights' = {} /\ loading' = FALSE
    /\ UNCHANGED <<stored, made, sent, replacing>>

TabNext ==
    \/ Send \/ CreateChat \/ ClearChat \/ Reload
    \/ \E f \in flights : Reply(f) \/ Fail(f)
    \/ \E id \in 1..MaxMade : SelectChat(id)

TabSpec == TabInit /\ [][TabNext]_tabVars

-----------------------------------------------------------------------------
(* Correctness                                                             *)

\* Chat c is in a list with all its messages.
KeptIn(c, list) == \E d \in ToSet(list) : d.id = c.id /\ IsPrefix(c.messages, d.messages)

\* c makes room for a new chat.
MakesRoom(c) == made' > made /\ Len(chats) = MaxChats /\ c = chats[MaxChats]

\* c is the chat that the user clears.
Clears(c) == c.id = activeId /\ made' > made /\ activeId' \in replacing'

\* No step, not even a reply that stores an old list or a reload, takes a message from a chat:
\* it goes only in the step in which the user clears the chat, or when the chat is the oldest
\* at the limit.  What a late reply may undo is a clearing, and the chat it drops then is empty.
MessagesKept ==
    [][\A c \in ToSet(chats) :
           c.messages # <<>> => KeptIn(c, chats') \/ Clears(c) \/ MakesRoom(c)]_tabVars

\* The active chat is in the list, and the list is what is stored; only a chat that was put
\* in the place of a cleared one may be missing, after a late reply.
ActiveExists ==
    /\ TabTypeOK
    /\ stored = chats
    /\ activeId \in Ids(chats) \cup replacing
    /\ loading <=> flights # {}
=============================================================================
