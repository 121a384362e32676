------------------------- MODULE SmartChat_proofs -------------------------
(***************************************************************************)
(* What the web client's list of chats keeps, for any size of the list and *)
(* any number of chats and messages.                                       *)
(***************************************************************************)
EXTENDS SmartChat, SequenceTheorems, TLAPS

USE BoundsAssumption

\* The ids of a list are different, and of the first m chats made.
Sound(list, m) ==
    /\ list \in Seq(Chats) /\ Len(list) \in 1..MaxChats
    /\ \A i, j \in 1..Len(list) : list[i].id = list[j].id => i = j
    /\ \A i \in 1..Len(list) : list[i].id <= m

\* What a reply may store: the closure's list holds every chat with messages of the list there
\* is now, but for the chat that was sent; what it holds no more are chats that replaced others.
Closure(f) ==
    /\ f.chat \in Chats /\ f.number \in 1..MaxSent
    /\ Sound(f.list, made)
    /\ f.chat.id \in Ids(f.list)
    /\ Ids(chats) \subseteq Ids(f.list) \cup replacing
    /\ \A c \in ToSet(chats) :
           c.messages = <<>> \/ c = f.chat \/ (c.id # f.chat.id /\ c \in ToSet(f.list))

\* The inductive invariant.
IInv ==
    /\ ActiveExists
    /\ Sound(chats, made)
    /\ \A f \in flights : Closure(f)
    /\ \A f, g \in flights : f = g

\* What MessagesKept says of a step.
Kept == \A c \in ToSet(chats) :
            c.messages # <<>> => KeptIn(c, chats') \/ Clears(c) \/ MakesRoom(c)

-----------------------------------------------------------------------------
(* The list of chats                                                       *)

\* What is left of a sequence without its element at k.
LEMMA Removed ==
    ASSUME NEW S, NEW list \in Seq(S), NEW k \in 1..Len(list)
    PROVE  /\ RemoveAt(list, k) \in Seq(S) /\ Len(RemoveAt(list, k)) = Len(list) - 1
           /\ \A i \in 1..(Len(list) - 1) :
                  RemoveAt(list, k)[i] = IF i < k THEN list[i] ELSE list[i + 1]
<1> DEFINE before == SubSeq(list, 1, k - 1)
           after == SubSeq(list, k + 1, Len(list))
<1>1. k \in Int /\ Len(list) \in Nat /\ 1 <= k /\ k <= Len(list)
    OBVIOUS
<1>2. \A i \in 1..Len(list) : list[i] \in S
    OBVIOUS
<1>3. before \in Seq(S) /\ Len(before) = k - 1 /\ \A i \in 1..(k - 1) : before[i] = list[i]
    <2>1. \A i \in 1..(k - 1) : list[i] \in S
        BY <1>1, <1>2
    <2>2. /\ before \in Seq(S) /\ Len(before) = IF 1 <= k - 1 THEN (k - 1) - 1 + 1 ELSE 0
          /\ \A i \in 1..((k - 1) - 1 + 1) : before[i] = list[1 + i - 1]
        BY <1>1, <2>1, SubSeqProperties
    <2> HIDE DEF before
    <2> QED BY <1>1, <2>2
<1>4. /\ after \in Seq(S) /\ Len(after) = Len(list) - k
      /\ \A i \in 1..(Len(list) - k) : after[i] = list[i + k]
    <2>1. \A i \in (k + 1)..Len(list) : list[i] \in S
        BY <1>1, <1>2
    <2>2. /\ after \in Seq(S) /\ Len(after) = IF k + 1 <= Len(list) THEN Len(list) - (k + 1) + 1 ELSE 0
          /\ \A i \in 1..(Len(list) - (k + 1) + 1) : after[i] = list[(k + 1) + i - 1]
        BY <1>1, <2>1, SubSeqProperties
    <2> HIDE DEF after
    <2> QED BY <1>1, <2>2
<1>5. RemoveAt(list, k) = before \o after
    BY DEF RemoveAt
<1> HIDE DEF before, after
<1>6. /\ before \o after \in Seq(S) /\ Len(before \o after) = Len(before) + Len(after)
      /\ \A i \in 1..(Len(before) + Len(after)) :
             (before \o after)[i] = IF i <= Len(before) THEN before[i] ELSE after[i - Len(before)]
    BY <1>3, <1>4, ConcatProperties
<1>7. ASSUME NEW i \in 1..(Len(list) - 1)
      PROVE  (before \o after)[i] = IF i < k THEN list[i] ELSE list[i + 1]
    <2>1. CASE i < k
        <3>1. i \in 1..(k - 1) /\ i \in 1..(Len(before) + Len(after)) /\ i <= Len(before)
            BY <1>1, <1>3, <1>4, <2>1
        <3> QED BY <1>3, <1>6, <2>1, <3>1
    <2>2. CASE ~(i < k)
        <3>1. /\ i \in 1..(Len(before) + Len(after)) /\ ~(i <= Len(before))
              /\ i - Len(before) \in 1..(Len(list) - k) /\ (i - Len(before)) + k = i + 1
            BY <1>1, <1>3, <1>4, <2>2
        <3>2. (before \o after)[i] = after[i - Len(before)]
            BY <1>6, <3>1
        <3>3. after[i - Len(before)] = list[(i - Len(before)) + k]
            BY <1>4, <3>1
        <3> QED BY <2>2, <3>1, <3>2, <3>3
    <2> QED BY <2>1, <2>2
<1> QED BY <1>1, <1>3, <1>4, <1>5, <1>6, <1>7

\* What a sequence holds, with an element in front.
LEMMA InFront ==
    ASSUME NEW S, NEW list \in Seq(S), NEW x \in S
    PROVE  /\ <<x>> \o list \in Seq(S) /\ Len(<<x>> \o list) = Len(list) + 1
           /\ (<<x>> \o list)[1] = x
           /\ \A i \in 1..Len(list) : (<<x>> \o list)[i + 1] = list[i]
<1>1. <<x>> \in Seq(S) /\ Len(<<x>>) = 1 /\ <<x>>[1] = x
    OBVIOUS
<1> DEFINE one == <<x>>
<1>2. one \in Seq(S) /\ Len(one) = 1 /\ one[1] = x
    BY <1>1
<1> HIDE DEF one
<1>3. /\ one \o list \in Seq(S) /\ Len(one \o list) = Len(one) + Len(list)
      /\ \A i \in 1..(Len(one) + Len(list)) :
             (one \o list)[i] = IF i <= Len(one) THEN one[i] ELSE list[i - Len(one)]
    BY <1>2, ConcatProperties
<1>4. Len(list) \in Nat
    OBVIOUS
<1>5. \A i \in 1..Len(list) : (one \o list)[i + 1] = list[i]
    <2> SUFFICES ASSUME NEW i \in 1..Len(list) PROVE (one \o list)[i + 1] = list[i]
        OBVIOUS
    <2>1. i + 1 \in 1..(Len(one) + Len(list)) /\ ~(i + 1 <= Len(one)) /\ (i + 1) - Len(one) = i
        BY <1>2, <1>4
    <2> QED BY <1>3, <2>1
<1>6. (one \o list)[1] = x
    BY <1>2, <1>3, <1>4
<1> QED BY <1>2, <1>3, <1>4, <1>5, <1>6 DEF one

\* A list is a function on its places.
LEMMA ListFacts ==
    ASSUME NEW list \in Seq(Chats)
    PROVE  /\ Len(list) \in Nat /\ DOMAIN list = 1..Len(list)
           /\ \A i \in 1..Len(list) : list[i] \in Chats /\ list[i].id \in 1..MaxMade
           /\ ToSet(list) = {list[i] : i \in 1..Len(list)}
           /\ Ids(list) = {list[i].id : i \in 1..Len(list)}
<1> DEFINE C == Chats
<1>1. list \in Seq(C)
    OBVIOUS
<1> HIDE DEF C
<1>2. Len(list) \in Nat /\ DOMAIN list = 1..Len(list) /\ \A i \in 1..Len(list) : list[i] \in C
    BY <1>1
<1>3. \A c \in C : c.id \in 1..MaxMade
    BY DEF C, Chats
<1> QED BY <1>2, <1>3 DEF C, ToSet, Ids

\* Where the chat of an id is.
LEMMA PlaceFacts ==
    ASSUME NEW m, NEW list, Sound(list, m), NEW id \in Ids(list)
    PROVE  /\ Place(list, id) \in 1..Len(list) /\ list[Place(list, id)].id = id
           /\ ChatOf(list, id) = list[Place(list, id)]
<1>1. /\ DOMAIN list = 1..Len(list) /\ ToSet(list) = {list[i] : i \in 1..Len(list)}
      /\ Ids(list) = {list[i].id : i \in 1..Len(list)}
    BY ListFacts DEF Sound
<1>2. \E i \in DOMAIN list : list[i].id = id
    BY <1>1
<1>3. Place(list, id) \in DOMAIN list /\ list[Place(list, id)].id = id
    BY <1>2 DEF Place
<1>4. \A c \in ToSet(list) : c.id = id => c = list[Place(list, id)]
    BY <1>1, <1>3 DEF Sound
<1>5. ChatOf(list, id) \in ToSet(list) /\ ChatOf(list, id).id = id
    BY <1>1, <1>2 DEF ChatOf
<1> QED BY <1>1, <1>3, <1>4, <1>5

\* The list with a chat in the place of another.
LEMMA ReplacedFacts ==
    ASSUME NEW m \in Nat, NEW list, Sound(list, m), NEW id \in Ids(list), NEW c \in Chats,
           c.id = id \/ c.id \notin Ids(list), c.id <= m
    PROVE  /\ Sound(Replaced(list, id, c), m)
           /\ Len(Replaced(list, id, c)) = Len(list)
           /\ ToSet(Replaced(list, id, c)) = {c} \cup {d \in ToSet(list) : d.id # id}
<1> DEFINE k == Place(list, id)
           rest == RemoveAt(list, k)
           new == Replaced(list, id, c)
<1>1. /\ k \in 1..Len(list) /\ list[k].id = id
    BY PlaceFacts
<1>2. /\ Len(list) \in Nat /\ \A i \in 1..Len(list) : list[i] \in Chats
      /\ ToSet(list) = {list[i] : i \in 1..Len(list)}
      /\ Ids(list) = {list[i].id : i \in 1..Len(list)}
    BY ListFacts DEF Sound
<1>3. /\ rest \in Seq(Chats) /\ Len(rest) = Len(list) - 1
      /\ \A i \in 1..(Len(list) - 1) : rest[i] = IF i < k THEN list[i] ELSE list[i + 1]
    BY <1>1, Removed DEF Sound
<1>4. new = <<c>> \o rest
    BY DEF Replaced
<1> HIDE DEF rest, new, k
<1>5. /\ new \in Seq(Chats) /\ Len(new) = Len(list) /\ new[1] = c
      /\ \A i \in 1..(Len(list) - 1) : new[i + 1] = rest[i]
    BY <1>1, <1>3, <1>4, InFront
\* From places of the one list to places of the other.
<1>6. ASSUME NEW i \in 2..Len(list)
      PROVE  \E j \in 1..Len(list) : j # k /\ new[i] = list[j] /\ (j = i \/ j = i - 1) /\ (j = i <=> i > k)
    <2>1. i - 1 \in 1..(Len(list) - 1) /\ (i - 1) + 1 = i
        BY <1>2
    <2>2. new[i] = rest[i - 1]
        BY <1>5, <2>1
    <2>3. CASE i - 1 < k
        BY <1>1, <1>2, <1>3, <2>1, <2>2, <2>3
    <2>4. CASE ~(i - 1 < k)
        BY <1>1, <1>2, <1>3, <2>1, <2>2, <2>4
    <2> QED BY <2>3, <2>4
<1>7. ASSUME NEW j \in 1..Len(list), j # k
      PROVE  \E i \in 2..Len(list) : new[i] = list[j]
    <2>1. CASE j < k
        <3>1. j \in 1..(Len(list) - 1) /\ j + 1 \in 2..Len(list)
            BY <1>1, <1>2, <2>1
        <3>2. new[j + 1] = list[j]
            BY <1>3, <1>5, <2>1, <3>1
        <3> QED BY <3>1, <3>2
    <2>2. CASE ~(j < k)
        <3>1. j - 1 \in 1..(Len(list) - 1) /\ ~(j - 1 < k) /\ (j - 1) + 1 = j /\ j \in 2..Len(list)
            BY <1>1, <1>2, <1>7, <2>2
        <3>2. new[(j - 1) + 1] = list[(j - 1) + 1]
            BY <1>3, <1>5, <3>1
        <3> QED BY <3>1, <3>2
    <2> QED BY <2>1, <2>2
<1>8. \A i, j \in 1..Len(list) : list[i].id = list[j].id => i = j
    BY DEF Sound
<1>9. \A i \in 2..Len(list) : new[i].id # id /\ new[i].id # c.id /\ new[i] \in ToSet(list)
    BY <1>1, <1>2, <1>6, <1>8
<1>10. ToSet(new) = {c} \cup {d \in ToSet(list) : d.id # id}
    <2>1. ToSet(new) = {new[i] : i \in 1..Len(list)}
        BY <1>5, ListFacts
    <2>2. 1..Len(list) = {1} \cup 2..Len(list)
        BY <1>1, <1>2
    <2>3. ASSUME NEW d \in ToSet(list), d.id # id PROVE \E i \in 2..Len(list) : new[i] = d
        BY <1>1, <1>2, <1>7, <2>3
    <2> QED BY <1>5, <1>9, <2>1, <2>2, <2>3
<1>11. ASSUME NEW i \in 1..Len(list), NEW j \in 1..Len(list), new[i].id = new[j].id PROVE i = j
    <2>1. i = 1 \/ i \in 2..Len(list)
        OBVIOUS
    <2>2. j = 1 \/ j \in 2..Len(list)
        OBVIOUS
    <2>3. CASE i = 1 /\ j \in 2..Len(list)
        BY <1>5, <1>9, <1>11, <2>3
    <2>4. CASE j = 1 /\ i \in 2..Len(list)
        BY <1>5, <1>9, <1>11, <2>4
    <2>5. CASE i \in 2..Len(list) /\ j \in 2..Len(list)
        <3>1. PICK a \in 1..Len(list) : new[i] = list[a] /\ a # k /\ (a = i \/ a = i - 1) /\ (a = i <=> i > k)
            BY <1>6, <2>5
        <3>2. PICK b \in 1..Len(list) : new[j] = list[b] /\ b # k /\ (b = j \/ b = j - 1) /\ (b = j <=> j > k)
            BY <1>6, <2>5
        <3>3. a = b
            BY <1>8, <1>11, <3>1, <3>2
        <3> QED BY <1>1, <1>2, <3>1, <3>2, <3>3
    <2> QED BY <2>1, <2>2, <2>3, <2>4, <2>5
<1>12. \A i \in 1..Len(list) : new[i].id <= m
    <2>1. \A d \in ToSet(list) : d.id <= m
        BY <1>2 DEF Sound
    <2> QED BY <1>5, <1>9, <2>1
<1> QED BY <1>2, <1>5, <1>10, <1>11, <1>12 DEF Sound, new

-----------------------------------------------------------------------------
(* What is stored                                                          *)

\* A list within the limit is stored as it is.
LEMMA Stored ==
    ASSUME NEW m, NEW list, Sound(list, m), Persist(list)
    PROVE  chats' = list /\ stored' = list
<1>1. list \in Seq(Chats) /\ Len(list) \in Nat /\ Len(list) <= MaxChats
    BY DEF Sound
<1>2. SubSeq(list, 1, Len(list)) = list
    BY <1>1, SubSeqFull
<1>3. (IF Len(list) < MaxChats THEN Len(list) ELSE MaxChats) = Len(list)
    BY <1>1
<1> QED BY <1>2, <1>3 DEF Persist

\* A new chat in front; at the limit the last chat goes.
LEMMA StoredWithNew ==
    ASSUME Sound(chats, made), made \in 1..MaxMade, made < MaxMade,
           Persist(<<EmptyChat(made + 1)>> \o chats)
    PROVE  /\ Sound(chats', made + 1) /\ stored' = chats'
           /\ made + 1 \in Ids(chats')
           /\ \A i \in 1..Len(chats) : i < MaxChats => chats[i] \in ToSet(chats')
<1> DEFINE new == EmptyChat(made + 1)
           all == <<new>> \o chats
           last == IF Len(all) < MaxChats THEN Len(all) ELSE MaxChats
           cut == SubSeq(all, 1, last)
<1>1. new \in Chats /\ new.id = made + 1
    <2>1. <<>> \in Seq(Messages)
        OBVIOUS
    <2> QED BY <2>1 DEF EmptyChat, Chats
<1>2. /\ chats \in Seq(Chats) /\ Len(chats) \in 1..MaxChats
      /\ \A i \in 1..Len(chats) : chats[i] \in Chats /\ chats[i].id <= made /\ chats[i].id \in Nat
      /\ \A i, j \in 1..Len(chats) : chats[i].id = chats[j].id => i = j
    <2>1. chats \in Seq(Chats)
        BY DEF Sound
    <2>2. \A i \in 1..Len(chats) : chats[i] \in Chats /\ chats[i].id \in 1..MaxMade
        BY <2>1, ListFacts
    <2> QED BY <2>1, <2>2 DEF Sound
<1>3. chats' = cut /\ stored' = chats'
    BY DEF Persist
<1> HIDE DEF new
<1>4. /\ all \in Seq(Chats) /\ Len(all) = Len(chats) + 1 /\ all[1] = new
      /\ \A i \in 1..Len(chats) : all[i + 1] = chats[i]
    BY <1>1, <1>2, InFront
<1> HIDE DEF all
<1>5. last \in 1..MaxChats /\ last <= Len(all) /\ (last < MaxChats => last = Len(all))
    BY <1>2, <1>4
<1> HIDE DEF last
<1>6. cut \in Seq(Chats) /\ Len(cut) = last /\ \A i \in 1..last : cut[i] = all[i]
    <2>1. \A i \in 1..last : all[i] \in Chats
        BY <1>4, <1>5
    <2>2. /\ cut \in Seq(Chats) /\ Len(cut) = IF 1 <= last THEN last - 1 + 1 ELSE 0
          /\ \A i \in 1..(last - 1 + 1) : cut[i] = all[1 + i - 1]
        BY <1>5, <2>1, SubSeqProperties
    <2> HIDE DEF cut
    <2> QED BY <1>5, <2>2
<1> HIDE DEF cut
<1>7. ASSUME NEW i \in 1..last
      PROVE  i = 1 \/ (i - 1 \in 1..Len(chats) /\ cut[i] = chats[i - 1])
    <2>1. CASE i # 1
        <3>1. i - 1 \in 1..Len(chats) /\ (i - 1) + 1 = i
            BY <1>2, <1>4, <1>5, <2>1
        <3> QED BY <1>4, <1>6, <3>1
    <2> QED BY <2>1
<1>8. 1 \in 1..last /\ cut[1] = new
    BY <1>4, <1>5, <1>6
<1>9. ASSUME NEW i \in 1..Len(chats), i < MaxChats PROVE i + 1 \in 1..last /\ cut[i + 1] = chats[i]
    <2>1. i + 1 \in 1..last
        BY <1>2, <1>4, <1>5, <1>9
    <2> QED BY <1>4, <1>6, <2>1
<1>10. Sound(cut, made + 1)
    <2>1. \A i \in 1..last : cut[i].id <= made + 1
        BY <1>1, <1>2, <1>7, <1>8
    <2>2. ASSUME NEW i \in 1..last, NEW j \in 1..last, cut[i].id = cut[j].id PROVE i = j
        <3>1. CASE i = 1 /\ j # 1
            BY <1>1, <1>2, <1>7, <1>8, <2>2, <3>1
        <3>2. CASE j = 1 /\ i # 1
            BY <1>1, <1>2, <1>7, <1>8, <2>2, <3>2
        <3>3. CASE i # 1 /\ j # 1
            <4>1. i - 1 \in 1..Len(chats) /\ cut[i] = chats[i - 1] /\ j - 1 \in 1..Len(chats) /\ cut[j] = chats[j - 1]
                BY <1>7, <3>3
            <4>2. i - 1 = j - 1
                BY <1>2, <2>2, <4>1
            <4> QED BY <4>2
        <3> QED BY <3>1, <3>2, <3>3
    <2> QED BY <1>5, <1>6, <2>1, <2>2 DEF Sound
<1>11. ToSet(cut) = {cut[i] : i \in 1..last} /\ Ids(cut) = {cut[i].id : i \in 1..last}
    BY <1>6, ListFacts
<1> QED BY <1>1, <1>3, <1>8, <1>9, <1>10, <1>11

-----------------------------------------------------------------------------
(* What a chat keeps                                                       *)

\* A chat that stays as it is.
LEMMA KeptAsIs == ASSUME NEW list, NEW c \in ToSet(list) PROVE KeptIn(c, list)
BY DEF KeptIn, IsPrefix

\* A chat to which a message is added.
LEMMA Grown ==
    ASSUME NEW c \in Chats, NEW x \in Messages
    PROVE  LET d == [c EXCEPT !.messages = Append(@, x)]
           IN d \in Chats /\ d.id = c.id /\ \A list : d \in ToSet(list) => KeptIn(c, list)
<1> DEFINE M == Messages
           old == c.messages
           new == Append(old, x)
           d == [c EXCEPT !.messages = new]
<1>1. c.id \in 1..MaxMade /\ old \in Seq(M) /\ c = [id |-> c.id, messages |-> old]
    BY DEF Chats
<1> HIDE DEF M, old
<1>2. new \in Seq(M) /\ Len(new) = Len(old) + 1 /\ Len(old) \in Nat /\ \A i \in 1..Len(old) : new[i] = old[i]
    BY <1>1 DEF M
<1>3. SubSeq(new, 1, Len(old)) = SubSeq(old, 1, Len(old))
    <2>1. old = SubSeq(old, 1, Len(old))
        BY <1>1, SubSeqFull
    <2>2. new = old \o <<x>> /\ <<x>> \in Seq(M)
        BY <1>1 DEF M
    <2> HIDE DEF new
    <2>3. CASE old = <<>>
        <3>1. Len(old) = 0
            BY <2>3
        <3> QED BY <3>1, SubSeqEmpty
    <2>4. CASE old # <<>>
        <3>1. 1 \in 1..Len(old) /\ Len(old) \in 1..Len(old)
            BY <1>1, <1>2, <2>4
        <3>2. SubSeq(old \o <<x>>, 1, Len(old)) = SubSeq(old, 1, Len(old))
            BY <1>1, <2>2, <3>1, SubSeqOfConcat1
        <3> QED BY <2>2, <3>2
    <2> QED BY <2>3, <2>4
<1> HIDE DEF new
<1>4. d.messages = new /\ d.id = c.id
    BY <1>1
<1>5. d \in Chats
    BY <1>1, <1>2 DEF Chats, M
<1>6. IsPrefix(c.messages, d.messages)
    BY <1>2, <1>3, <1>4 DEF IsPrefix, old
<1> HIDE DEF d
<1>7. \A list : d \in ToSet(list) => KeptIn(c, list)
    BY <1>4, <1>6 DEF KeptIn
<1>8. [c EXCEPT !.messages = Append(@, x)] = d
    BY DEF d, new, old
<1> QED BY <1>4, <1>5, <1>7, <1>8

-----------------------------------------------------------------------------
(* The steps                                                               *)

LEMMA Types ==
    ASSUME IInv
    PROVE  /\ chats \in Seq(Chats) /\ made \in 1..MaxMade /\ sent \in 0..MaxSent
           /\ activeId \in 1..MaxMade /\ replacing \subseteq 1..MaxMade
           /\ Sound(chats, made) /\ Ids(chats) \subseteq 1..made
           /\ stored = chats /\ activeId \in Ids(chats) \cup replacing
<1>1. /\ chats \in Seq(Chats) /\ Sound(chats, made) /\ made \in 1..MaxMade
    BY DEF IInv, ActiveExists, TabTypeOK
<1>2. Ids(chats) \subseteq 1..made
    BY <1>1, ListFacts DEF Sound
<1> QED BY <1>1, <1>2 DEF IInv, ActiveExists, TabTypeOK

\* Of an id there is one chat, and the ids are those of the chats.
LEMMA OneOfAnId ==
    ASSUME NEW m, NEW list, Sound(list, m), NEW c \in ToSet(list), NEW d \in ToSet(list), c.id = d.id
    PROVE  c = d
BY ListFacts DEF Sound

LEMMA SetOfIds == ASSUME NEW m, NEW list, Sound(list, m) PROVE Ids(list) = {c.id : c \in ToSet(list)}
BY ListFacts DEF Sound

\* Later chats do not matter to a list.
LEMMA SoundLater ==
    ASSUME NEW m \in Nat, NEW n \in Nat, m <= n, NEW list, Sound(list, m)
    PROVE  Sound(list, n)
<1>1. \A i \in 1..Len(list) : list[i].id \in Nat
    BY ListFacts DEF Sound
<1> QED BY <1>1 DEF Sound

\* What the type invariant says of a list that is sound.
LEMMA SoundTypes ==
    ASSUME NEW m, NEW list, Sound(list, m)
    PROVE  /\ list \in Seq(Chats) /\ Len(list) <= MaxChats
           /\ IsInjective([i \in DOMAIN list |-> list[i].id])
<1>1. list \in Seq(Chats) /\ Len(list) <= MaxChats
    BY DEF Sound
<1>2. DOMAIN list = 1..Len(list)
    BY <1>1, ListFacts
<1> QED BY <1>1, <1>2 DEF Sound, IsInjective

LEMMA InitInv == TabInit => IInv
<1> SUFFICES ASSUME TabInit PROVE IInv
    OBVIOUS
<1> DEFINE new == EmptyChat(1)
<1>1. new \in Chats /\ new.id = 1
    <2>1. <<>> \in Seq(Messages)
        OBVIOUS
    <2> QED BY <2>1 DEF EmptyChat, Chats
<1>2. chats = <<new>>
    BY DEF TabInit
<1> HIDE DEF new
<1>3. chats \in Seq(Chats) /\ Len(chats) = 1 /\ chats[1] = new
    BY <1>1, <1>2
<1>4. Sound(chats, 1)
    BY <1>1, <1>3 DEF Sound
<1>5. 1 \in Ids(chats)
    BY <1>1, <1>3, ListFacts
<1>6. /\ Len(chats) <= MaxChats /\ IsInjective([i \in DOMAIN chats |-> chats[i].id])
    BY <1>4, SoundTypes
<1>7. TabTypeOK
    <2>1. stored = chats /\ activeId = 1 /\ loading = FALSE /\ flights = {} /\ made = 1 /\ sent = 0
          /\ replacing = {}
        BY DEF TabInit
    <2>2. \A f \in flights : f.chat \in Chats /\ f.list \in Seq(Chats) /\ f.number \in 1..MaxSent
        BY <2>1
    <2>3. activeId \in 1..MaxMade /\ made \in 1..MaxMade /\ sent \in 0..MaxSent
        BY <2>1
    <2>4. replacing \subseteq 1..MaxMade /\ loading \in BOOLEAN /\ stored \in Seq(Chats)
        BY <1>3, <2>1
    <2> HIDE BoundsAssumption
    <2> QED BY <1>3, <1>6, <2>2, <2>3, <2>4 DEF TabTypeOK
<1> QED BY <1>4, <1>5, <1>7 DEF TabInit, IInv, ActiveExists

LEMMA SendStep == ASSUME IInv, Send PROVE IInv' /\ Kept
<1> DEFINE old == ChatOf(chats, activeId)
           x == <<sent + 1, "user">>
           new == [old EXCEPT !.messages = Append(@, x)]
           list == Replaced(chats, activeId, new)
           f == [chat |-> new, list |-> chats, number |-> sent + 1]
<1>1. /\ activeId \in Ids(chats) /\ ~loading /\ sent < MaxSent /\ sent' = sent + 1
      /\ Persist(list) /\ flights' = flights \cup {f} /\ loading' = TRUE
      /\ UNCHANGED <<activeId, made, replacing>>
    BY DEF Send, Sendable
<1>2. flights = {}
    BY <1>1 DEF IInv, ActiveExists
<1>3. old \in Chats /\ old.id = activeId /\ old \in ToSet(chats)
    BY <1>1, Types, ListFacts, PlaceFacts
<1>4. x \in Messages
    BY <1>1, Types DEF Messages
<1> HIDE DEF x, old
<1>5. new \in Chats /\ new.id = activeId /\ \A l : new \in ToSet(l) => KeptIn(old, l)
    BY <1>3, <1>4, Grown
<1> HIDE DEF new
<1>6. /\ Sound(list, made)
      /\ ToSet(list) = {new} \cup {d \in ToSet(chats) : d.id # activeId}
    <2>1. made \in Nat /\ new.id <= made
        BY <1>1, <1>5, Types
    <2> QED BY <1>1, <1>5, <2>1, Types, ReplacedFacts
<1>7. Ids(list) = Ids(chats)
    BY <1>1, <1>5, <1>6, Types, SetOfIds
<1> HIDE DEF list
<1>8. chats' = list /\ stored' = list
    BY <1>1, <1>6, Stored
<1>9. flights' = {f} /\ f.chat = new /\ f.list = chats /\ f.number = sent + 1
    BY <1>1, <1>2
<1> HIDE DEF f
<1>10. ActiveExists'
    <2>1. /\ chats' \in Seq(Chats) /\ stored' \in Seq(Chats) /\ Len(chats') <= MaxChats
          /\ IsInjective([i \in DOMAIN chats' |-> chats'[i].id])
        BY <1>6, <1>8, SoundTypes
    <2>2. TabTypeOK'
        BY <1>1, <1>5, <1>9, <2>1, Types DEF TabTypeOK
    <2> QED BY <1>1, <1>7, <1>8, <1>9, <2>2 DEF ActiveExists
<1>11. \A g \in flights' : Closure(g)'
    <2> SUFFICES ASSUME NEW g, g = f PROVE Closure(g)'
        BY <1>9
    <2>1. made' = made /\ chats' = list /\ replacing' = replacing
        BY <1>1, <1>8
    <2>2. /\ g.chat \in Chats /\ g.number \in 1..MaxSent /\ Sound(g.list, made)
          /\ g.chat.id \in Ids(g.list) /\ Ids(list) \subseteq Ids(g.list)
        BY <1>1, <1>5, <1>7, <1>9, Types
    <2>3. \A c \in ToSet(list) : c = g.chat \/ (c.id # g.chat.id /\ c \in ToSet(g.list))
        BY <1>5, <1>6, <1>9
    <2> QED BY <2>1, <2>2, <2>3 DEF Closure
<1>12. Kept
    <2> SUFFICES ASSUME NEW c \in ToSet(chats) PROVE KeptIn(c, chats')
        BY DEF Kept
    <2>1. CASE c.id = activeId
        BY <1>1, <1>3, <1>5, <1>6, <1>8, <2>1, Types, OneOfAnId
    <2>2. CASE c.id # activeId
        BY <1>6, <1>8, <2>2, KeptAsIs
    <2> QED BY <2>1, <2>2
<1> QED BY <1>1, <1>6, <1>8, <1>9, <1>10, <1>11, <1>12 DEF IInv

\* A reply to f: nothing else is under way, so no message was added meanwhile.
LEMMA ReplyStep == ASSUME IInv, NEW f \in flights, Reply(f) PROVE IInv' /\ Kept
<1> DEFINE x == <<f.number, "assistant">>
           final == [f.chat EXCEPT !.messages = Append(@, x)]
           list == Replaced(f.list, final.id, final)
<1>1. /\ Persist(list) /\ flights' = flights \ {f} /\ loading' = FALSE
      /\ UNCHANGED <<activeId, made, sent, replacing>>
    BY DEF Reply
<1>2. flights' = {}
    BY <1>1 DEF IInv
<1>3. Closure(f)
    BY DEF IInv
<1>4. x \in Messages
    BY <1>3 DEF Closure, Messages
<1> HIDE DEF x
<1>5. /\ final \in Chats /\ final.id = f.chat.id
      /\ \A l : final \in ToSet(l) => KeptIn(f.chat, l)
    BY <1>3, <1>4, Grown DEF Closure
<1> HIDE DEF final
<1>6. /\ Sound(list, made) /\ ToSet(list) = {final} \cup {d \in ToSet(f.list) : d.id # f.chat.id}
    <2>1. Sound(f.list, made) /\ final.id \in Ids(f.list)
        BY <1>3, <1>5 DEF Closure
    <2>2. made \in Nat /\ final.id <= made
        <3>1. made \in Nat /\ f.list \in Seq(Chats) /\ \A i \in 1..Len(f.list) : f.list[i].id <= made
            BY <2>1, Types DEF Sound
        <3> QED BY <2>1, <3>1, ListFacts
    <2> QED BY <1>5, <2>1, <2>2, ReplacedFacts
<1>7. Ids(list) = Ids(f.list)
    <2>1. Ids(list) = {c.id : c \in ToSet(list)} /\ Ids(f.list) = {c.id : c \in ToSet(f.list)}
        BY <1>3, <1>6, SetOfIds DEF Closure
    <2> QED BY <1>3, <1>5, <1>6, <2>1 DEF Closure
<1> HIDE DEF list
<1>8. chats' = list /\ stored' = list
    BY <1>6, <1>1, Stored
<1>9. activeId \in Ids(list) \cup replacing
    BY <1>3, <1>7, Types DEF Closure
<1>10. ActiveExists'
    <2>1. /\ chats' \in Seq(Chats) /\ stored' \in Seq(Chats) /\ Len(chats') <= MaxChats
          /\ IsInjective([i \in DOMAIN chats' |-> chats'[i].id])
        BY <1>6, <1>8, SoundTypes
    <2>2. TabTypeOK'
        BY <1>1, <1>2, <2>1, Types DEF TabTypeOK
    <2> QED BY <1>1, <1>2, <1>8, <1>9, <2>2 DEF ActiveExists
<1>11. Kept
    <2> SUFFICES ASSUME NEW c \in ToSet(chats), c.messages # <<>> PROVE KeptIn(c, chats')
        BY DEF Kept
    <2>1. CASE c = f.chat
        BY <1>5, <1>6, <1>8, <2>1
    <2>2. CASE c # f.chat
        <3>1. c \in ToSet(list)
            BY <1>3, <1>6, <2>2 DEF Closure
        <3> QED BY <1>8, <3>1, KeptAsIs
    <2> QED BY <2>1, <2>2
<1> QED BY <1>1, <1>2, <1>6, <1>8, <1>10, <1>11 DEF IInv

\* Where the list stays, every chat is kept.
LEMMA SameList == ASSUME chats' = chats PROVE Kept
BY KeptAsIs DEF Kept

LEMMA FailStep == ASSUME IInv, NEW f \in flights, Fail(f) PROVE IInv' /\ Kept
<1>1. /\ flights' = {} /\ loading' = FALSE
      /\ UNCHANGED <<chats, stored, activeId, made, sent, replacing>>
    BY DEF Fail, listVars, IInv
<1>2. ActiveExists'
    BY <1>1 DEF IInv, ActiveExists, TabTypeOK
<1> QED BY <1>1, <1>2, SameList DEF IInv

LEMMA SelectStep == ASSUME IInv, NEW id \in 1..MaxMade, SelectChat(id) PROVE IInv' /\ Kept
<1>1. /\ id \in Ids(chats) /\ activeId' = id
      /\ UNCHANGED <<chats, stored, loading, flights, made, sent, replacing>>
    BY DEF SelectChat, listVars
<1>2. ActiveExists'
    BY <1>1 DEF IInv, ActiveExists, TabTypeOK, Ids
<1>3. \A f \in flights' : Closure(f)'
    BY <1>1 DEF IInv, Closure, Ids
<1> QED BY <1>1, <1>2, <1>3, SameList DEF IInv

LEMMA ReloadStep == ASSUME IInv, Reload PROVE IInv' /\ Kept
<1>1. /\ chats' = chats /\ stored' = chats /\ activeId' = Head(chats).id
      /\ flights' = {} /\ loading' = FALSE
      /\ UNCHANGED <<made, sent, replacing>>
    BY Types DEF Reload
<1>2. Head(chats).id \in Ids(chats) /\ Head(chats).id \in 1..MaxMade
    <2>1. Sound(chats, made) /\ chats \in Seq(Chats)
        BY Types
    <2>2. 1 \in 1..Len(chats) /\ Head(chats) = chats[1]
        BY <2>1 DEF Sound
    <2> QED BY <2>1, <2>2, ListFacts
<1>3. ActiveExists'
    BY <1>1, <1>2 DEF IInv, ActiveExists, TabTypeOK, Ids
<1> QED BY <1>1, <1>3, SameList DEF IInv

LEMMA CreateStep == ASSUME IInv, CreateChat PROVE IInv' /\ Kept
<1>1. /\ made < MaxMade /\ made' = made + 1 /\ activeId' = made + 1 /\ flights' = {} /\ loading' = FALSE
      /\ Persist(<<EmptyChat(made + 1)>> \o chats)
      /\ UNCHANGED <<sent, replacing>>
    BY DEF CreateChat
<1>2. /\ Sound(chats', made') /\ stored' = chats' /\ activeId' \in Ids(chats')
      /\ \A i \in 1..Len(chats) : i < MaxChats => chats[i] \in ToSet(chats')
    BY <1>1, Types, StoredWithNew
<1>3. ActiveExists'
    <2>1. /\ chats' \in Seq(Chats) /\ Len(chats') <= MaxChats
          /\ IsInjective([i \in DOMAIN chats' |-> chats'[i].id])
        BY <1>2, SoundTypes
    <2>2. made' \in 1..MaxMade
        BY <1>1, Types
    <2>3. TabTypeOK'
        BY <1>1, <1>2, <2>1, <2>2, Types DEF TabTypeOK
    <2> QED BY <1>1, <1>2, <2>3 DEF ActiveExists
<1>4. Kept
    <2> SUFFICES ASSUME NEW i \in 1..Len(chats) PROVE KeptIn(chats[i], chats') \/ MakesRoom(chats[i])
        BY Types, ListFacts DEF Kept
    <2>1. CASE i < MaxChats
        BY <1>2, <2>1, KeptAsIs
    <2>2. CASE ~(i < MaxChats)
        <3>1. i = MaxChats /\ Len(chats) = MaxChats
            BY <2>2, Types DEF Sound
        <3> QED BY <1>1, <3>1, Types DEF MakesRoom
    <2> QED BY <2>1, <2>2
<1> QED BY <1>1, <1>2, <1>3, <1>4 DEF IInv

\* Clearing a chat while another's reply is awaited leaves the closures what they were.
LEMMA ClearStep == ASSUME IInv, ClearChat PROVE IInv' /\ Kept
<1> DEFINE new == EmptyChat(made + 1)
           list == Replaced(chats, activeId, new)
<1>1. /\ activeId \in Ids(chats) /\ made < MaxMade /\ made' = made + 1 /\ activeId' = made + 1
      /\ Persist(list)
      /\ replacing' = replacing \cup {made + 1}
      /\ UNCHANGED <<loading, flights, sent>>
    BY DEF ClearChat
<1>2. new \in Chats /\ new.id = made + 1 /\ new.messages = <<>> /\ made + 1 \in 1..MaxMade
    <2>1. <<>> \in Seq(Messages)
        OBVIOUS
    <2> QED BY <1>1, <2>1, Types DEF EmptyChat, Chats
<1> HIDE DEF new
<1>3. Sound(chats, made + 1) /\ made + 1 \notin Ids(chats)
    BY Types, SoundLater
<1>4. /\ Sound(list, made + 1) /\ ToSet(list) = {new} \cup {d \in ToSet(chats) : d.id # activeId}
    <2>1. made + 1 \in Nat /\ new.id <= made + 1
        BY <1>2
    <2> QED BY <1>1, <1>2, <1>3, <2>1, ReplacedFacts
<1>5. made + 1 \in Ids(list) /\ Ids(list) \subseteq Ids(chats) \cup {made + 1}
    <2>1. Ids(list) = {c.id : c \in ToSet(list)} /\ Ids(chats) = {c.id : c \in ToSet(chats)}
        BY <1>3, <1>4, SetOfIds
    <2> QED BY <1>2, <1>4, <2>1
<1> HIDE DEF list
<1>6. chats' = list /\ stored' = list
    BY <1>1, <1>4, Stored
<1>7. \A f \in flights' : Closure(f)'
    <2> SUFFICES ASSUME NEW f \in flights PROVE Closure(f)'
        BY <1>1
    <2>1. Closure(f)
        BY DEF IInv
    <2>2. Sound(f.list, made + 1)
        BY <1>2, <2>1, Types, SoundLater DEF Closure
    <2>3. Ids(list) \subseteq Ids(f.list) \cup replacing'
        BY <1>1, <1>5, <2>1 DEF Closure
    <2>4. \A c \in ToSet(list) : c.messages = <<>> \/ c = f.chat \/ (c.id # f.chat.id /\ c \in ToSet(f.list))
        BY <1>2, <1>4, <2>1 DEF Closure
    <2> QED BY <1>1, <1>6, <2>1, <2>2, <2>3, <2>4 DEF Closure
<1>8. ActiveExists'
    <2>1. /\ chats' \in Seq(Chats) /\ stored' \in Seq(Chats) /\ Len(chats') <= MaxChats
          /\ IsInjective([i \in DOMAIN chats' |-> chats'[i].id])
        BY <1>4, <1>6, SoundTypes
    <2>2. TabTypeOK'
        <3>1. flights' = flights /\ \A f \in flights : f.chat \in Chats /\ f.list \in Seq(Chats) /\ f.number \in 1..MaxSent
            BY <1>1 DEF IInv, ActiveExists, TabTypeOK
        <3>2. loading' \in BOOLEAN
            BY <1>1 DEF IInv, ActiveExists, TabTypeOK
        <3> QED BY <1>1, <1>2, <2>1, <3>1, <3>2, Types DEF TabTypeOK
    <2>3. loading' <=> flights' # {}
        BY <1>1 DEF IInv, ActiveExists
    <2> QED BY <1>1, <1>5, <1>6, <2>2, <2>3 DEF ActiveExists
<1>9. Kept
    <2> SUFFICES ASSUME NEW c \in ToSet(chats) PROVE KeptIn(c, chats') \/ Clears(c)
        BY DEF Kept
    <2>1. CASE c.id = activeId
        <3>1. made' > made
            BY <1>1, Types
        <3> QED BY <1>1, <2>1, <3>1 DEF Clears
    <2>2. CASE c.id # activeId
        BY <1>4, <1>6, <2>2, KeptAsIs
    <2> QED BY <2>1, <2>2
<1> QED BY <1>1, <1>4, <1>6, <1>7, <1>8, <1>9 DEF IInv

LEMMA NextStep == IInv /\ [TabNext]_tabVars => IInv' /\ (Kept \/ UNCHANGED tabVars)
<1> SUFFICES ASSUME IInv, [TabNext]_tabVars PROVE IInv' /\ (Kept \/ UNCHANGED tabVars)
    OBVIOUS
<1>1. CASE Send
    BY <1>1, SendStep
<1>2. CASE CreateChat
    BY <1>2, CreateStep
<1>3. CASE ClearChat
    BY <1>3, ClearStep
<1>4. CASE Reload
    BY <1>4, ReloadStep
<1>5. ASSUME NEW f \in flights, Reply(f) PROVE IInv' /\ Kept
    BY <1>5, ReplyStep
<1>6. ASSUME NEW f \in flights, Fail(f) PROVE IInv' /\ Kept
    BY <1>6, FailStep
<1>7. ASSUME NEW id \in 1..MaxMade, SelectChat(id) PROVE IInv' /\ Kept
    BY <1>7, SelectStep
<1>8. CASE UNCHANGED tabVars
    <2>1. IInv'
        BY <1>8 DEF tabVars, IInv, ActiveExists, TabTypeOK, Closure, Ids
    <2> QED BY <1>8, <2>1
<1> QED BY <1>1, <1>2, <1>3, <1>4, <1>5, <1>6, <1>7, <1>8 DEF TabNext

\* The list is sound and every request under way can store it without losing a message.
THEOREM ListInvariant == TabSpec => []IInv
<1>1. IInv /\ [TabNext]_tabVars => IInv'
    BY NextStep
<1> QED BY InitInv, <1>1, PTL DEF TabSpec

\* ActiveExists: the active chat is in the list, what is stored is the list, and only a chat that replaced
\* a cleared one may be missing.
THEOREM ActiveStaysInList == TabSpec => []ActiveExists
<1>1. IInv => ActiveExists
    BY DEF IInv
<1> QED BY <1>1, ListInvariant, PTL

\* MessagesKept: no step, not even a late reply, takes a message from a chat, except from
\* the one the user clears in it and from the oldest at the limit.
THEOREM MessagesAreKept == TabSpec => MessagesKept
<1>1. IInv /\ [TabNext]_tabVars
      => [\A c \in ToSet(chats) :
              c.messages # <<>> => KeptIn(c, chats') \/ Clears(c) \/ MakesRoom(c)]_tabVars
    BY NextStep DEF Kept
<1> QED BY <1>1, ListInvariant, PTL DEF TabSpec, MessagesKept
=============================================================================
