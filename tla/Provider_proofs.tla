-------------------------- MODULE Provider_proofs --------------------------
(***************************************************************************)
(* For all configured names, numbers of retries and statuses: the posts of *)
(* a call are bounded, what ends a model's turn or the call is never       *)
(* appealed, a call fails only with its last post, and it is one pass over *)
(* distinct models, the abstract ModelFallback.                            *)
(***************************************************************************)
EXTENDS Provider, SequenceTheorems, TLAPS

Answered == {"ok", "invalid_api_key", "invalid_response"}

PostSet == (1..Len(models)) \X (Codes \cup {"ok"})

\* The model asked is one of the call's, which are all different; before the call there is none.
Place ==
    /\ models = <<>> => posts = <<>> /\ index = 0 /\ phase \in {"idle", "done"}
    /\ models # <<>> => index \in 1..Len(models) /\ phase # "idle"
    /\ phase = "idle" => result = "none" /\ attempt = 0
    /\ \A i, j \in 1..Len(models) : models[i] = models[j] => i = j

\* n posts went to the model asked, one after the other, and the others before them.
Turn(n) ==
    /\ n \in 0..Len(posts)
    /\ \A a \in 1..Len(posts) : a > Len(posts) - n => posts[a][1] = index
    /\ \A a \in 1..Len(posts) : a <= Len(posts) - n => posts[a][1] < index

\* The posts are those of the attempts so far, the last one too when the next is waited for
\* and when the call has ended.
Attempts ==
    /\ phase = "posting" => Turn(attempt)
    /\ phase = "backoff" => Turn(attempt + 1) /\ attempt < MaxRetries

\* What the last post came to.
LastCode == posts[Len(posts)][2]

\* While a call goes on no post had an answer, and the last one is why there is another.
Reason ==
    /\ phase \in {"posting", "backoff"} => \A a \in 1..Len(posts) : posts[a][2] \notin Answered
    /\ phase = "posting" /\ attempt > 0 => Retryable(LastCode)
    /\ phase = "backoff" => Retryable(LastCode)

IInv ==
    /\ TypeOK /\ posts \in Seq(PostSet) /\ preferred # <<>>
    /\ Place /\ Attempts /\ Reason
    /\ PostsBounded /\ VerdictsStand /\ FailsLast

USE RetriesAssumption

-----------------------------------------------------------------------------
(* The models of a call                                                    *)

\* What Candidates leaves: at least one name, at most as many as were configured, all different.
LEMMA CandidatesFit ==
    ASSUME NEW seq \in Seq(Models), Len(seq) \in 1..(MaxFallbacks + 1), NEW c \in Candidates(seq)
    PROVE  /\ c \in BoundedSeq(Models, MaxFallbacks + 1) /\ c # <<>> /\ Len(c) \in Nat
           /\ 1 \in 1..Len(c) /\ Len(c) <= MaxFallbacks + 1
           /\ \A i, j \in 1..Len(c) : c[i] = c[j] => i = j
<1>1. /\ c \in BoundedSeq(Models, Len(seq)) /\ ToSet(c) = ToSet(seq)
      /\ \A i, j \in 1..Len(c) : i < j =>
            \E p \in 1..Len(seq) : seq[p] = c[i] /\ \A q \in 1..p : seq[q] # c[j]
  BY DEF Candidates
<1>2. PICK n \in 0..Len(seq) : c \in [1..n -> Models]
  BY <1>1 DEF BoundedSeq, SeqOf
<1>3. c \in Seq(Models) /\ Len(c) = n
  <2>1. c \in Seq(Models)
    BY <1>2, SeqDef
  <2> QED
    BY <1>2, <2>1
<1>4. c \in BoundedSeq(Models, MaxFallbacks + 1)
  BY <1>2 DEF BoundedSeq, SeqOf
<1>5. Len(c) # 0
  <2>1. 1 \in DOMAIN seq
    OBVIOUS
  <2>2. seq[1] \in ToSet(c)
    BY <1>1, <2>1 DEF ToSet
  <2>3. DOMAIN c # {}
    BY <2>2 DEF ToSet
  <2> QED
    BY <1>2, <1>3, <2>3
<1>6. \A i, j \in 1..Len(c) : i < j => c[i] # c[j]
  <2>1. \A p \in 1..Len(seq) : p \in 1..p
    OBVIOUS
  <2> QED
    BY <1>1, <2>1
<1>7. \A i, j \in 1..Len(c) : c[i] = c[j] => i = j
  <2>1. \A i, j \in 1..Len(c) : i < j \/ j < i \/ i = j
    BY <1>3
  <2> QED
    BY <1>6, <2>1
<1> QED
  BY <1>3, <1>4, <1>5, <1>7

\* A sequence of bounded length is a sequence.
LEMMA BoundedIsSeq ==
    ASSUME NEW S, NEW n \in Nat, NEW c \in BoundedSeq(S, n)
    PROVE  c \in Seq(S) /\ Len(c) \in 0..n
<1>1. PICK m \in 0..n : c \in [1..m -> S]
  BY DEF BoundedSeq, SeqOf
<1>2. c \in Seq(S)
  BY <1>1, SeqDef
<1> QED
  BY <1>1, <1>2

\* A post comes to a code or to an answer.
LEMMA PostCodesFit == PostCodes \subseteq Codes \cup {"ok"} /\ Codes \cup {"ok"} \subseteq Results
<1>1. \A s \in Statuses : StatusCode(s) \in Codes
  BY DEF StatusCode, Codes
<1> QED
  BY <1>1 DEF PostCodes, Codes, Results

-----------------------------------------------------------------------------
(* The steps                                                               *)

\* The initial states: nothing was asked.
LEMMA InitInvariant == Init => IInv
<1> SUFFICES ASSUME Init PROVE IInv
  OBVIOUS
<1>1. models = <<>> /\ posts = <<>> /\ index = 0 /\ phase = "idle" /\ attempt = 0 /\ result = "none"
  BY DEF Init
<1>2. preferred \in BoundedSeq(Models, MaxFallbacks + 1) /\ preferred # <<>>
  <2>1. PICK m \in Models, f \in BoundedSeq(Models, MaxFallbacks) : preferred = <<m>> \o f
    BY DEF Init
  <2>2. f \in Seq(Models) /\ Len(f) \in 0..MaxFallbacks
    BY BoundedIsSeq
  <2>3. <<m>> \in Seq(Models) /\ Len(<<m>>) = 1
    OBVIOUS
  <2>4. preferred \in Seq(Models) /\ Len(preferred) = 1 + Len(f)
    BY <2>1, <2>2, <2>3, ConcatProperties
  <2>5. preferred \in [1..Len(preferred) -> Models] /\ Len(preferred) \in 0..(MaxFallbacks + 1)
    BY <2>2, <2>4, LenProperties
  <2>6. preferred # <<>>
    BY <2>2, <2>4
  <2> QED
    BY <2>5, <2>6 DEF BoundedSeq, SeqOf
<1>3. <<>> \in BoundedSeq(Models, MaxFallbacks + 1)
  <2>1. <<>> \in [1..0 -> Models] /\ 0 \in 0..(MaxFallbacks + 1)
    OBVIOUS
  <2> QED
    BY <2>1 DEF BoundedSeq, SeqOf
<1>4. \A x \in 1..Len(<<>>) : FALSE
  OBVIOUS
<1>5. configured \in BOOLEAN
  BY DEF Init
<1>6. TypeOK
  BY <1>1, <1>2, <1>3, <1>4, <1>5 DEF TypeOK, Results
<1>7. Place /\ Attempts /\ Reason
  BY <1>1, <1>4 DEF Place, Attempts, Reason
<1>8. PostsBounded /\ VerdictsStand /\ FailsLast
  BY <1>1, <1>4 DEF PostsBounded, VerdictsStand, LastToModel, LastOfCall, FailsLast
<1> QED
  BY <1>1, <1>2, <1>6, <1>7, <1>8 DEF IInv

\* The call begins, with models or without a key.
LEMMA BeginKeeps == ASSUME IInv, Begin PROVE IInv'
<1>1. /\ phase = "idle" /\ UNCHANGED <<configured, preferred, attempt, posts>>
      /\ TypeOK /\ preferred # <<>> /\ posts \in Seq(PostSet)
  BY DEF Begin, IInv
<1>2. models = <<>> /\ posts = <<>> /\ index = 0 /\ attempt = 0 /\ result = "none"
  BY <1>1 DEF IInv, Place
<1>3. \A x \in 1..Len(<<>>) : FALSE
  OBVIOUS
<1>4. Len(<<>>) = 0
  OBVIOUS
<1>5. posts' = <<>> /\ posts' \in Seq(PostSet') /\ attempt' = 0
  BY <1>1, <1>2
<1>6. PostsBounded' /\ VerdictsStand' /\ FailsLast'
  BY <1>3, <1>5 DEF PostsBounded, PostsTo, VerdictsStand, LastToModel, LastOfCall, FailsLast
<1>7. CASE ~configured
  <2>1. phase' = "done" /\ result' = "configuration" /\ models' = <<>> /\ index' = 0
    BY <1>2, <1>7 DEF Begin, Finish
  <2>2. TypeOK'
    <3>1. models' \in BoundedSeq(Models, MaxFallbacks + 1) /\ 0 \in 0..(MaxFallbacks + 1)
      BY <1>1, <1>2, <2>1 DEF TypeOK
    <3>2. \A i \in 1..Len(posts') : FALSE
      BY <1>3, <1>5
    <3>3. "configuration" \in Results
      BY DEF Results
    <3> QED
      BY <1>1, <2>1, <3>1, <3>2, <3>3 DEF TypeOK
  <2>3. Place' /\ Attempts' /\ Reason'
    BY <1>3, <1>5, <2>1 DEF Place, Attempts, Reason
  <2> QED
    BY <1>1, <1>5, <1>6, <2>2, <2>3 DEF IInv
<1>8. CASE configured
  <2>1. models' \in Candidates(preferred) /\ index' = 1 /\ phase' = "posting" /\ result' = result
    BY <1>8 DEF Begin
  <2>2. preferred \in Seq(Models) /\ Len(preferred) \in 1..(MaxFallbacks + 1)
    <3>1. preferred \in Seq(Models) /\ Len(preferred) \in 0..(MaxFallbacks + 1)
      BY <1>1, BoundedIsSeq DEF TypeOK
    <3> QED
      BY <1>1, <3>1
  <2>3. /\ models' \in BoundedSeq(Models, MaxFallbacks + 1) /\ models' # <<>>
        /\ 1 \in 1..Len(models') /\ \A i, j \in 1..Len(models') : models'[i] = models'[j] => i = j
    BY <2>1, <2>2, CandidatesFit
  <2>4. TypeOK'
    BY <1>1, <1>3, <1>5, <2>1, <2>3 DEF TypeOK
  <2>5. Place'
    BY <2>1, <2>3 DEF Place
  <2>6. Attempts'
    BY <1>3, <1>4, <1>5, <2>1 DEF Attempts, Turn
  <2>7. Reason'
    BY <1>3, <1>5, <2>1 DEF Reason
  <2> QED
    BY <1>1, <1>5, <1>6, <2>4, <2>5, <2>6, <2>7 DEF IInv
<1> QED
  BY <1>7, <1>8

\* One post more.
LEMMA PostsGrow ==
    ASSUME IInv, phase = "posting", NEW code \in PostCodes, posts' = Append(posts, <<index, code>>)
    PROVE  /\ posts' \in Seq(PostSet) /\ Len(posts) \in Nat /\ Len(posts') = Len(posts) + 1
           /\ \A a \in 1..Len(posts) : posts'[a] = posts[a] /\ posts[a][1] \in Nat
           /\ posts'[Len(posts) + 1] = <<index, code>>
           /\ \A a \in 1..(Len(posts) + 1) : a \in 1..Len(posts) \/ a = Len(posts) + 1
           /\ index \in 1..Len(models) /\ Len(models) \in Nat /\ Len(models) <= MaxFallbacks + 1
<1>1. models \in Seq(Models) /\ Len(models) \in 0..(MaxFallbacks + 1)
  BY BoundedIsSeq DEF IInv, TypeOK
<1>2. index \in 1..Len(models)
  BY DEF IInv, Place
<1>3. <<index, code>> \in PostSet
  BY <1>2, PostCodesFit DEF PostSet
<1>4. posts \in Seq(PostSet)
  BY DEF IInv
<1> DEFINE S == PostSet
           e == <<index, code>>
<1>5. posts \in Seq(S) /\ e \in S /\ posts' = Append(posts, e)
  BY <1>3, <1>4
<1>6. \A p \in S : p[1] \in 1..Len(models)
  BY DEF PostSet
<1> HIDE DEF S, e
<1>7. /\ posts' \in Seq(S) /\ Len(posts) \in Nat /\ Len(posts') = Len(posts) + 1
      /\ \A a \in 1..Len(posts) : posts'[a] = posts[a] /\ posts[a] \in S
      /\ posts'[Len(posts) + 1] = e
  <2>1. /\ Append(posts, e) \in Seq(S) /\ Len(Append(posts, e)) = Len(posts) + 1
        /\ \A a \in 1..Len(posts) : Append(posts, e)[a] = posts[a]
        /\ Append(posts, e)[Len(posts) + 1] = e
    BY <1>5, AppendProperties
  <2>2. Len(posts) \in Nat /\ \A a \in 1..Len(posts) : posts[a] \in S
    BY <1>5
  <2> QED
    BY <1>5, <2>1, <2>2, Zenon
<1>8. \A a \in 1..(Len(posts) + 1) : a \in 1..Len(posts) \/ a = Len(posts) + 1
  BY <1>7
<1>9. \A a \in 1..Len(posts) : posts[a][1] \in Nat
  BY <1>1, <1>6, <1>7
<1> QED
  BY <1>1, <1>2, <1>7, <1>8, <1>9 DEF S, e

\* Another post to the model asked comes right behind its others.
LEMMA PostBounded ==
    ASSUME IInv, phase = "posting", NEW code \in PostCodes, posts' = Append(posts, <<index, code>>),
           models' = models
    PROVE  PostsBounded'
<1>1. /\ Len(posts) \in Nat /\ Len(posts') = Len(posts) + 1
      /\ \A a \in 1..Len(posts) : posts'[a] = posts[a] /\ posts[a][1] \in Nat
      /\ posts'[Len(posts) + 1][1] = index
      /\ \A a \in 1..(Len(posts) + 1) : a \in 1..Len(posts) \/ a = Len(posts) + 1
      /\ index \in Nat
  BY PostsGrow
<1>2. /\ attempt \in 0..MaxRetries /\ attempt <= Len(posts)
      /\ \A a \in 1..Len(posts) : a > Len(posts) - attempt => posts[a][1] = index
      /\ \A a \in 1..Len(posts) : a <= Len(posts) - attempt => posts[a][1] < index
  BY DEF IInv, TypeOK, Attempts, Turn
<1> SUFFICES ASSUME NEW i \in 1..Len(models), NEW a \in 1..(Len(posts) + 1), NEW b \in 1..(Len(posts) + 1),
                    posts'[a][1] = i, posts'[b][1] = i
             PROVE  b - a <= MaxRetries /\ \A n \in a..b : posts'[n][1] = i
  BY <1>1 DEF PostsBounded, PostsTo
<1>3. CASE a = Len(posts) + 1
  BY <1>1, <1>3
<1>4. CASE a \in 1..Len(posts) /\ b \in 1..Len(posts)
  <2>1. posts[a][1] = i /\ posts[b][1] = i
    BY <1>1, <1>4
  <2>2. b - a <= MaxRetries /\ \A n \in a..b : posts[n][1] = i
    BY <1>4, <2>1 DEF IInv, PostsBounded, PostsTo
  <2>3. a..b \subseteq 1..Len(posts)
    BY <1>1, <1>4
  <2> QED
    BY <1>1, <2>2, <2>3
<1>5. CASE a \in 1..Len(posts) /\ b = Len(posts) + 1
  <2>1. posts[a][1] = index /\ i = index
    BY <1>1, <1>5
  <2>2. a > Len(posts) - attempt
    BY <1>1, <1>2, <1>5, <2>1
  <2>3. b - a <= MaxRetries
    BY <1>1, <1>2, <1>5, <2>2
  <2>4. ASSUME NEW n \in a..b PROVE posts'[n][1] = i
    <3>1. CASE n = b
      BY <1>5, <3>1
    <3>2. CASE n \in 1..Len(posts)
      <4>1. n > Len(posts) - attempt
        BY <1>1, <1>2, <2>2, <3>2
      <4> QED
        BY <1>1, <1>2, <2>1, <3>2, <4>1
    <3> QED
      BY <1>1, <1>5, <3>1, <3>2
  <2> QED
    BY <2>3, <2>4
<1> QED
  BY <1>1, <1>3, <1>4, <1>5

\* No verdict was appealed by this post.
LEMMA PostStands ==
    ASSUME IInv, phase = "posting", NEW code \in PostCodes, posts' = Append(posts, <<index, code>>)
    PROVE  VerdictsStand'
<1>1. /\ Len(posts) \in Nat /\ Len(posts') = Len(posts) + 1
      /\ \A a \in 1..Len(posts) : posts'[a] = posts[a] /\ posts[a][1] \in Nat
      /\ posts'[Len(posts) + 1][1] = index
      /\ \A a \in 1..(Len(posts) + 1) : a \in 1..Len(posts) \/ a = Len(posts) + 1
      /\ index \in Nat
  BY PostsGrow
<1>2. LastToModel'
  <2> SUFFICES ASSUME NEW n \in 1..Len(posts),
                      ~ posts'[n][2] \in {"timeout", "connection_failure", "http_5xx"}
               PROVE  posts'[n + 1][1] > posts'[n][1]
    BY <1>1 DEF LastToModel
  <2>1. CASE n # Len(posts)
    <3>1. n \in 1..(Len(posts) - 1) /\ n + 1 \in 1..Len(posts)
      BY <1>1, <2>1
    <3> QED
      BY <1>1, <3>1 DEF IInv, VerdictsStand, LastToModel
  <2>2. CASE n = Len(posts)
    <3>1. ~Retryable(LastCode)
      BY <1>1, <2>2 DEF Retryable, LastCode
    <3>2. attempt = 0
      BY <3>1 DEF IInv, Reason, TypeOK
    <3>3. posts[n][1] < index
      BY <1>1, <2>2, <3>2 DEF IInv, Attempts, Turn
    <3> QED
      BY <1>1, <2>2, <3>3
  <2> QED
    BY <2>1, <2>2
<1>3. LastOfCall'
  <2> SUFFICES ASSUME NEW n \in 1..(Len(posts) + 1),
                      posts'[n][2] \in {"ok", "invalid_api_key", "invalid_response"}
               PROVE  n = Len(posts) + 1
    BY <1>1 DEF LastOfCall
  <2>1. CASE n \in 1..Len(posts)
    BY <1>1, <2>1 DEF IInv, Reason, Answered
  <2> QED
    BY <1>1, <2>1
<1> QED
  BY <1>2, <1>3 DEF VerdictsStand

\* A post returns.
LEMMA PostKeeps == ASSUME IInv, NEW code \in PostCodes, Post(code) PROVE IInv'
<1>1. /\ phase = "posting" /\ posts' = Append(posts, <<index, code>>)
      /\ UNCHANGED <<configured, preferred, models>>
  BY DEF Post
<1>2. /\ posts' \in Seq(PostSet) /\ Len(posts) \in Nat /\ Len(posts') = Len(posts) + 1
      /\ \A a \in 1..Len(posts) : posts'[a] = posts[a] /\ posts[a][1] \in Nat
      /\ posts'[Len(posts) + 1] = <<index, code>>
      /\ \A a \in 1..(Len(posts) + 1) : a \in 1..Len(posts) \/ a = Len(posts) + 1
      /\ index \in 1..Len(models) /\ Len(models) \in Nat /\ Len(models) <= MaxFallbacks + 1
  BY <1>1, PostsGrow
<1>3. PostsBounded' /\ VerdictsStand'
  BY <1>1, PostBounded, PostStands
<1>4. /\ TypeOK /\ preferred # <<>> /\ attempt \in 0..MaxRetries
      /\ attempt <= Len(posts)
      /\ \A a \in 1..Len(posts) : a > Len(posts) - attempt => posts[a][1] = index
      /\ \A a \in 1..Len(posts) : a <= Len(posts) - attempt => posts[a][1] < index
      /\ \A a \in 1..Len(posts) : posts[a][2] \notin Answered
      /\ models # <<>> /\ \A i, j \in 1..Len(models) : models[i] = models[j] => i = j
  <2>1. models # <<>>
    BY <1>1 DEF IInv, Place
  <2> QED
    BY <1>1, <2>1 DEF IInv, TypeOK, Place, Attempts, Turn, Reason
<1>5. posts' \in Seq(PostSet') /\ \A i \in 1..Len(posts') : posts'[i] \in (1..Len(models')) \X (Codes \cup {"ok"})
  <2> DEFINE S == PostSet
  <2>1. S' = S /\ S = (1..Len(models')) \X (Codes \cup {"ok"})
    BY <1>1 DEF PostSet
  <2> HIDE DEF S
  <2>2. \A i \in 1..Len(posts') : posts'[i] \in S
    <3>1. posts' \in Seq(S)
      BY <1>2 DEF S
    <3> QED
      BY <3>1
  <2>3. PostSet' = PostSet
    BY <1>1 DEF PostSet
  <2> QED
    BY <1>2, <2>1, <2>2, <2>3
<1>6. code \in Results /\ code \in Codes \cup {"ok"}
  BY PostCodesFit
<1>7. CASE code # "ok" /\ MayRetry(code)
  <2>1. phase' = "backoff" /\ UNCHANGED <<index, attempt, result>> /\ Retryable(code) /\ attempt < MaxRetries
    BY <1>7 DEF Post, MayRetry
  <2>2. TypeOK'
    BY <1>1, <1>4, <1>5, <2>1 DEF TypeOK
  <2>3. Place'
    BY <1>1, <1>2, <1>4, <2>1 DEF Place
  <2>4. Attempts'
    <3>1. attempt' + 1 \in 0..Len(posts')
      BY <1>2, <1>4, <2>1
    <3>2. \A a \in 1..Len(posts') : a > Len(posts') - (attempt' + 1) => posts'[a][1] = index'
      BY <1>2, <1>4, <2>1
    <3>3. \A a \in 1..Len(posts') : a <= Len(posts') - (attempt' + 1) => posts'[a][1] < index'
      BY <1>2, <1>4, <2>1
    <3> QED
      BY <2>1, <3>1, <3>2, <3>3 DEF Attempts, Turn
  <2>5. Reason'
    <3>1. code \notin Answered
      BY <2>1 DEF Retryable, Answered
    <3>2. \A a \in 1..Len(posts') : posts'[a][2] \notin Answered
      BY <1>2, <1>4, <3>1
    <3> QED
      BY <1>2, <2>1, <3>2 DEF Reason, LastCode, Retryable
  <2> QED
    BY <1>1, <1>3, <1>4, <1>5, <2>1, <2>2, <2>3, <2>4, <2>5 DEF IInv, FailsLast
<1>8. CASE code # "ok" /\ ~MayRetry(code) /\ NeedsModelFallback(code) /\ HasNextModel
  <2>1. /\ phase' = "posting" /\ index' = index + 1 /\ attempt' = 0 /\ result' = result
        /\ index < Len(models) /\ NeedsModelFallback(code)
    BY <1>1, <1>8 DEF Post, HasNextModel
  <2>a. index' \in 1..Len(models') /\ models' = models
    BY <1>1, <1>2, <2>1
  <2>2. TypeOK'
    BY <1>1, <1>2, <1>4, <1>5, <2>1 DEF TypeOK
  <2>3. Place'
    BY <1>4, <2>1, <2>a DEF Place
  <2>4. Attempts'
    <3>1. \A a \in 1..Len(posts') : posts'[a][1] < index'
      <4>1. \A a \in 1..Len(posts) : posts[a][1] <= index
        <5>1. \A a \in 1..Len(posts) : a > Len(posts) - attempt \/ a <= Len(posts) - attempt
          BY <1>2, <1>4
        <5> QED
          BY <1>2, <1>4, <5>1
      <4>2. posts'[Len(posts) + 1][1] = index /\ index < index'
        BY <1>2, <2>1
      <4> QED
        BY <1>2, <2>1, <4>1, <4>2
    <3>2. \A a \in 1..Len(posts') : ~(a > Len(posts'))
      BY <1>2
    <3> QED
      BY <1>2, <2>1, <3>1, <3>2 DEF Attempts, Turn
  <2>5. Reason'
    <3>1. code \notin Answered
      BY <2>1 DEF NeedsModelFallback, Answered
    <3> QED
      BY <1>2, <1>4, <2>1, <3>1 DEF Reason
  <2> QED
    BY <1>1, <1>3, <1>4, <1>5, <2>1, <2>2, <2>3, <2>4, <2>5 DEF IInv, FailsLast
<1>9. CASE ~(code # "ok" /\ MayRetry(code))
           /\ ~(code # "ok" /\ ~MayRetry(code) /\ NeedsModelFallback(code) /\ HasNextModel)
  <2>1. phase' = "done" /\ result' = code /\ UNCHANGED <<index, attempt>>
    BY <1>9, Zenon DEF Post, Finish
  <2>2. TypeOK'
    BY <1>1, <1>4, <1>5, <1>6, <2>1 DEF TypeOK
  <2>3. Place'
    BY <1>1, <1>2, <1>4, <2>1 DEF Place
  <2>4. Attempts' /\ Reason'
    BY <2>1 DEF Attempts, Reason
  <2>5. FailsLast'
    <3>1. NeedsModelFallback(code) => index = Len(models)
      <4>1. NeedsModelFallback(code) => code # "ok"
        BY DEF NeedsModelFallback
      <4>2. NeedsModelFallback(code) => ~HasNextModel
        BY <1>9, <4>1
      <4> QED
        BY <1>2, <4>2 DEF HasNextModel
    <3> QED
      BY <1>1, <1>2, <2>1, <3>1 DEF FailsLast, NeedsModelFallback
  <2> QED
    BY <1>1, <1>3, <1>4, <1>5, <2>2, <2>3, <2>4, <2>5 DEF IInv
<1> QED
  BY <1>7, <1>8, <1>9

\* The next attempt.
LEMMA RetryKeeps == ASSUME IInv, Retry PROVE IInv'
<1>1. /\ phase = "backoff" /\ phase' = "posting" /\ attempt' = attempt + 1
      /\ UNCHANGED <<configured, preferred, models, index, result, posts>>
  BY DEF Retry
<1>2. attempt < MaxRetries /\ attempt \in 0..MaxRetries /\ Turn(attempt + 1) /\ TypeOK
  BY <1>1 DEF IInv, Attempts, TypeOK
<1>3. TypeOK'
  BY <1>1, <1>2 DEF TypeOK
<1>4. Place' /\ Reason'
  BY <1>1 DEF IInv, Place, Reason, LastCode, Retryable
<1>5. Attempts'
  BY <1>1, <1>2 DEF Attempts, Turn
<1>6. PostsBounded' /\ VerdictsStand' /\ FailsLast'
  BY <1>1 DEF IInv, PostsBounded, PostsTo, VerdictsStand, LastToModel, LastOfCall, FailsLast
<1> QED
  BY <1>1, <1>3, <1>4, <1>5, <1>6 DEF IInv, PostSet

\* The call is cancelled.
LEMMA CancelKeeps == ASSUME IInv, Cancel PROVE IInv'
<1>1. /\ phase \in {"posting", "backoff"} /\ phase' = "cancelled"
      /\ UNCHANGED <<configured, preferred, models, index, attempt, result, posts>>
  BY DEF Cancel
<1>2. TypeOK'
  BY <1>1 DEF IInv, TypeOK
<1>3. Place' /\ Reason' /\ Attempts' /\ FailsLast'
  BY <1>1 DEF IInv, Place, Reason, Attempts, FailsLast
<1>4. PostsBounded' /\ VerdictsStand'
  BY <1>1 DEF IInv, PostsBounded, PostsTo, VerdictsStand, LastToModel, LastOfCall
<1> QED
  BY <1>1, <1>2, <1>3, <1>4 DEF IInv, PostSet

\* Every step, and a step of nothing.
LEMMA NextInvariant == IInv /\ [Next]_vars => IInv'
<1> SUFFICES ASSUME IInv, [Next]_vars PROVE IInv'
  OBVIOUS
<1>1. CASE UNCHANGED vars
  <2>1. TypeOK'
    BY <1>1 DEF IInv, TypeOK, vars
  <2>2. Place' /\ Attempts' /\ Reason'
    BY <1>1 DEF IInv, Place, Attempts, Turn, Reason, LastCode, Retryable, vars
  <2>3. PostsBounded' /\ VerdictsStand' /\ FailsLast'
    BY <1>1 DEF IInv, PostsBounded, PostsTo, VerdictsStand, LastToModel, LastOfCall, FailsLast, vars
  <2> QED
    BY <1>1, <2>1, <2>2, <2>3 DEF IInv, PostSet, vars
<1> QED
  BY <1>1, BeginKeeps, PostKeeps, RetryKeeps, CancelKeeps DEF Next

-----------------------------------------------------------------------------
(* The theorems                                                            *)

\* The invariant holds in every state of every call.
THEOREM Invariance == Spec => []IInv
<1>1. Init => IInv
  BY InitInvariant
<1>2. IInv /\ [Next]_vars => IInv'
  BY NextInvariant
<1> QED
  BY <1>1, <1>2, PTL DEF Spec

\* No model gets more than MaxRetries + 1 posts in a call, and they follow one another.
THEOREM CallIsBounded == Spec => []CallBounded
<1>1. IInv => CallBounded
  BY DEF IInv, CallBounded
<1> QED
  BY <1>1, Invariance, PTL

\* No post follows what ends a model's turn or the call.
THEOREM VerdictsAreFinal == Spec => []VerdictsStand
<1>1. IInv => VerdictsStand
  BY DEF IInv
<1> QED
  BY <1>1, Invariance, PTL

\* A call fails only with what its last post came to, and not before every model was tried when
\* another may be asked after that failure.
THEOREM FailsAtLast == Spec => []FailsLast
<1>1. IInv => FailsLast
  BY DEF IInv
<1> QED
  BY <1>1, Invariance, PTL

-----------------------------------------------------------------------------
(* The traffic of a call                                                   *)

\* Posts to one model, at most.
Share == MaxRetries + 1

\* What the turns before this one and the attempts of this one allow.
TurnsPaid ==
    Len(posts) <= CASE phase = "idle" -> 0
                    [] phase = "posting" -> (index - 1) * Share + attempt
                    [] phase = "backoff" -> (index - 1) * Share + attempt + 1
                    [] OTHER -> index * Share

\* The posts of a call are at most MaxRetries + 1 for each model that may be configured.
TrafficBounded == Len(posts) <= (MaxFallbacks + 1) * (MaxRetries + 1)

\* Turns and their shares, as numbers.
LEMMA Shares ==
    ASSUME NEW k \in Nat, NEW i \in Nat, NEW n \in Nat
    PROVE  /\ i * k \in Nat
           /\ (i + 1) * k = i * k + k
           /\ i <= n => i * k <= n * k
<1>1. i * k \in Nat /\ n * k \in Nat /\ (i + 1) * k = i * k + k
  OBVIOUS
<1>2. ASSUME i <= n PROVE i * k <= n * k
  <2>1. (n - i) * k = n * k - i * k
    OBVIOUS
  <2>2. n - i \in Nat
    BY <1>2
  <2>3. (n - i) * k >= 0
    BY <2>2
  <2> QED
    BY <1>1, <2>1, <2>3
<1> QED
  BY <1>1, <1>2

\* The numbers of a call that has begun.
LEMMA ShareOfTurn ==
    ASSUME IInv, phase \in {"posting", "backoff"}
    PROVE  /\ index \in Nat /\ index - 1 \in Nat /\ (index - 1) * Share \in Nat
           /\ index * Share = (index - 1) * Share + Share
           /\ Share \in Nat /\ attempt < Share
<1>1. index \in Nat /\ index >= 1 /\ attempt \in 0..MaxRetries /\ Share = MaxRetries + 1
  <2>1. models # <<>>
    BY DEF IInv, Place
  <2>2. models \in Seq(Models)
    BY BoundedIsSeq DEF IInv, TypeOK
  <2> QED
    BY <2>1, <2>2 DEF IInv, Place, TypeOK, Share
<1>2. index - 1 \in Nat /\ Share \in Nat /\ (index - 1) + 1 = index
  BY <1>1
<1> HIDE DEF Share
<1>3. (index - 1) * Share \in Nat /\ ((index - 1) + 1) * Share = (index - 1) * Share + Share
  BY <1>2, Shares
<1> QED
  BY <1>1, <1>2, <1>3

\* A step pays for its post.
LEMMA NextPays ==
    ASSUME IInv, TurnsPaid, [Next]_vars
    PROVE  TurnsPaid'
<1>1. Len(posts) \in Nat
  BY DEF IInv
<1>2. CASE Begin
  <2>1. phase = "idle" /\ posts' = posts /\ Len(posts) <= 0
    BY <1>2 DEF Begin, TurnsPaid
  <2>2. attempt' = 0 /\ index = 0
    BY <1>2, <2>1 DEF Begin, IInv, Place
  <2>3. \/ phase' = "done" /\ index' = 0
        \/ phase' = "posting" /\ index' = 1
    <3>1. CASE ~configured
      <4>1. phase' = "done" /\ UNCHANGED index
        BY <1>2, <3>1 DEF Begin, Finish
      <4> QED
        BY <2>2, <4>1
    <3>2. CASE configured
      BY <1>2, <3>2 DEF Begin
    <3> QED
      BY <3>1, <3>2
  <2>4. Share \in Nat
    BY DEF Share
  <2>5. 0 * Share = 0 /\ (1 - 1) * Share = 0
    BY <2>4
  <2> QED
    BY <1>1, <2>1, <2>2, <2>3, <2>5 DEF TurnsPaid
<1>3. ASSUME NEW code \in PostCodes, Post(code) PROVE TurnsPaid'
  <2>1. phase = "posting" /\ Len(posts') = Len(posts) + 1
    BY <1>3, PostsGrow DEF Post
  <2>2. Len(posts) <= (index - 1) * Share + attempt
    BY <2>1 DEF TurnsPaid
  <2>3. /\ index \in Nat /\ index - 1 \in Nat /\ (index - 1) * Share \in Nat
        /\ index * Share = (index - 1) * Share + Share
        /\ Share \in Nat /\ attempt \in Nat /\ attempt < Share
    BY <2>1, ShareOfTurn DEF IInv, TypeOK
  <2>4. \/ phase' = "backoff" /\ index' = index /\ attempt' = attempt
        \/ phase' = "posting" /\ index' = index + 1 /\ attempt' = 0
        \/ phase' = "done" /\ index' = index
    BY <1>3 DEF Post, Finish
  <2>5. CASE phase' = "backoff" /\ index' = index /\ attempt' = attempt
    <3>1. (index' - 1) * Share + attempt' + 1 = (index - 1) * Share + attempt + 1
      BY <2>5
    <3>2. Len(posts') <= (index - 1) * Share + attempt + 1
      BY <1>1, <2>1, <2>2, <2>3
    <3> QED
      BY <2>5, <3>1, <3>2 DEF TurnsPaid
  <2>6. CASE phase' = "posting" /\ index' = index + 1 /\ attempt' = 0
    <3>1. (index' - 1) * Share + attempt' = index * Share
      <4>1. index' - 1 = index /\ attempt' = 0 /\ index * Share \in Nat
        BY <2>3, <2>6
      <4> QED
        BY <4>1
    <3>2. Len(posts') <= index * Share
      BY <1>1, <2>1, <2>2, <2>3
    <3> QED
      BY <2>6, <3>1, <3>2 DEF TurnsPaid
  <2>7. CASE phase' = "done" /\ index' = index
    <3>1. Len(posts') <= index * Share
      BY <1>1, <2>1, <2>2, <2>3
    <3> QED
      BY <2>7, <3>1 DEF TurnsPaid
  <2> QED
    BY <2>4, <2>5, <2>6, <2>7
<1>4. CASE Retry
  <2>1. /\ phase = "backoff" /\ phase' = "posting" /\ attempt' = attempt + 1
        /\ index' = index /\ posts' = posts
    BY <1>4 DEF Retry
  <2>2. attempt \in Nat /\ (index - 1) * Share \in Nat
    BY <2>1, ShareOfTurn DEF IInv, TypeOK
  <2> QED
    BY <1>1, <2>1, <2>2 DEF TurnsPaid
<1>5. CASE Cancel
  <2>1. phase \in {"posting", "backoff"} /\ phase' = "cancelled" /\ index' = index /\ posts' = posts
    BY <1>5 DEF Cancel
  <2>2. /\ (index - 1) * Share \in Nat /\ index * Share = (index - 1) * Share + Share
        /\ Share \in Nat /\ attempt \in Nat /\ attempt + 1 <= Share
    BY <2>1, ShareOfTurn DEF IInv, TypeOK
  <2>3. Len(posts) <= (index - 1) * Share + attempt + 1
    BY <1>1, <2>1, <2>2 DEF TurnsPaid
  <2> QED
    BY <1>1, <2>1, <2>2, <2>3 DEF TurnsPaid
<1>6. CASE UNCHANGED vars
  BY <1>6 DEF vars, TurnsPaid
<1> QED
  BY <1>2, <1>3, <1>4, <1>5, <1>6 DEF Next

\* For any names, repetitions, retries and failures: one call sends at most
\* (MaxFallbacks + 1) * (MaxRetries + 1) posts.
THEOREM TrafficOfCall == Spec => []TrafficBounded
<1>1. Init => TurnsPaid
  <2> SUFFICES ASSUME Init PROVE TurnsPaid
    OBVIOUS
  <2>1. posts = <<>> /\ phase = "idle"
    BY DEF Init
  <2> QED
    BY <2>1 DEF TurnsPaid
<1>2. IInv /\ TurnsPaid /\ [Next]_vars => TurnsPaid'
  BY NextPays
<1>3. IInv /\ TurnsPaid => TrafficBounded
  <2> SUFFICES ASSUME IInv, TurnsPaid PROVE TrafficBounded
    OBVIOUS
  <2>1. Len(posts) \in Nat /\ Share = MaxRetries + 1 /\ index \in 0..(MaxFallbacks + 1)
    BY DEF IInv, TypeOK, Share
  <2>2. index * Share \in Nat /\ index * Share <= (MaxFallbacks + 1) * Share
    BY <2>1, Shares
  <2>3. CASE phase \in {"posting", "backoff"}
    <3>1. /\ (index - 1) * Share \in Nat /\ index * Share = (index - 1) * Share + Share
          /\ Share \in Nat /\ attempt \in Nat /\ attempt + 1 <= Share
      BY <2>3, ShareOfTurn DEF IInv, TypeOK
    <3>2. Len(posts) <= (index - 1) * Share + attempt + 1
      <4>1. Len(posts) \in Nat
        BY <2>1
      <4> QED
        BY <2>3, <3>1, <4>1 DEF TurnsPaid
    <3>3. Len(posts) <= (MaxFallbacks + 1) * Share
      <4> HIDE DEF Share
      <4>1. (MaxFallbacks + 1) * Share \in Nat
        BY <3>1
      <4> QED
        BY <2>1, <2>2, <3>1, <3>2, <4>1
    <3> QED
      BY <2>1, <3>3 DEF TrafficBounded
  <2>4. CASE phase = "idle"
    <3>1. Len(posts) = 0
      BY <2>1, <2>4 DEF TurnsPaid
    <3> QED
      BY <2>1, <2>2, <3>1 DEF TrafficBounded
  <2>5. CASE phase \notin {"idle", "posting", "backoff"}
    <3>1. Len(posts) <= index * Share
      BY <2>5 DEF TurnsPaid
    <3> QED
      BY <2>1, <2>2, <3>1 DEF TrafficBounded
  <2> QED
    BY <2>3, <2>4, <2>5
<1> QED
  BY <1>1, <1>2, <1>3, Invariance, PTL DEF Spec

-----------------------------------------------------------------------------
(* The pass over the models                                                *)

\* A call begins: the abstract one too, or it fails before any model is asked.
LEMMA BeginCalls == ASSUME IInv, Begin PROVE Fallback!Call
<1>1. phase = "idle" /\ models = <<>> /\ index = 0 /\ preferred # <<>>
  BY DEF Begin, IInv, Place
<1>2. preferred' = preferred
  BY DEF Begin
<1>3. CASE ~configured
  BY <1>1, <1>2, <1>3 DEF Begin, Finish, Fallback!Call
<1>4. CASE configured
  <2>1. models' \in Candidates(preferred) /\ index' = 1 /\ phase' = "posting"
    BY <1>4 DEF Begin
  <2>2. preferred \in Seq(Models) /\ Len(preferred) \in 1..(MaxFallbacks + 1)
    <3>1. preferred \in Seq(Models) /\ Len(preferred) \in 0..(MaxFallbacks + 1)
      BY BoundedIsSeq DEF IInv, TypeOK
    <3> QED
      BY <1>1, <3>1
  <2>3. models' \in BoundedSeq(Models, MaxFallbacks + 1)
    BY <2>1, <2>2, CandidatesFit
  <2>4. /\ models' \in Seq(Models) /\ DOMAIN models' = 1..Len(models')
        /\ DOMAIN preferred = 1..Len(preferred)
    BY <2>2, <2>3, BoundedIsSeq
  <2>5. /\ ToSet(models') = ToSet(preferred)
        /\ \A i, j \in 1..Len(models') : i < j =>
              \E p \in 1..Len(preferred) :
                  preferred[p] = models'[i] /\ \A q \in 1..p : preferred[q] # models'[j]
    BY <2>1 DEF Candidates
  <2>6. Fallback!InPreference(models')
    <3>1. {models'[i] : i \in DOMAIN models'} = {preferred[i] : i \in DOMAIN preferred}
      BY <2>5 DEF ToSet
    <3>2. \A i, j \in DOMAIN models' : i < j =>
             \E p \in DOMAIN preferred :
                 preferred[p] = models'[i] /\ \A q \in 1..p : preferred[q] # models'[j]
      <4>1. SUFFICES ASSUME NEW i \in DOMAIN models', NEW j \in DOMAIN models', i < j
                     PROVE  \E p \in DOMAIN preferred :
                               preferred[p] = models'[i] /\ \A q \in 1..p : preferred[q] # models'[j]
        OBVIOUS
      <4>2. i \in 1..Len(models') /\ j \in 1..Len(models')
        BY <2>4, <4>1
      <4>3. PICK p \in 1..Len(preferred) :
                preferred[p] = models'[i] /\ \A q \in 1..p : preferred[q] # models'[j]
        BY <2>5, <4>1, <4>2, Zenon
      <4>4. p \in DOMAIN preferred
        BY <2>4
      <4> QED
        BY <4>3, <4>4, Zenon
    <3> QED
      BY <3>1, <3>2, Zenon DEF Fallback!InPreference
  <2> QED
    BY <1>1, <1>2, <2>1, <2>6 DEF Fallback!Call
<1> QED
  BY <1>3, <1>4

\* A post that returns falls back to the next model, ends the call or changes nothing that the
\* abstract call knows.
LEMMA PostFallsOrEnds ==
    ASSUME IInv, NEW code \in PostCodes, Post(code)
    PROVE  Fallback!Fall \/ Fallback!End \/ UNCHANGED Fallback!vars
<1>1. phase = "posting" /\ models' = models /\ preferred' = preferred
  BY DEF Post
<1>2. index \in 1..Len(models) /\ Len(models) \in Nat
  <2>1. models \in Seq(Models)
    BY BoundedIsSeq DEF IInv, TypeOK
  <2> QED
    BY <1>1, <2>1 DEF IInv, Place
<1>3. CASE phase' = "backoff" /\ index' = index
  BY <1>1, <1>3 DEF Fallback!vars
<1>4. CASE phase' = "posting" /\ index' = index + 1 /\ index < Len(models)
  BY <1>1, <1>2, <1>4 DEF Fallback!Fall
<1>5. CASE phase' = "done" /\ index' = index
  BY <1>1, <1>2, <1>5 DEF Fallback!End
<1>6. \/ phase' = "backoff" /\ index' = index
      \/ phase' = "posting" /\ index' = index + 1 /\ index < Len(models)
      \/ phase' = "done" /\ index' = index
  BY <1>1 DEF Post, Finish, HasNextModel
<1> QED
  BY <1>3, <1>4, <1>5, <1>6

\* Every step of a call is one of the abstract call, or none of it.
LEMMA RefinementStep == IInv /\ [Next]_vars => [Fallback!Next]_(Fallback!vars)
<1> SUFFICES ASSUME IInv, [Next]_vars PROVE Fallback!Next \/ UNCHANGED Fallback!vars
  OBVIOUS
<1>1. CASE Begin
  BY <1>1, BeginCalls DEF Fallback!Next
<1>2. CASE \E code \in PostCodes : Post(code)
  BY <1>2, PostFallsOrEnds DEF Fallback!Next
<1>3. CASE Retry
  BY <1>3 DEF Retry, Fallback!vars
<1>4. CASE Cancel
  BY <1>4 DEF Cancel, Fallback!vars
<1>5. CASE UNCHANGED vars
  BY <1>5 DEF vars, Fallback!vars
<1> QED
  BY <1>1, <1>2, <1>3, <1>4, <1>5 DEF Next

\* Every call is one pass over the configured models, none asked twice, which ends with the first
\* answer or the failure at which it stops.
THEOREM ImplementsFallback == Spec => FallbackSpec
<1>1. Init => Fallback!Init
  BY InitInvariant DEF Init, IInv, Place, Fallback!Init
<1>2. IInv /\ [Next]_vars => [Fallback!Next]_(Fallback!vars)
  BY RefinementStep
<1> QED
  BY <1>1, <1>2, Invariance, PTL DEF Spec, FallbackSpec, Fallback!Spec
=============================================================================
