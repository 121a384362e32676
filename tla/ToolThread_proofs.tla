--------------------------- MODULE ToolThread_proofs ---------------------------
(***************************************************************************)
(* Proofs about ToolThread, WebResearch and ServerExecution: any set of    *)
(* URLs, any number of pages and redirects, any descendants of a process.  *)
(***************************************************************************)
EXTENDS ToolThread, TLAPS

-----------------------------------------------------------------------------
(* The inductive invariants                                                *)

\* A page that is asked for is public and has a request left; one that is new made none.
PagesFit ==
    \A i \in 1..Len(pages) :
        /\ pages[i].at = "new" => pages[i].gets = 0
        /\ pages[i].at = "get" => pages[i].url \in Public /\ pages[i].gets <= MaxRedirects

WebInv ==
    /\ Web!TypeOK /\ PagesFit /\ Web!PagesAccounted
    /\ stage \in {"idle", "search"} => pages = <<>>
    /\ returned # "none" => stage = "done"

\* A process runs only while it is waited for, and a call that is over has killed the group or
\* seen the output end.
ServerInv ==
    /\ Server!TypeOK /\ Server!NothingLeft
    /\ main = "none" => step \in {"idle", "done"} /\ children = {}
    /\ main = "running" => step \in {"wait", "kill"}
    /\ step = "idle" => main = "none"
    /\ step = "reap" => \A c \in children : ~c.inGroup
    /\ status # "none" => step = "done"

-----------------------------------------------------------------------------
(* The web call                                                            *)

LEMMA WebInit == Web!Init => WebInv
BY DEF Web!Init, WebInv, Web!TypeOK, PagesFit, Web!PagesAccounted

\* A call that returns, with pages that are all accounted for.
LEMMA Returns ==
    ASSUME WebInv, NEW r \in {"disabled", "success", "error", "raised"}, NEW shown \in Seq(Web!Pages),
           Web!Return(r, shown),
           r = "success" => Web!AllEnded /\ Len(shown) = Len(pages)
                            /\ \A i \in 1..Len(pages) : shown[i].target = pages[i].target,
           r = "raised" /\ pages # <<>> => Web!Any("odd")
    PROVE  WebInv'
<1>1. stage' = "done" /\ returned' = r /\ found' = shown /\ kind' = kind /\ pages' = pages
  BY DEF Web!Return
<1>2. Web!TypeOK' /\ PagesFit'
  BY <1>1 DEF WebInv, Web!TypeOK, PagesFit
<1>3. Web!PagesAccounted'
  BY <1>1 DEF Web!PagesAccounted, Web!AllEnded, Web!Any
<1> QED
  BY <1>1, <1>2, <1>3 DEF WebInv

\* Pages that are fetched begin without a request.
LEMMA Fetches ==
    ASSUME WebInv, NEW n \in Nat, NEW targets \in [1..n -> Urls], Web!Fetch(targets),
           stage # "done"
    PROVE  WebInv'
<1>1. Len(targets) = n /\ targets \in Seq(Urls)
  OBVIOUS
<1>2. /\ stage' = "fetch" /\ kind' = kind /\ returned' = returned /\ found' = found
      /\ pages' = [i \in 1..n |-> Web!Page(targets[i])]
  BY <1>1 DEF Web!Fetch
<1>3. \A i \in 1..n : Web!Page(targets[i]) \in Web!Pages
  BY PagesAssumption DEF Web!Page, Web!Pages
<1>4. /\ pages' \in Seq(Web!Pages) /\ Len(pages') = n
      /\ \A i \in 1..n : pages'[i].at = "new" /\ pages'[i].gets = 0
  BY <1>2, <1>3 DEF Web!Page
<1>5. Web!TypeOK' /\ PagesFit'
  BY <1>2, <1>4 DEF WebInv, Web!TypeOK, PagesFit
<1>6. returned = "none"
  BY DEF WebInv
<1>7. Web!PagesAccounted'
  BY <1>2, <1>6 DEF Web!PagesAccounted
<1> QED
  BY <1>2, <1>5, <1>6, <1>7 DEF WebInv

\* One page of a fetch goes on.
LEMMA Puts ==
    ASSUME WebInv, stage = "fetch", NEW i \in 1..Len(pages), NEW page \in Web!Pages,
           Web!Put(i, page), page.at # "new",
           page.at = "get" => page.url \in Public /\ page.gets <= MaxRedirects
    PROVE  WebInv'
<1>1. /\ pages' = [pages EXCEPT ![i] = page]
      /\ stage' = stage /\ kind' = kind /\ returned' = returned /\ found' = found
  BY DEF Web!Put
<1>2. pages \in Seq(Web!Pages)
  BY DEF WebInv, Web!TypeOK
<1>3. /\ pages' \in Seq(Web!Pages) /\ Len(pages') = Len(pages) /\ pages'[i] = page
      /\ \A j \in 1..Len(pages) : j # i => pages'[j] = pages[j]
  BY <1>1, <1>2
<1>4. Web!TypeOK' /\ PagesFit'
  BY <1>1, <1>3 DEF WebInv, Web!TypeOK, PagesFit
<1>5. returned = "none"
  BY DEF WebInv
<1>6. Web!PagesAccounted'
  BY <1>1, <1>5 DEF Web!PagesAccounted
<1> QED
  BY <1>1, <1>4, <1>5, <1>6 DEF WebInv

LEMMA StartInv == ASSUME WebInv, NEW i \in 1..Len(pages), Web!Start(i) PROVE WebInv'
<1>1. pages[i] \in Web!Pages /\ stage = "fetch" /\ pages[i].at = "new" /\ pages[i].gets = 0
  BY DEF WebInv, Web!TypeOK, PagesFit, Web!Start
<1>2. CASE pages[i].url \in Public /\ Web!Ends(i, "get")
  <2> DEFINE page == [pages[i] EXCEPT !.at = "get"]
  <2>1. page \in Web!Pages /\ page.at = "get" /\ page.url \in Public /\ page.gets = 0
    BY <1>1, <1>2 DEF Web!Pages
  <2>2. Web!Put(i, page)
    BY <1>2 DEF Web!Ends
  <2> HIDE DEF page
  <2> QED
    BY <1>1, <2>1, <2>2, Puts, PagesAssumption
<1>3. CASE Web!Ends(i, "ValueError")
  <2> DEFINE page == [pages[i] EXCEPT !.at = "ValueError"]
  <2>1. page \in Web!Pages /\ page.at = "ValueError"
    BY <1>1 DEF Web!Pages, Web!Ended, Web!Caught
  <2>2. Web!Put(i, page)
    BY <1>3 DEF Web!Ends
  <2> HIDE DEF page
  <2> QED
    BY <1>1, <2>1, <2>2, Puts
<1> QED
  BY <1>2, <1>3 DEF Web!Start

LEMMA GetInv == ASSUME WebInv, NEW i \in 1..Len(pages), Web!Get(i) PROVE WebInv'
<1> DEFINE asked == [pages[i] EXCEPT !.gets = @ + 1]
<1>1. /\ pages[i] \in Web!Pages /\ stage = "fetch" /\ pages[i].at = "get"
      /\ pages[i].url \in Public /\ pages[i].gets <= MaxRedirects
  <2>1. pages[i] \in Web!Pages
    BY DEF WebInv, Web!TypeOK
  <2>2. stage = "fetch" /\ pages[i].at = "get"
    BY DEF Web!Get
  <2> QED
    BY <2>1, <2>2 DEF WebInv, PagesFit
<1>2. pages[i].gets + 1 \in 0..(MaxRedirects + 1)
  BY <1>1, PagesAssumption DEF Web!Pages
<1>3. asked \in Web!Pages /\ asked.at = "get"
  BY <1>1, <1>2 DEF Web!Pages
<1>4. \/ \E how \in Web!Ended : Web!Put(i, [asked EXCEPT !.at = how])
      \/ \E u \in Urls : Web!Put(i, Web!Redirected(asked, u))
  BY DEF Web!Get
<1> HIDE DEF asked
<1>5. CASE \E how \in Web!Ended : Web!Put(i, [asked EXCEPT !.at = how])
  <2>1. PICK how \in Web!Ended : Web!Put(i, [asked EXCEPT !.at = how])
    BY <1>5
  <2> DEFINE page == [asked EXCEPT !.at = how]
  <2>2. page \in Web!Pages /\ page.at = how
    BY <1>3 DEF Web!Pages
  <2>3. how \notin {"new", "get"}
    BY DEF Web!Ended, Web!Caught
  <2> HIDE DEF page
  <2> QED
    BY <1>1, <2>1, <2>2, <2>3, Puts DEF page
<1>6. CASE \E u \in Urls : Web!Put(i, Web!Redirected(asked, u))
  <2>1. PICK u \in Urls : Web!Put(i, Web!Redirected(asked, u))
    BY <1>6
  <2>2. CASE u \notin Public \/ asked.gets > MaxRedirects
    <3> DEFINE page == [asked EXCEPT !.at = "ValueError"]
    <3>1. page \in Web!Pages /\ page.at = "ValueError"
      BY <1>3 DEF Web!Pages, Web!Ended, Web!Caught
    <3>2. Web!Put(i, page)
      BY <2>1, <2>2 DEF Web!Redirected
    <3> HIDE DEF page
    <3> QED
      BY <1>1, <3>1, <3>2, Puts
  <2>3. CASE ~(u \notin Public \/ asked.gets > MaxRedirects)
    <3> DEFINE page == [asked EXCEPT !.url = u]
    <3>1. page \in Web!Pages /\ page.at = "get" /\ page.url = u /\ page.gets = asked.gets
      BY <1>3 DEF Web!Pages
    <3>2. asked.gets \in Nat
      BY <1>3, PagesAssumption DEF Web!Pages
    <3>3. Web!Put(i, page)
      BY <2>1, <2>3 DEF Web!Redirected
    <3> HIDE DEF page
    <3>4. page.url \in Public /\ page.gets <= MaxRedirects
      BY <2>3, <3>1, <3>2, PagesAssumption
    <3> QED
      BY <1>1, <3>1, <3>3, <3>4, Puts
  <2> QED
    BY <2>2, <2>3
<1> QED
  BY <1>4, <1>5, <1>6

\* The pages are reported when all ended, or when they are given up for an odd one.
LEMMA CollectInv == ASSUME WebInv, Web!Collect PROVE WebInv'
<1> DEFINE shown == IF \/ Web!Outcome = "success"
                       \/ Web!Outcome = "error" /\ kind = "compare"
                    THEN Web!Reported(pages) ELSE <<>>
<1>1. Web!Return(Web!Outcome, shown) /\ (Web!AllEnded \/ Web!GivenUp)
  BY DEF Web!Collect
<1>2. pages \in Seq(Web!Pages)
  BY DEF WebInv, Web!TypeOK
<1>3. shown \in Seq(Web!Pages)
  BY <1>2 DEF Web!Reported
<1>4. Web!Outcome \in {"disabled", "success", "error", "raised"}
  BY DEF Web!Outcome
<1>5. Web!GivenUp => Web!Any("odd")
  BY DEF Web!GivenUp, Web!Any
<1>6. Web!Outcome = "raised" => Web!Any("odd")
  BY DEF Web!Outcome
<1>7. Web!Outcome = "success" => Web!AllEnded /\ shown = pages
  BY <1>1, <1>5 DEF Web!Outcome, Web!Reported
<1> HIDE DEF shown
<1> QED
  BY <1>1, <1>3, <1>4, <1>6, <1>7, Returns

LEMMA WebNext == WebInv /\ [Web!Next]_webVars => WebInv'
<1> SUFFICES ASSUME WebInv, [Web!Next]_webVars PROVE WebInv'
  OBVIOUS
<1>8. <<>> \in Seq(Web!Pages)
  OBVIOUS
<1>1. CASE Web!Refuse
  <2>1. PICK r \in {"disabled", "error"} : Web!Return(r, <<>>)
    BY <1>1 DEF Web!Refuse
  <2>2. r # "success" /\ r # "raised" /\ r \in {"disabled", "success", "error", "raised"}
    OBVIOUS
  <2> QED
    BY <1>8, <2>1, <2>2, Returns
<1>2. CASE Web!Call
  <2>1. stage = "idle" /\ pages = <<>> /\ returned = "none"
    BY <1>2 DEF WebInv, Web!Call
  <2>2. CASE stage' = "search" /\ UNCHANGED <<kind, pages, returned, found>>
    BY <2>1, <2>2 DEF WebInv, Web!TypeOK, PagesFit, Web!PagesAccounted
  <2>3. CASE \E u \in Urls : Web!Fetch(<<u>>)
    <3>1. PICK u \in Urls : Web!Fetch(<<u>>)
      BY <2>3
    <3>2. <<u>> \in [1..1 -> Urls]
      OBVIOUS
    <3> QED
      BY <2>1, <3>1, <3>2, Fetches
  <2>4. CASE \E n \in 2..MaxCompared : \E targets \in [1..n -> Urls] : Web!Fetch(targets)
    <3>1. PICK n \in 2..MaxCompared : \E targets \in [1..n -> Urls] : Web!Fetch(targets)
      BY <2>4
    <3>2. PICK targets \in [1..n -> Urls] : Web!Fetch(targets)
      BY <3>1
    <3>3. n \in Nat
      BY PagesAssumption
    <3> QED
      BY <2>1, <3>2, <3>3, Fetches
  <2> QED
    BY <1>2, <2>2, <2>3, <2>4 DEF Web!Call
<1>3. CASE Web!Searched
  <2>1. stage = "search" /\ pages = <<>>
    BY <1>3 DEF WebInv, Web!Searched
  <2>2. CASE Web!Return("success", <<>>)
    <3>1. Len(pages) = 0 /\ Len(<<>>) = 0 /\ Web!AllEnded
      BY <2>1 DEF Web!AllEnded
    <3> QED
      BY <1>8, <2>1, <2>2, <3>1, Returns
  <2>3. CASE \E n \in 1..MaxPages : \E targets \in [1..n -> Public] : Web!Fetch(targets)
    <3>1. PICK n \in 1..MaxPages : \E targets \in [1..n -> Public] : Web!Fetch(targets)
      BY <2>3
    <3>2. PICK targets \in [1..n -> Public] : Web!Fetch(targets)
      BY <3>1
    <3>3. n \in Nat /\ targets \in [1..n -> Urls]
      BY UrlsAssumption
    <3> QED
      BY <2>1, <3>2, <3>3, Fetches
  <2> QED
    BY <1>3, <2>2, <2>3 DEF Web!Searched
<1>4. CASE Web!SearchFails
  <2>1. PICK r \in {"error", "raised"} : Web!Return(r, <<>>)
    BY <1>4 DEF Web!SearchFails
  <2>2. pages = <<>>
    BY <1>4 DEF WebInv, Web!SearchFails
  <2>3. r # "success" /\ r \in {"disabled", "success", "error", "raised"}
    OBVIOUS
  <2> QED
    BY <1>8, <2>1, <2>2, <2>3, Returns
<1>5. CASE Web!Collect
  BY <1>5, CollectInv
<1>6. CASE \E i \in 1..Len(pages) : Web!Start(i) \/ Web!Get(i)
  BY <1>6, StartInv, GetInv
<1>7. CASE UNCHANGED webVars
  BY <1>7 DEF webVars, WebInv, Web!TypeOK, PagesFit, Web!PagesAccounted, Web!AllEnded, Web!Any
<1> QED
  BY <1>1, <1>2, <1>3, <1>4, <1>5, <1>6, <1>7 DEF Web!Next, Web!Proceed

-----------------------------------------------------------------------------
(* The server execution                                                    *)

LEMMA ServerInit == Server!Init => ServerInv
BY DEF Server!Init, ServerInv, Server!TypeOK, Server!NothingLeft

LEMMA ServerNext == ServerInv /\ [Server!Next]_serverVars => ServerInv'
<1> SUFFICES ASSUME ServerInv, [Server!Next]_serverVars PROVE ServerInv'
  OBVIOUS
<1> USE DEF ServerInv, Server!TypeOK, Server!NothingLeft
<1>1. CASE Server!WithoutProcess
  BY <1>1 DEF Server!WithoutProcess, Server!Return
<1>2. CASE Server!Launch
  BY <1>2 DEF Server!Launch
<1>3. CASE Server!Communicated
  BY <1>3 DEF Server!Communicated, Server!Return, Server!OutputEnds
<1>4. CASE Server!TimeExpires
  BY <1>4 DEF Server!TimeExpires
<1>5. CASE Server!Kill
  BY <1>5 DEF Server!Kill
<1>6. CASE Server!Reap
  BY <1>6 DEF Server!Reap, Server!Return, Server!OutputEnds
<1>7. CASE Server!MainExits
  BY <1>7 DEF Server!MainExits
<1>8. CASE \E c \in Server!Children : Server!Spawn(c)
  BY <1>8 DEF Server!Spawn
<1>9. CASE \E c \in Server!Children : Server!ChildExits(c)
  BY <1>9 DEF Server!ChildExits
<1>10. CASE UNCHANGED serverVars
  BY <1>10 DEF serverVars
<1> QED
  BY <1>1, <1>2, <1>3, <1>4, <1>5, <1>6, <1>7, <1>8, <1>9, <1>10
  DEF Server!Next, Server!Call, Server!Wait, Server!Processes

-----------------------------------------------------------------------------
(* Theorems                                                                *)

\* Both calls keep their invariants, whichever comes first.
LEMMA Invariance == ThreadSpec => [](WebInv /\ ServerInv)
<1>1. ThreadInit => WebInv /\ ServerInv
  BY WebInit, ServerInit DEF ThreadInit
<1>2. WebInv /\ ServerInv /\ [ThreadNext]_threadVars => (WebInv /\ ServerInv)'
  <2> SUFFICES ASSUME WebInv, ServerInv, [ThreadNext]_threadVars PROVE WebInv' /\ ServerInv'
    OBVIOUS
  <2>1. [Web!Next]_webVars /\ [Server!Next]_serverVars
    BY DEF ThreadNext, threadVars, CallWeb, CallServer, RunWeb, RunServer, Web!Next, Server!Next, Server!Call
  <2> QED
    BY <2>1, WebNext, ServerNext
<1> QED
  BY <1>1, <1>2, PTL DEF ThreadSpec

\* Through any chain of redirects only checked addresses are asked for, and no more than the
\* bound allows.
THEOREM RequestsStayBounded == ThreadSpec => []RequestsBounded
<1>1. WebInv /\ ServerInv => RequestsBounded
  <2> SUFFICES ASSUME WebInv, ServerInv PROVE RequestsBounded
    OBVIOUS
  <2>1. \A i \in 1..Len(pages) : pages[i] \in Web!Pages
    BY DEF WebInv, Web!TypeOK
  <2>2. \A i \in 1..Len(pages) : pages[i].gets <= MaxRedirects + 1
    BY <2>1, PagesAssumption DEF Web!Pages
  <2> QED
    BY <2>2 DEF WebInv, ServerInv, PagesFit, RequestsBounded, ThreadTypeOK, Web!RequestsBounded
<1> QED
  BY <1>1, Invariance, PTL

\* A successful search tells of every page it was to fetch, in their order.
THEOREM EveryPageAccounted == ThreadSpec => []PagesAccounted
<1>1. WebInv => PagesAccounted
  BY DEF WebInv, PagesAccounted
<1> QED
  BY <1>1, Invariance, PTL

\* A time-out leaves nothing of the group running, a success nobody who writes output.
THEOREM NothingStaysRunning == ThreadSpec => []NothingLeft
<1>1. ServerInv => NothingLeft
  BY DEF ServerInv, NothingLeft
<1> QED
  BY <1>1, Invariance, PTL
=============================================================================
