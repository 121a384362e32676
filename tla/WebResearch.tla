---------------------------- MODULE WebResearch ----------------------------
(***************************************************************************)
(* tools/web_search.py and tools/web_research.py: one call of              *)
(* search_and_research or compare_pages.  A topic is searched for and the  *)
(* first results are fetched side by side, each in a thread of its own;    *)
(* a URL is fetched alone, the pages to compare one after the other.       *)
(***************************************************************************)
EXTENDS Naturals, Sequences, FiniteSets

CONSTANTS
    Urls,
    Public,        \* the URLs that _validate_url lets pass
    MaxPages,      \* MAX_RESEARCH_PAGES, 3 in the code
    MaxCompared,   \* how many pages are compared at most, 5 in the code
    MaxRedirects   \* the smaller of WEB_MAX_REDIRECTS and MAX_REDIRECTS

VARIABLES
    stage,   \* where the call is
    kind,    \* what was called for
    pages,   \* the pages to fetch, in the order of the search results or of the argument
    result,  \* what the call returned
    found    \* the pages of the payload

vars == <<stage, kind, pages, result, found>>

\* How a fetch ends: with content, or with an exception, httpx's mapped to one of three;
\* odd is any other one, such as httpx.InvalidURL.
Caught == {"ValueError", "TimeoutError", "ConnectionError"}
Ended == {"ok", "odd"} \cup Caught

\* url: current in _fetch. gets: requests made.
Pages == [target : Urls, url : Urls, gets : 0..(MaxRedirects + 1), at : {"new", "get"} \cup Ended]
Kinds == {"topic", "url", "compare"}

TypeOK ==
    /\ stage \in {"idle", "search", "fetch", "done"}
    /\ kind \in Kinds
    /\ pages \in Seq(Pages) /\ found \in Seq(Pages)
    /\ result \in {"none", "disabled", "success", "error", "raised"}

Init ==
    /\ stage = "idle" /\ kind \in Kinds
    /\ pages = <<>> /\ found = <<>>
    /\ result = "none"

Page(u) == [target |-> u, url |-> u, gets |-> 0, at |-> "new"]

Return(r, shown) ==
    /\ stage' = "done"
    /\ result' = r
    /\ found' = shown
    /\ UNCHANGED <<kind, pages>>

Fetch(targets) ==
    /\ stage' = "fetch"
    /\ pages' = [i \in 1..Len(targets) |-> Page(targets[i])]
    /\ UNCHANGED <<kind, result, found>>

-----------------------------------------------------------------------------
(* The call                                                                *)

\* Without a query, without two to MaxCompared URLs, or with the tool switched off.  (compare_pages
\* leaves the switch to research_page; its pages are then all disabled, and it an error.)
Refuse ==
    /\ stage = "idle"
    /\ \E r \in {"disabled", "error"} : Return(r, <<>>)

Call ==
    /\ stage = "idle"
    /\ \/ /\ kind = "topic"
          /\ stage' = "search"
          /\ UNCHANGED <<kind, pages, result, found>>
       \/ kind = "url" /\ \E u \in Urls : Fetch(<<u>>)
       \/ kind = "compare" /\ \E n \in 2..MaxCompared : \E targets \in [1..n -> Urls] : Fetch(targets)

\* _search_engine returns the results that can be fetched, of which the first are.
Searched ==
    /\ stage = "search"
    /\ \/ Return("success", <<>>)
       \/ \E n \in 1..MaxPages : \E targets \in [1..n -> Public] : Fetch(targets)

\* The search engine fails, or its answer raises what nobody expects.
SearchFails ==
    /\ stage = "search"
    /\ \E r \in {"error", "raised"} : Return(r, <<>>)

-----------------------------------------------------------------------------
(* _fetch                                                                  *)

\* The threads of a topic run side by side, other fetches in order.
MayRun(i) == kind = "topic" \/ \A j \in 1..(i - 1) : pages[j].at = "ok" \/ pages[j].at \in Caught

Put(i, page) ==
    /\ pages' = [pages EXCEPT ![i] = page]
    /\ UNCHANGED <<stage, kind, result, found>>

Ends(i, how) == Put(i, [pages[i] EXCEPT !.at = how])

\* The address is checked again before anything is asked for: its name may have moved.
Start(i) ==
    /\ stage = "fetch" /\ MayRun(i)
    /\ pages[i].at = "new"
    /\ \/ pages[i].url \in Public /\ Ends(i, "get")
       \/ Ends(i, "ValueError")

\* Mutation of Redirected: the new address is not checked.
RedirectedAnywhere(page, u) == [page EXCEPT !.url = u]

\* Mutation of Redirected: redirects are not counted.
RedirectedForEver(page, u) ==
    IF u \notin Public THEN [page EXCEPT !.at = "ValueError"] ELSE [page EXCEPT !.url = u, !.gets = 0]

\* The page after a redirect to u: the last one that is followed leads to too many redirects.
Redirected(page, u) ==
    IF u \notin Public \/ page.gets > MaxRedirects THEN [page EXCEPT !.at = "ValueError"]
    ELSE [page EXCEPT !.url = u]

\* One request: content, a status or a failure of its own, or a redirect.
Get(i) ==
    /\ stage = "fetch"
    /\ pages[i].at = "get"
    /\ LET asked == [pages[i] EXCEPT !.gets = @ + 1]
       IN \/ \E how \in Ended : Put(i, [asked EXCEPT !.at = how])
          \/ \E u \in Urls : Put(i, Redirected(asked, u))

-----------------------------------------------------------------------------
(* The end                                                                 *)

AllEnded == \A i \in 1..Len(pages) : pages[i].at \in Ended
Any(how) == \E i \in 1..Len(pages) : pages[i].at = how

\* Mutation of Outcome: a page that timed out is not caught in its thread.
OutcomeNarrow == IF Any("odd") \/ Any("TimeoutError") THEN "raised" ELSE "success"

\* Mutation of Reported: the pages that failed are left out.
ReportedOk(all) == SelectSeq(all, LAMBDA page : page.at = "ok")

\* Every result of a search with its page or a warning.
Reported(all) == all

\* A topic's pages fail one by one; an exception that is not caught in a thread comes out of
\* executor.map and takes the other pages with it.  A comparison needs one page.
Outcome ==
    IF Any("odd") THEN "raised"
    ELSE IF kind = "topic" \/ Any("ok") THEN "success" ELSE "error"

\* What is not caught gives up the pages that have not begun; those that have are waited for.
GivenUp ==
    /\ \A i \in 1..Len(pages) : pages[i].at # "get"
    /\ \E i \in 1..Len(pages) :
          pages[i].at = "odd" /\ \A j \in 1..(i - 1) : pages[j].at \in Ended

\* Leaving the executor waits for all threads; a comparison tells of its pages even when it
\* is an error.
Collect ==
    /\ stage = "fetch"
    /\ AllEnded \/ GivenUp
    /\ Return(Outcome, IF Outcome = "success" \/ (Outcome = "error" /\ kind = "compare")
                       THEN Reported(pages) ELSE <<>>)

Proceed ==
    \/ Searched \/ SearchFails \/ Collect
    \/ \E i \in 1..Len(pages) : Start(i) \/ Get(i)

Next == Refuse \/ Call \/ Proceed

Spec == Init /\ [][Next]_vars

Busy == stage \in {"search", "fetch"}

-----------------------------------------------------------------------------
(* Correctness                                                             *)

\* Through any chain of redirects only checked addresses are asked for, and at most one more
\* than the redirects allowed.
RequestsBounded ==
    \A i \in 1..Len(pages) :
        /\ pages[i].at = "get" => pages[i].url \in Public
        /\ pages[i].gets <= MaxRedirects + 1

\* A successful search tells of every page it was to fetch, in the order of the results, and
\* no thread is at work any more; all pages are given up only for an exception outside the
\* three that fetching maps its failures to.
PagesAccounted ==
    /\ result = "success" => AllEnded /\ Len(found) = Len(pages)
    /\ result = "success" => \A i \in 1..Len(pages) : found[i].target = pages[i].target
    /\ result = "raised" /\ pages # <<>> => Any("odd")
=============================================================================
