------------------------------ MODULE SearchPane ------------------------------
(***************************************************************************)
(* Searching the graph: search/search.js, search/types/typeVisallo.js and  *)
(* withSearch.js, and the list of results, util/vertex/list.js, which      *)
(* loads more when it is scrolled.  A page of results is its query and its *)
(* number.  The server, the library of components and the other type of    *)
(* search are external.                                                    *)
(*                                                                         *)
(* Two things take a turn of the event loop that the code does not wait    *)
(* for: a request can be cancelled only once it is registered              *)
(* (withDataRequest.js), from when on it is never heard of again           *)
(* (CancelledStaysSilent of DataRequest); and a list that is attached      *)
(* renders when the worker has sent the workspace's vertices.              *)
(***************************************************************************)
EXTENDS Naturals, Sequences

CONSTANTS
  Queries,
  Empty, Star,     \* the query without text, and the one the page makes up when there are filters
  PageCount,       \* pages a query with hits has
  MaxSearchEvents, \* bound on typing, submissions, changes of filters, clearings and hidings
  MaxLoose         \* bound on requests that outlive their cancelling, at a time

Filters == {"none", "property", "other"}

ASSUME SearchAssumption ==
  /\ Star \in Queries /\ Empty \notin Queries
  /\ PageCount \in Nat \ {0} /\ MaxSearchEvents \in Nat /\ MaxLoose \in Nat

VARIABLES
  queryVal,        \* the text of the query field
  filters,         \* of the search component
  configs,         \* changes of filters that wait for the configuration
  current,         \* currentQuery and currentFilters of the search type
  waiting,         \* submissions that wait for the ontology
  currentRequest,  \* the request that runs
  loose,           \* requests that were cancelled before they were registered, and go on
  loading,         \* class of the query field
  lists,           \* lists[l]: the l-th list of results
  live,            \* the list that is attached, 0 if none is
  pages,           \* what is shown in the place of the list
  infiniteLoading, \* the element .infinite-loading is there
  searchEvents,
  \* history
  interrupted,     \* a search was cancelled by a request for more results
  overtaken,       \* the last search to begin is not the last one submitted
  failed,          \* a search failed since the last one began, or the ontology did
  outlived,        \* the last search to come back is one that was cancelled
  broken,          \* a list was torn down before it had rendered, and none was attached since
  astray           \* more was requested by a list that is gone, of a query that is not shown, or for
                   \* another list, or came though it was cancelled

fieldVars == <<queryVal, filters, configs>>
submitVars == <<current, waiting>>
requestVars == <<currentRequest, loose, loading, interrupted, overtaken, failed>>
listVars == <<lists, live, pages, infiniteLoading, outlived, broken, astray>>
searchVars == <<fieldVars, submitVars, requestVars, listVars, searchEvents>>

Request(kind, query, page) == [kind |-> kind, query |-> query, page |-> page, registered |-> FALSE]
NoRequest == Request("none", Empty, 0)
UnderWay == {currentRequest} \cup {loose[i] : i \in DOMAIN loose}

SearchInit ==
  /\ queryVal \in Queries \cup {Empty} /\ filters = "none" /\ configs = <<>>
  /\ current = [query |-> Empty, number |-> 0] /\ waiting = <<>>
  /\ currentRequest = NoRequest /\ loose = <<>> /\ loading = FALSE
  /\ lists = <<>> /\ live = 0 /\ pages = <<>> /\ infiniteLoading = FALSE
  /\ searchEvents = 0
  /\ interrupted = FALSE /\ overtaken = FALSE /\ failed = FALSE
  /\ outlived = FALSE /\ broken = FALSE /\ astray = FALSE

SearchEvent == searchEvents < MaxSearchEvents /\ searchEvents' = searchEvents + 1

-----------------------------------------------------------------------------
\* Requests

\* cancel finds nothing to cancel if the request is not registered yet: it is sent and answered all
\* the same, and cannot be cancelled any more
Cancel ==
  IF currentRequest.kind # "none" /\ ~currentRequest.registered
  THEN Len(loose) < MaxLoose /\ loose' = Append(loose, currentRequest)
  ELSE UNCHANGED loose

\* Promise.require calls back, and the request can be cancelled from now on
Register ==
  /\ currentRequest.kind # "none" /\ ~currentRequest.registered
  /\ currentRequest' = [currentRequest EXCEPT !.registered = TRUE]
  /\ UNCHANGED <<fieldVars, submitVars, loose, loading, listVars, searchEvents, interrupted,
                 overtaken, failed>>

Without(s, i) == SubSeq(s, 1, i - 1) \o SubSeq(s, i + 1, Len(s))

\* The promise of a request is settled
AnswerTo(request) ==
  \/ request.registered /\ request = currentRequest /\ currentRequest' = NoRequest /\ UNCHANGED loose
  \/ \E i \in DOMAIN loose :
       request = loose[i] /\ loose' = Without(loose, i) /\ UNCHANGED currentRequest

-----------------------------------------------------------------------------
\* Submitting

\* searchRequestBegan and triggerRequest, which cancels the request that runs
Begin(submission, last) ==
  /\ loading' = TRUE
  /\ Cancel
  /\ currentRequest' = Request("search", submission.query, 0)
  /\ interrupted' = FALSE /\ failed' = FALSE
  /\ overtaken' = (submission.number # last)

\* onQuerySubmit: with property filters it waits for the ontology first
Submit(query, withFilters) ==
  LET submission == [query |-> query, number |-> current.number + 1]
  IN  /\ current' = submission
      /\ IF withFilters = "property"
         THEN waiting' = Append(waiting, submission) /\ UNCHANGED requestVars
         ELSE Begin(submission, submission.number) /\ UNCHANGED waiting

\* Text is typed, or taken away
ChangeQuery(query) ==
  /\ SearchEvent
  /\ query # queryVal /\ queryVal' = query
  /\ UNCHANGED <<filters, configs, submitVars, requestVars, listVars>>

\* The key ENTER
EnterQuery ==
  /\ SearchEvent
  /\ queryVal # Empty
  /\ Submit(queryVal, filters)
  /\ UNCHANGED <<fieldVars, listVars>>

\* onFiltersChange; what is done with the configuration depends on the query and the filters of now
FiltersChange(to) ==
  /\ SearchEvent
  /\ filters' = to
  /\ LET valid == to # "none" \/ (filters # "none" /\ queryVal \notin {Empty, Star})
     IN  configs' = Append(configs, IF to # "none" /\ queryVal = Empty THEN "star"
                                    ELSE IF valid THEN "submit" ELSE "nothing")
  /\ UNCHANGED <<queryVal, submitVars, requestVars, listVars>>

\* The configuration is there: filters alone search for everything, if that is not disabled, and if
\* there was a query when they changed, what the field has by now is submitted
ConfigAnswered ==
  /\ configs # <<>> /\ configs' = Tail(configs)
  /\ \/ /\ Head(configs) \in {"nothing", "star"}   \* search.disableWildcardSearch
        /\ UNCHANGED <<queryVal, submitVars, requestVars>>
     \/ Head(configs) = "star" /\ queryVal' = Star /\ Submit(Star, filters)
     \/ Head(configs) = "submit" /\ UNCHANGED queryVal /\ Submit(queryVal, filters)
  /\ UNCHANGED <<filters, listVars, searchEvents>>

\* The ontology is there, and the search begins with what was submitted; or it is not, and never does
OntologyAnswered ==
  /\ waiting # <<>> /\ waiting' = Tail(waiting)
  /\ \/ Begin(Head(waiting), current.number)
     \/ failed' = TRUE /\ UNCHANGED <<currentRequest, loose, loading, interrupted, overtaken>>
  /\ UNCHANGED <<fieldVars, current, listVars, searchEvents>>

-----------------------------------------------------------------------------
\* The list of results

\* The list that is attached has not rendered
Unrendered == live # 0 /\ lists[live].toRender # <<>>

\* Its teardown throws, as it has no scrollNode, when it is no component any more: its place is left,
\* and what was to be done next is not done
TeardownThrows ==
  /\ Unrendered
  /\ live' = 0 /\ broken' = TRUE
  /\ UNCHANGED <<lists, pages, infiniteLoading, astray>>

\* A teardown takes the handlers of all lists from the scrollNode
Unbound ==
  IF live = 0 THEN lists ELSE [l \in DOMAIN lists |-> [lists[l] EXCEPT !.bound = FALSE]]

\* The list, if there is one, is torn down and its place emptied; a timer it set runs on, once
Teardown ==
  /\ ~Unrendered
  /\ lists' = Unbound /\ live' = 0 /\ pages' = <<>> /\ infiniteLoading' = FALSE
  /\ astray' = FALSE /\ UNCHANGED broken

\* The list is torn down, and another one attached that renders later
Attach(query) ==
  /\ ~Unrendered
  /\ lists' = Append(Unbound, [toRender |-> <<[query |-> query, page |-> 0]>>, bound |-> FALSE,
                               offset |-> 1, scrolling |-> TRUE])
  /\ live' = Len(lists') /\ pages' = <<>> /\ infiniteLoading' = FALSE
  /\ astray' = (currentRequest'.kind = "more") /\ broken' = FALSE

\* The vertices of the workspace are there, for the lists in their order: the list shows the first
\* page, even if it is gone, and asks for more after a second if it can see its end
Render(l) ==
  /\ lists[l].toRender # <<>> /\ \A k \in 1 .. l - 1 : lists[k].toRender = <<>>
  /\ lists' = [lists EXCEPT ![l].toRender = <<>>, ![l].bound = TRUE]
  /\ pages' = lists[l].toRender
  /\ infiniteLoading' = (PageCount > 1)
  /\ UNCHANGED <<fieldVars, submitVars, requestVars, live, searchEvents, outlived, broken, astray>>

\* searchRequestCompleted: results replace the list, none empty its place, and a failure leaves it
SearchAnswered ==
  /\ \E request \in UnderWay :
       /\ request.kind = "search" /\ AnswerTo(request)
       /\ \/ TeardownThrows /\ UNCHANGED <<loading, failed, outlived>>
          \/ /\ Attach(request.query) \/ Teardown
             /\ loading' = FALSE /\ outlived' = ~request.registered /\ UNCHANGED failed
          \/ /\ failed' = TRUE /\ loading' = FALSE
             /\ UNCHANGED listVars
  /\ UNCHANGED <<fieldVars, submitVars, searchEvents, interrupted, overtaken>>

(***************************************************************************)
(* triggerInfiniteScrollRequest, a second after a list rendered, got more, *)
(* or was scrolled.  Scrolling may set the timer of a list with handlers   *)
(* again at any time; one without them has at most the timer it set        *)
(* before.  If the place shows .infinite-loading, be it another list's,    *)
(* more of the current query is requested, and the request that runs is    *)
(* cancelled.                                                              *)
(***************************************************************************)
ScrollTimer(l) ==
  /\ lists[l].toRender = <<>> /\ lists[l].scrolling /\ infiniteLoading
  /\ lists' = [lists EXCEPT ![l].scrolling = lists[l].bound]
  /\ Cancel
  /\ currentRequest' = Request("more", current.query, lists[l].offset)
  /\ interrupted' = (interrupted \/ (currentRequest.kind = "search" /\ currentRequest.registered))
  /\ astray' = (astray \/ l # live \/ current.query # pages[1].query)
  /\ UNCHANGED <<fieldVars, submitVars, loading, live, pages, infiniteLoading, searchEvents,
                 overtaken, failed, outlived, broken>>

\* mutant: the list does not note what to ask for next
AddWithoutOffset(request) ==
  /\ pages' = IF infiniteLoading THEN Append(pages, [query |-> request.query, page |-> request.page])
              ELSE pages
  /\ LET all == Len(pages') = PageCount
     IN  /\ infiniteLoading' = (infiniteLoading /\ ~all)
         /\ lists' = [lists EXCEPT ![live].scrolling = @ /\ ~all]
  /\ astray' = (astray \/ (infiniteLoading /\ ~request.registered))

\* onAddInfiniteVertices with vertices: they go before .infinite-loading, which goes with the last
AddInfiniteVertices(request) ==
  /\ pages' = IF infiniteLoading THEN Append(pages, [query |-> request.query, page |-> request.page])
              ELSE pages
  /\ LET all == Len(pages') = PageCount
     IN  /\ infiniteLoading' = (infiniteLoading /\ ~all)
         /\ lists' = [lists EXCEPT ![live].offset = request.page + 1, ![live].scrolling = @ /\ ~all]
  /\ astray' = (astray \/ (infiniteLoading /\ ~request.registered))

\* onAddInfiniteVertices without vertices, and when the request failed
EndInfiniteVertices(request) ==
  /\ \/ request.page >= PageCount /\ infiniteLoading' = FALSE
     \/ UNCHANGED infiniteLoading
  /\ lists' = [lists EXCEPT ![live].scrolling = FALSE]
  /\ UNCHANGED <<pages, astray>>

\* addInfiniteVertices, heard by the list that is attached by now, if it has rendered
MoreAnswered ==
  /\ \E request \in UnderWay :
       /\ request.kind = "more" /\ AnswerTo(request)
       /\ IF live = 0 \/ Unrendered THEN UNCHANGED <<lists, pages, infiniteLoading, astray>>
          ELSE \/ request.page < PageCount /\ AddInfiniteVertices(request)
               \/ EndInfiniteVertices(request)
  /\ UNCHANGED <<fieldVars, submitVars, loading, live, searchEvents, interrupted, overtaken, failed,
                 outlived, broken>>

\* clearSearch: what runs is cancelled, but not what waits; a teardown that throws leaves the field
ClearSearch ==
  /\ SearchEvent
  /\ Cancel /\ currentRequest' = NoRequest
  /\ \/ TeardownThrows /\ UNCHANGED <<queryVal, filters, loading, interrupted>>
     \/ /\ Teardown
        /\ loading' = FALSE /\ queryVal' = Empty /\ filters' = "none" /\ interrupted' = FALSE
  /\ UNCHANGED <<configs, submitVars, overtaken, failed, outlived>>

\* onToggleDisplay when the pane is hidden
HidePane ==
  /\ SearchEvent
  /\ TeardownThrows \/ Teardown
  /\ UNCHANGED <<fieldVars, submitVars, requestVars, outlived>>

SearchNext ==
  \/ \E query \in Queries \cup {Empty} : ChangeQuery(query)
  \/ EnterQuery
  \/ \E to \in Filters : FiltersChange(to)
  \/ ConfigAnswered
  \/ OntologyAnswered
  \/ Register
  \/ SearchAnswered
  \/ \E l \in DOMAIN lists : Render(l) \/ ScrollTimer(l)
  \/ MoreAnswered
  \/ ClearSearch
  \/ HidePane
-----------------------------------------------------------------------------
Searching == \E request \in UnderWay : request.kind = "search"

(***************************************************************************)
(* The query field shows that it loads only while a search is under way,   *)
(* however searches, clearings and requests for more follow each other,    *)
(* except when a request for more cancelled the search: that one never     *)
(* completes (triggerRequest is used for both); or when the list of the    *)
(* search before was torn down before it had rendered.                     *)
(***************************************************************************)
LoadingEnds == loading => Searching \/ interrupted \/ broken

(***************************************************************************)
(* A list shows the pages of one query in their order, none twice and none *)
(* left out, except if more was requested by the timer of a list that is   *)
(* gone, while another query was submitted already or another list was     *)
(* attached, or came although it was cancelled, before it was registered.  *)
(***************************************************************************)
PagesInOrder ==
  astray \/ \A i \in DOMAIN pages : pages[i] = [query |-> pages[1].query, page |-> i - 1]

(***************************************************************************)
(* What is shown when nothing is under way is the answer to the last       *)
(* submission, if anything is shown, unless that one failed, was overtaken *)
(* by an earlier one that waited for the ontology, or was cancelled by a   *)
(* request for more; or a search came back last that was cancelled before  *)
(* it was registered; or a list was torn down before it had rendered,      *)
(* which lets nothing replace it and renders after all.                    *)
(***************************************************************************)
ResultsAreCurrent ==
  (/\ pages # <<>> /\ ~Searching /\ waiting = <<>>
   /\ \A l \in DOMAIN lists : lists[l].toRender = <<>>)
  => pages[1].query = current.query \/ failed \/ overtaken \/ interrupted \/ outlived \/ broken

(***************************************************************************)
(* The pane shows what became of the last search: that it loads only while *)
(* it runs, its pages in order, and no page of an earlier one, with the    *)
(* exceptions above.                                                       *)
(***************************************************************************)
ShowsTheSearch == LoadingEnds /\ PagesInOrder /\ ResultsAreCurrent
=============================================================================
