------------------------- MODULE ComposeProductGrid -------------------------
(***************************************************************************)
(* The Compose grid of remote images: RemoteImageGrid, loadMoreProducts    *)
(* and ProductGrid of shared/.../RemoteImage.kt.                           *)
(*                                                                         *)
(* Coroutines of a composition run on its main dispatcher, one at a time   *)
(* and in the order they were enqueued: `queue' is that dispatcher.  An    *)
(* action is one dispatch, that is a coroutine from one suspension point   *)
(* to the next.  Answers of the HTTP engine, recompositions and layouts    *)
(* come from outside the queue and interleave with it freely.              *)
(***************************************************************************)
EXTENDS ProductApi

CONSTANTS Coroutines,  \* identities for the calls of loadMoreProducts
          Viewport     \* items that fit on the screen

ASSUME ComposeAssumption == Coroutines # {} /\ Viewport \in Nat \ {0}

VARIABLES ps,           \* paginationState.value
          queue,        \* what the main dispatcher has still to run
          loader,       \* loader[c]: where call c of loadMoreProducts is
          composed,     \* size of the `products' the last composition captured
          lastVisible,  \* 1 + index of the last visible item, 0 when there is none
          crashed       \* a coroutine died of an exception nobody catches

vars == <<ps, queue, loader, composed, lastVisible, crashed>>

Idle == [phase |-> "idle", skip |-> 0]

LoaderState == [phase : {"idle", "queued", "fetching", "answered", "failed"}, skip : Nat]

Active(c) == loader[c].phase # "idle"

\* A dispatch: the first effect, a call of loadMoreProducts about to begin or
\* to go on after its request, or the collector that composition `of' launched.
First      == [kind |-> "first"]
Load(c)    == [kind |-> "load", of |-> c]
Resume(c)  == [kind |-> "resume", of |-> c]
Collect(n) == [kind |-> "collect", of |-> n]

Dispatches == {First} \cup [kind : {"load", "resume"}, of : Coroutines]
                      \cup [kind : {"collect"}, of : Nat]

PaginationState == [products : Seq(Nat), currentPage : Nat,
                    isLoading : BOOLEAN, isEndReached : BOOLEAN]

\* The first composition enters its two LaunchedEffects in the order of the code.
Init ==
    /\ ps = [products |-> <<>>, currentPage |-> 0,
             isLoading |-> FALSE, isEndReached |-> FALSE]
    /\ queue = <<First, Collect(0)>>
    /\ loader = [c \in Coroutines |-> Idle]
    /\ composed = 0 /\ lastVisible = 0
    /\ crashed = FALSE

-----------------------------------------------------------------------------
(* loadMoreProducts                                                        *)

\* Mutant: the offset of a first page numbered 1.
BeginLoadOneBased(c) ==
    /\ ps' = [ps EXCEPT !.isLoading = TRUE]
    /\ loader' = [loader EXCEPT ![c] =
                    [phase |-> "fetching", skip |-> (ps.currentPage - 1) * PageSize]]

\* Mutant: the call forgets to raise isLoading.
BeginLoadQuietly(c) ==
    /\ loader' = [loader EXCEPT ![c] =
                    [phase |-> "fetching", skip |-> ps.currentPage * PageSize]]
    /\ UNCHANGED ps

\* The call begins: it raises isLoading, computes the offset and suspends.
BeginLoad(c) ==
    /\ ps' = [ps EXCEPT !.isLoading = TRUE]
    /\ loader' = [loader EXCEPT ![c] =
                    [phase |-> "fetching", skip |-> ps.currentPage * PageSize]]

\* The engine delivers the page, or an error, and enqueues the continuation.
Answer(c) ==
    /\ ~crashed
    /\ loader[c].phase = "fetching"
    /\ \E outcome \in {"answered", "failed"} :
          loader' = [loader EXCEPT ![c].phase = outcome]
    /\ queue' = Append(queue, Resume(c))
    /\ UNCHANGED <<ps, composed, lastVisible, crashed>>

getProducts(limit, skip) == Slice(limit, skip)

\* Mutant: the second copy() keeps isLoading.
WithPageStillLoading(newProducts) ==
    [ps EXCEPT !.products = @ \o newProducts, !.currentPage = @ + 1,
               !.isEndReached = (newProducts = <<>>)]

\* Mutant: the end is read off the list before the page, not off the page.
WithPageOldListEmpty(newProducts) ==
    [products |-> ps.products \o newProducts, currentPage |-> ps.currentPage + 1,
     isLoading |-> FALSE, isEndReached |-> ps.products = <<>>]

\* Mutant: the page replaces the list instead of extending it.
WithPageReplacing(newProducts) ==
    [products |-> newProducts, currentPage |-> ps.currentPage + 1,
     isLoading |-> FALSE, isEndReached |-> newProducts = <<>>]

\* Mutant: the page counter is not advanced.
WithPageSamePage(newProducts) ==
    [products |-> ps.products \o newProducts, currentPage |-> ps.currentPage,
     isLoading |-> FALSE, isEndReached |-> newProducts = <<>>]

\* The second copy() of paginationState.
WithPage(newProducts) ==
    [products |-> ps.products \o newProducts, currentPage |-> ps.currentPage + 1,
     isLoading |-> FALSE, isEndReached |-> newProducts = <<>>]

\* The call goes on after its request; an error is caught nowhere.
EndLoad(c) ==
    /\ loader' = [loader EXCEPT ![c] = Idle]
    /\ \/ /\ loader[c].phase = "answered"
          /\ ps' = WithPage(getProducts(PageSize, loader[c].skip))
          /\ UNCHANGED crashed
       \/ /\ loader[c].phase = "failed"
          /\ crashed' = TRUE
          /\ UNCHANGED ps

-----------------------------------------------------------------------------
(* The dispatcher: each action runs the head of the queue.                 *)

Running(dispatch) == ~crashed /\ queue # <<>> /\ Head(queue) = dispatch

\* LaunchedEffect(Unit) of RemoteImageGrid.
RunFirst ==
    /\ Running(First)
    /\ queue' = Tail(queue)
    /\ \/ /\ ps.products = <<>>
          /\ \E c \in Coroutines : ~Active(c) /\ BeginLoad(c)
       \/ ps.products # <<>> /\ UNCHANGED <<ps, loader>>
    /\ UNCHANGED <<composed, lastVisible, crashed>>

RunLoad(c) ==
    /\ Running(Load(c))
    /\ queue' = Tail(queue)
    /\ BeginLoad(c)
    /\ UNCHANGED <<composed, lastVisible, crashed>>

RunResume(c) ==
    /\ Running(Resume(c))
    /\ queue' = Tail(queue)
    /\ EndLoad(c)
    /\ UNCHANGED <<composed, lastVisible>>

MayLoad == ~ps.isLoading /\ ~ps.isEndReached

\* coroutineScope.launch { loadMoreProducts(...) }: only enqueued here, so that
\* isLoading is still down when this returns.
onScrollToEnd ==
    \/ /\ MayLoad
       /\ \E c \in Coroutines :
             /\ ~Active(c)
             /\ loader' = [loader EXCEPT ![c].phase = "queued"]
             /\ queue' = Append(Tail(queue), Load(c))
    \/ /\ ~MayLoad
       /\ queue' = Tail(queue)
       /\ UNCHANGED loader

\* Mutant: the condition is off by one.
AtBottomOffByOne(size) == size > 0 /\ lastVisible > size

\* The collector's test against the list that its composition captured.
AtBottom(size) == size > 0 /\ lastVisible >= size

\* The collector handles the newest layout.  The collector of an earlier
\* composition was cancelled when its products were replaced.
RunCollect(n) ==
    /\ Running(Collect(n))
    /\ \/ n = composed /\ AtBottom(n) /\ onScrollToEnd
       \/ /\ n # composed \/ ~AtBottom(n)
          /\ queue' = Tail(queue)
          /\ UNCHANGED loader
    /\ UNCHANGED <<ps, composed, lastVisible, crashed>>

-----------------------------------------------------------------------------
(* Composition and layout.                                                 *)

\* The next composition: LaunchedEffect(listState, products) is restarted, with
\* the new list, only if the list has changed.
Recompose ==
    /\ ~crashed
    /\ composed # Len(ps.products)
    /\ composed' = Len(ps.products)
    /\ queue' = Append(queue, Collect(Len(ps.products)))
    /\ UNCHANGED <<ps, loader, lastVisible, crashed>>

\* snapshotFlow wakes its collector, once however many layouts happen first.
NotifyCollector ==
    IF \E i \in DOMAIN queue : queue[i] = Collect(composed)
       THEN UNCHANGED queue
       ELSE queue' = Append(queue, Collect(composed))

\* The grid is measured, after a composition or because the user scrolled.
Layout(last) ==
    /\ ~crashed
    /\ composed > 0
    /\ last >= AtMost(Viewport, composed) /\ last <= composed
    /\ lastVisible' = last
    /\ NotifyCollector
    /\ UNCHANGED <<ps, loader, composed, crashed>>

-----------------------------------------------------------------------------
Dispatch ==
    \/ RunFirst
    \/ \E c \in Coroutines : RunLoad(c) \/ RunResume(c)
    \/ \E n \in 0..composed : RunCollect(n)

Next ==
    \/ Dispatch
    \/ \E c \in Coroutines : Answer(c)
    \/ Recompose
    \/ \E last \in 1..composed : Layout(last)

Spec == Init /\ [][Next]_vars

\* The main looper runs its queue and its frames, and a request ends (the
\* engine has a time-out).  A frame lays the grid out after a composition; the
\* user need not scroll.
Fairness ==
    /\ WF_vars(Dispatch)
    /\ \A c \in Coroutines : WF_vars(Answer(c))
    /\ WF_vars(Recompose)
    /\ WF_vars(lastVisible < AtMost(Viewport, composed) /\ \E last \in 1..composed : Layout(last))

FairSpec == Spec /\ Fairness

-----------------------------------------------------------------------------
(* Properties.                                                             *)

\* Every variable stays in its type.
TypeOK ==
    /\ ps \in PaginationState
    /\ queue \in Seq(Dispatches)
    /\ loader \in [Coroutines -> LoaderState]
    /\ composed \in Nat /\ lastVisible \in Nat
    /\ crashed \in BOOLEAN

\* onScrollToEnd tests isLoading, which only the coroutine it launches raises:
\* still two calls never exist together, because nothing that could call
\* onScrollToEnd again is dispatched between the two.
SingleFlight == \A c, d \in Coroutines : Active(c) /\ Active(d) => c = d

\* isLoading shows a call from its first dispatch to its last.
SpinnerShowsLoad ==
    ~crashed => (ps.isLoading <=>
                   \E c \in Coroutines : loader[c].phase \in {"fetching", "answered", "failed"})

\* The grid shows the first pages of the catalogue, in order: no product twice,
\* none left out, for any interleaving of scrolling, loading and recomposition.
ShowsWholePages == ps.products = FirstN(InPages(ps.currentPage))

\* The grid stops loading only when it shows every product.
EndMeansAll == ps.isEndReached => ps.products = FirstN(Total)

\* When there is nothing left to run and the screen is up to date, a grid that
\* shows its last item has everything: no layout that was handled while a load
\* was running, or with an outdated list, was the one that was needed.
Quiet == /\ ~crashed /\ queue = <<>> /\ composed = Len(ps.products)
         /\ \A c \in Coroutines : ~Active(c)
NoLostTrigger ==
    Quiet /\ composed > 0 /\ lastVisible = composed => ps.isEndReached

\* The user is never held at the bottom of the list (nor before an empty one):
\* more comes, or the list is complete, or the application has crashed.  In
\* particular pages are fetched until they fill the screen, with no scrolling.
NeverHeldAtBottom ==
    []<>(lastVisible < Len(ps.products) \/ ps.isEndReached \/ crashed)

\* The grid implements the abstract paged feed.
Feed == INSTANCE PagedFeed WITH feed <- ps.products, ended <- ps.isEndReached
ImplementsFeed == Feed!FeedSpec

\* RemoteImage.kt:123, "Trigger lazy loading when the user scrolls to the
\* bottom": a load is launched only while the last item of the list is visible.
LoadsOnlyAtBottom ==
    [][\A c \in Coroutines :
          loader[c].phase = "idle" /\ loader'[c].phase = "queued"
             => lastVisible >= Len(ps.products)]_vars

=============================================================================
