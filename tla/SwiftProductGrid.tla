-------------------------- MODULE SwiftProductGrid --------------------------
(***************************************************************************)
(* The SwiftUI grid of remote images: ProductListViewModel and the view    *)
(* RemoteImageGrid of multiplatform/iosApp/iosApp/SwiftUI/RemoteImage.swift*)
(*                                                                         *)
(* Everything runs on the main actor, so each action is one uninterrupted  *)
(* run of main-actor code: an onAppear closure, the part of a Task before  *)
(* its await, or the part after it.  The request itself, the SwiftUI       *)
(* update that follows a @Published change, and the user's scrolling       *)
(* interleave with them freely.                                            *)
(***************************************************************************)
EXTENDS ProductApi

CONSTANT Tasks   \* identities for the Tasks that loadMore() spawns

ASSUME TasksAssumption == Tasks # {}

VARIABLES products, currentPage, isLoading, isEndReached,  \* the view model
          task,        \* task[t]: what the body of Task t is doing
          appeared,    \* the ScrollView's onAppear has run before
          rendered,    \* cells in the last evaluation of the view's body
          shown,       \* cells on screen or above it: 1..shown have appeared
          lastFailed   \* history: the last finished request threw

modelVars == <<products, currentPage, isLoading, isEndReached>>
viewVars  == <<appeared, rendered, shown>>
vars      == <<modelVars, viewVars, task, lastFailed>>

NoTask == [phase |-> "none", skip |-> 0]

TaskState == [phase : {"none", "spawned", "awaiting"}, skip : Nat]

Running(t) == task[t].phase # "none"

Init ==
    /\ products = <<>> /\ currentPage = 0
    /\ isLoading = FALSE /\ isEndReached = FALSE
    /\ task = [t \in Tasks |-> NoTask]
    /\ appeared = FALSE /\ rendered = 0 /\ shown = 0
    /\ lastFailed = FALSE

-----------------------------------------------------------------------------
(* The view model.                                                         *)

\* Mutant: loadMore() without the isLoading half of its guard.
MayLoadIfNotEnded == ~isEndReached

MayLoad == ~isLoading /\ ~isEndReached

\* isLoading = true; Task { ... }: the Task is only enqueued on the main actor.
Spawn(t) ==
    /\ ~Running(t)
    /\ isLoading' = TRUE
    /\ task' = [task EXCEPT ![t] = [phase |-> "spawned", skip |-> 0]]

loadMore ==
    \/ /\ MayLoad
       /\ \E t \in Tasks : Spawn(t)
    \/ /\ ~MayLoad
       /\ UNCHANGED <<isLoading, task>>

\* Mutant: the offset of a first page numbered 1.
SkipOneBased == (currentPage - 1) * PageSize

\* Mutant: the offset is one page late.
SkipNextPage == (currentPage + 1) * PageSize

SkipLoaded == currentPage * PageSize

\* The Task starts: it evaluates the arguments of getProducts and suspends.
StartRequest(t) ==
    /\ task[t].phase = "spawned"
    /\ task' = [task EXCEPT ![t] = [phase |-> "awaiting", skip |-> SkipLoaded]]
    /\ UNCHANGED <<modelVars, viewVars, lastFailed>>

getProducts(limit, skip) == Slice(limit, skip)

TurnPage(page) ==
    \/ /\ page = <<>>
       /\ isEndReached' = TRUE
       /\ UNCHANGED currentPage
    \/ /\ page # <<>>
       /\ currentPage' = currentPage + 1
       /\ UNCHANGED isEndReached

\* Mutant: the success path forgets to lower isLoading.
ReceivePageStillLoading(t) ==
    /\ task[t].phase = "awaiting"
    /\ LET newProducts == getProducts(PageSize, task[t].skip) IN
          /\ products' = products \o newProducts
          /\ TurnPage(newProducts)
    /\ task' = [task EXCEPT ![t] = NoTask]
    /\ lastFailed' = FALSE
    /\ UNCHANGED <<isLoading, viewVars>>

\* Mutant: the page replaces the list instead of extending it.
ReceivePageReplaces(t) ==
    /\ task[t].phase = "awaiting"
    /\ products' = getProducts(PageSize, task[t].skip)
    /\ TurnPage(products')
    /\ isLoading' = FALSE
    /\ task' = [task EXCEPT ![t] = NoTask]
    /\ lastFailed' = FALSE
    /\ UNCHANGED viewVars

\* The await returns: the rest of the do block, in one run.
ReceivePage(t) ==
    /\ task[t].phase = "awaiting"
    /\ LET newProducts == getProducts(PageSize, task[t].skip) IN
          /\ products' = products \o newProducts
          /\ TurnPage(newProducts)
    /\ isLoading' = FALSE
    /\ task' = [task EXCEPT ![t] = NoTask]
    /\ lastFailed' = FALSE
    /\ UNCHANGED viewVars

\* Mutant: a catch block that treats a failure as the end of the list.
EndOnFailure(t) ==
    /\ task[t].phase = "awaiting"
    /\ isLoading' = FALSE /\ isEndReached' = TRUE
    /\ task' = [task EXCEPT ![t] = NoTask]
    /\ lastFailed' = TRUE
    /\ UNCHANGED <<products, currentPage, viewVars>>

\* The await throws (no connection, time-out, undecodable answer): catch.
FailRequest(t) ==
    /\ task[t].phase = "awaiting"
    /\ isLoading' = FALSE
    /\ task' = [task EXCEPT ![t] = NoTask]
    /\ lastFailed' = TRUE
    /\ UNCHANGED <<products, currentPage, isEndReached, viewVars>>

-----------------------------------------------------------------------------
(* The view.                                                               *)

\* .onAppear of the ScrollView: the initial load, and another try whenever the
\* grid appears again (after something covered it) and is still empty.
GridAppears ==
    /\ appeared' = TRUE
    /\ \/ products = <<>> /\ loadMore
       \/ products # <<>> /\ UNCHANGED <<isLoading, task>>
    /\ UNCHANGED <<products, currentPage, isEndReached, rendered, shown, lastFailed>>

\* SwiftUI evaluates body again after a @Published change.
Render ==
    /\ appeared
    /\ rendered # Len(products)
    /\ rendered' = Len(products)
    /\ UNCHANGED <<modelVars, appeared, shown, task, lastFailed>>

\* Mutant: the index is compared with count instead of count - 1.
IsLastCellOffByOne(cell) == cell = Len(products) + 1

\* index == viewModel.products.count - 1, with the count of this moment.
IsLastCell(cell) == cell = Len(products)

\* The next cell scrolls (or is laid out) into view: its onAppear runs.
CellAppears ==
    /\ shown < rendered
    /\ shown' = shown + 1
    /\ \/ IsLastCell(shown + 1) /\ loadMore
       \/ ~IsLastCell(shown + 1) /\ UNCHANGED <<isLoading, task>>
    /\ UNCHANGED <<products, currentPage, isEndReached, appeared, rendered, lastFailed>>

\* The user scrolls back: the last cell on screen disappears.
CellDisappears ==
    /\ shown > 0
    /\ shown' = shown - 1
    /\ UNCHANGED <<modelVars, appeared, rendered, task, lastFailed>>

-----------------------------------------------------------------------------
Next ==
    \/ GridAppears
    \/ Render
    \/ CellAppears
    \/ CellDisappears
    \/ \E t \in Tasks : StartRequest(t) \/ ReceivePage(t) \/ FailRequest(t)

Spec == Init /\ [][Next]_vars

\* The main actor runs every enqueued job, and URLSession ends every request
\* with data or an error (it has a time-out).  Nothing is assumed of the user.
Fairness ==
    \A t \in Tasks : /\ WF_vars(StartRequest(t))
                     /\ WF_vars(ReceivePage(t) \/ FailRequest(t))

FairSpec == Spec /\ Fairness

-----------------------------------------------------------------------------
(* Properties.                                                             *)

\* Every variable stays in its type.
TypeOK ==
    /\ products \in Seq(Nat) /\ currentPage \in Nat
    /\ isLoading \in BOOLEAN /\ isEndReached \in BOOLEAN
    /\ task \in [Tasks -> TaskState]
    /\ appeared \in BOOLEAN /\ rendered \in Nat /\ shown \in Nat
    /\ lastFailed \in BOOLEAN

\* "Prevent multiple requests": whatever order cells appear in, two Tasks never
\* overlap, and isLoading is up exactly while one exists.
SingleRequest ==
    /\ \A t, u \in Tasks : Running(t) /\ Running(u) => t = u
    /\ isLoading <=> \E t \in Tasks : Running(t)

\* The grid shows the first pages of the catalogue in order: no product twice,
\* none left out, for any mix of scrolling, failures and retries.
ShowsWholePages == products = FirstN(InPages(currentPage))

\* The grid stops loading only when it shows every product.
EndMeansAll == isEndReached => products = FirstN(Total)

\* If the last cell is on screen, then the next page is being loaded, or there
\* is none, or the last request failed: an appearance that loadMore() ignored is
\* never the one that was needed.
NoLostAppearance ==
    shown > 0 /\ shown = Len(products) => isLoading \/ isEndReached \/ lastFailed

\* The progress indicator always goes away.
SpinnerStops == isLoading ~> ~isLoading

\* A user who keeps coming back to the last cell, on a network that does not
\* fail every time, gets to the end of the catalogue: no mix of failures,
\* retries and ignored appearances leaves the grid stuck half-way.
ReturnsToLastCell == []<><<CellAppears /\ shown' = Len(products)>>_vars
NetworkRecovers   == \A t \in Tasks : SF_vars(ReceivePage(t))
PatienceIsRewarded == ReturnsToLastCell /\ NetworkRecovers => <>isEndReached

\* A first request that failed leaves no cell whose appearance could retry it.
\* Still no run of failures is final: if the grid is made to appear again
\* whenever that would load something, it gets its first page in the end.
ComesBack == WF_vars(GridAppears)
BlankIsRetried == ComesBack /\ NetworkRecovers /\ Total > 0 => <>(products # <<>>)

\* The grid implements the abstract paged feed.
Feed == INSTANCE PagedFeed WITH feed <- products, ended <- isEndReached
ImplementsFeed == Feed!FeedSpec

=============================================================================
