----------------------- MODULE SwiftProductGridProofs -----------------------
(***************************************************************************)
(* The safety properties of SwiftProductGrid, for every page size,         *)
(* catalogue and number of Tasks.                                          *)
(*                                                                         *)
(* ShowsWholePages is not inductive: that an answer continues the list     *)
(* rests on the offset that its Task computed before the await.  The       *)
(* missing fact is AwaitsNextPage, and it holds only because no other      *)
(* Task can turn the page during the await, which is SingleRequest.        *)
(***************************************************************************)
EXTENDS SwiftProductGrid, ProductApiProofs

\* A Task that awaits its answer asked for the page after those shown.
AwaitsNextPage == \A t \in Tasks : task[t].phase = "awaiting" => task[t].skip = SkipLoaded

\* The list was declared complete only after the pages held everything.
EndIsTotal == isEndReached => InPages(currentPage) = Total

\* The view lags behind the model, never ahead of it.
ViewLags == shown <= rendered /\ rendered <= Len(products)

IInv == /\ TypeOK
        /\ SingleRequest
        /\ AwaitsNextPage
        /\ ShowsWholePages
        /\ EndIsTotal
        /\ ViewLags
        /\ NoLostAppearance

\* The initial states satisfy the invariant: nothing is shown and nothing runs.
LEMMA InitIInv == Init => IInv
<1> SUFFICES ASSUME Init PROVE IInv
  OBVIOUS
<1>1. TypeOK
  <2>1. <<>> \in Seq(Nat)
    BY EmptySeq
  <2> QED BY <2>1 DEF Init, TypeOK, NoTask, TaskState
<1>2. SingleRequest
  BY DEF Init, SingleRequest, Running, NoTask
<1>3. AwaitsNextPage
  BY DEF Init, AwaitsNextPage, NoTask
<1>4. ShowsWholePages
  <2>1. InPages(0) = 0
    BY InPagesBound, ApiAssumption DEF ApiAssumption
  <2>2. FirstN(0) \in Seq(Nat) /\ Len(FirstN(0)) = 0
    BY FirstNSeq
  <2>3. FirstN(0) = <<>>
    BY <2>2, EmptySeq
  <2> QED BY <2>1, <2>3 DEF Init, ShowsWholePages
<1>5. EndIsTotal /\ ViewLags /\ NoLostAppearance
  BY DEF Init, EndIsTotal, ViewLags, NoLostAppearance
<1> QED BY <1>1, <1>2, <1>3, <1>4, <1>5 DEF IInv

\* loadMore() leaves the invariant's facts about Tasks as they were, and a call
\* that starts nothing finds a load running or the end reached.
LEMMA loadMoreStep ==
    ASSUME TypeOK, SingleRequest, AwaitsNextPage, loadMore, UNCHANGED currentPage
    PROVE  /\ isLoading' \in BOOLEAN /\ task' \in [Tasks -> TaskState]
           /\ SingleRequest'
           /\ AwaitsNextPage'
           /\ isLoading' \/ isEndReached
           /\ isLoading => isLoading'
<1>1. CASE MayLoad /\ \E t \in Tasks : Spawn(t)
  <2>1. PICK t \in Tasks : Spawn(t)
    BY <1>1
  <2>2. isLoading' = TRUE /\ task' \in [Tasks -> TaskState]
    BY <2>1 DEF Spawn, TypeOK, TaskState
  <2>3. \A u \in Tasks : task'[u] = IF u = t THEN [phase |-> "spawned", skip |-> 0] ELSE task[u]
    BY <2>1 DEF Spawn, TypeOK
  <2>4. \A u \in Tasks : ~Running(u)
    BY <1>1 DEF MayLoad, SingleRequest
  <2>5. SingleRequest'
    BY <2>2, <2>3, <2>4 DEF SingleRequest, Running
  <2>6. AwaitsNextPage'
    BY <2>3 DEF AwaitsNextPage, SkipLoaded
  <2> QED BY <2>2, <2>5, <2>6
<1>2. CASE ~MayLoad /\ UNCHANGED <<isLoading, task>>
  BY <1>2 DEF MayLoad, TypeOK, SingleRequest, Running, AwaitsNextPage, SkipLoaded
<1> QED BY <1>1, <1>2 DEF loadMore

\* When a Task ends, no other runs, so nothing does afterwards.
LEMMA TaskEnds ==
    ASSUME TypeOK, SingleRequest, NEW t \in Tasks, Running(t),
           task' = [task EXCEPT ![t] = NoTask], isLoading' = FALSE
    PROVE  task' \in [Tasks -> TaskState] /\ SingleRequest' /\ AwaitsNextPage'
<1>1. \A u \in Tasks : task'[u] = IF u = t THEN NoTask ELSE task[u]
  BY DEF TypeOK
<1>2. task' \in [Tasks -> TaskState]
  BY DEF TypeOK, TaskState, NoTask
<1>3. \A u \in Tasks : ~Running(u)'
  BY <1>1 DEF SingleRequest, Running, NoTask
<1>4. SingleRequest'
  BY <1>3 DEF SingleRequest
<1>5. AwaitsNextPage'
  BY <1>3 DEF AwaitsNextPage, Running
<1> QED BY <1>2, <1>4, <1>5

\* What the end of an await does to the list: the page that arrives is the next
\* one, or it is empty and everything is shown.
LEMMA ReceivePageStep ==
    ASSUME IInv, NEW t \in Tasks, ReceivePage(t)
    PROVE  /\ products' \in Seq(Nat) /\ currentPage' \in Nat /\ isEndReached' \in BOOLEAN
           /\ ShowsWholePages'
           /\ EndIsTotal'
           /\ \/ /\ products' = products
                 /\ isEndReached' /\ InPages(currentPage) = Total
              \/ /\ products' = products \o Slice(PageSize, Len(products))
                 /\ Len(products) < Total
                 /\ Len(products') > Len(products)
                 /\ isEndReached' = isEndReached /\ ~isEndReached
<1> DEFINE page == Slice(PageSize, currentPage * PageSize)
<1>1. /\ currentPage \in Nat /\ products \in Seq(Nat) /\ isEndReached \in BOOLEAN
      /\ products = FirstN(InPages(currentPage))
  BY DEF IInv, TypeOK, ShowsWholePages
<1>2. products' = products \o page /\ TurnPage(page)
  BY DEF IInv, AwaitsNextPage, SkipLoaded, ReceivePage, getProducts
<1>3. products' = FirstN(InPages(currentPage + 1))
  BY <1>1, <1>2, NextPage
<1>4. InPages(currentPage) \in Nat /\ InPages(currentPage + 1) \in Nat
  BY <1>1, InPagesBound
<1>5. CASE page = <<>>
  <2>1. isEndReached' = TRUE /\ currentPage' = currentPage
    BY <1>2, <1>5 DEF TurnPage
  <2>2. products' = products
    BY <1>1, <1>2, <1>5, ConcatEmptySeq
  <2>3. InPages(currentPage) = Total
    BY <1>1, <1>5, EmptyPageIsTheEnd
  <2> QED BY <1>1, <2>1, <2>2, <2>3 DEF ShowsWholePages, EndIsTotal
<1>6. CASE page # <<>>
  <2>1. isEndReached' = isEndReached /\ currentPage' = currentPage + 1
    BY <1>2, <1>6 DEF TurnPage
  <2>2. InPages(currentPage) = currentPage * PageSize /\ InPages(currentPage) < Total
    BY <1>1, <1>6, FullPagesBefore
  <2>3. ~isEndReached
    BY <2>2, <1>4, ApiAssumption DEF IInv, EndIsTotal, ApiAssumption
  <2>4. Len(products) = InPages(currentPage)
    BY <1>1, <1>4, FirstNSeq
  <2>5. page \in Seq(Nat) /\ Len(page) \in Nat \ {0}
    <3>1. currentPage * PageSize \in Nat
      BY <1>1, PageOffset
    <3>2. page \in Seq(Nat)
      BY <3>1, SliceSeq
    <3> QED BY <3>2, <1>6, EmptySeq
  <2>6. products' \in Seq(Nat) /\ Len(products') = Len(products) + Len(page)
    BY <1>1, <1>2, <2>5, ConcatProperties
  <2>7. ShowsWholePages' /\ EndIsTotal'
    BY <1>3, <2>1, <2>3 DEF ShowsWholePages, EndIsTotal
  <2>8. Len(products') > Len(products)
    BY <2>4, <2>5, <2>6, <1>4
  <2>9. currentPage' \in Nat
    BY <1>1, <2>1
  <2> QED BY <1>1, <1>2, <2>1, <2>2, <2>3, <2>4, <2>6, <2>7, <2>8, <2>9
<1> QED BY <1>5, <1>6

\* Every step preserves the invariant.
LEMMA NextIInv == IInv /\ [Next]_vars => IInv'
<1> SUFFICES ASSUME IInv, [Next]_vars PROVE IInv'
  OBVIOUS
<1> USE DEF modelVars, viewVars
<1>T. /\ products \in Seq(Nat) /\ Len(products) \in Nat
      /\ rendered \in Nat /\ shown \in Nat
  BY LenProperties DEF IInv, TypeOK
<1>1. CASE GridAppears
  <2>1. \/ products = <<>> /\ loadMore
        \/ UNCHANGED <<isLoading, task>>
    BY <1>1 DEF GridAppears
  <2>2. UNCHANGED <<products, currentPage, isEndReached, rendered, shown, lastFailed>> /\ appeared' = TRUE
    BY <1>1 DEF GridAppears
  <2>3. CASE loadMore
    BY <2>2, <2>3, loadMoreStep
       DEF IInv, TypeOK, ShowsWholePages, EndIsTotal, ViewLags, NoLostAppearance
  <2>4. CASE UNCHANGED <<isLoading, task>>
    BY <2>2, <2>4 DEF IInv, TypeOK, SingleRequest, Running, AwaitsNextPage, SkipLoaded,
                      ShowsWholePages, EndIsTotal, ViewLags, NoLostAppearance
  <2> QED BY <2>1, <2>3, <2>4
<1>2. CASE Render
  <2>1. UNCHANGED <<products, currentPage, isLoading, isEndReached, appeared, shown, task, lastFailed>>
        /\ rendered' = Len(products)
    BY <1>2 DEF Render
  <2> QED BY <2>1, <1>T DEF IInv, TypeOK, SingleRequest, Running, AwaitsNextPage, SkipLoaded,
                      ShowsWholePages, EndIsTotal, ViewLags, NoLostAppearance
<1>3. CASE CellAppears
  <2>1. /\ UNCHANGED <<products, currentPage, isEndReached, appeared, rendered, lastFailed>>
        /\ shown' = shown + 1 /\ shown < rendered
    BY <1>3 DEF CellAppears
  <2>2. shown' \in Nat /\ ViewLags'
    BY <2>1, <1>T DEF IInv, ViewLags
  <2>3. CASE IsLastCell(shown + 1) /\ loadMore
    BY <2>1, <2>2, <2>3, loadMoreStep
       DEF IInv, TypeOK, ShowsWholePages, EndIsTotal, NoLostAppearance
  <2>4. CASE ~IsLastCell(shown + 1) /\ UNCHANGED <<isLoading, task>>
    BY <2>1, <2>2, <2>4 DEF IInv, TypeOK, SingleRequest, Running, AwaitsNextPage, SkipLoaded,
                      ShowsWholePages, EndIsTotal, NoLostAppearance, IsLastCell
  <2> QED BY <1>3, <2>3, <2>4 DEF CellAppears
<1>4. CASE CellDisappears
  <2>1. UNCHANGED <<products, currentPage, isLoading, isEndReached, appeared, rendered, task, lastFailed>>
        /\ shown' = shown - 1 /\ shown > 0
    BY <1>4 DEF CellDisappears
  <2> QED BY <2>1, <1>T DEF IInv, TypeOK, SingleRequest, Running, AwaitsNextPage, SkipLoaded,
                      ShowsWholePages, EndIsTotal, ViewLags, NoLostAppearance
<1>5. ASSUME NEW t \in Tasks, StartRequest(t) PROVE IInv'
  <2>1. /\ UNCHANGED <<products, currentPage, isLoading, isEndReached, appeared, rendered, shown, lastFailed>>
        /\ task[t].phase = "spawned"
        /\ task' = [task EXCEPT ![t] = [phase |-> "awaiting", skip |-> SkipLoaded]]
    BY <1>5 DEF StartRequest
  <2>2. SkipLoaded \in Nat
    BY PageOffset DEF IInv, TypeOK, SkipLoaded
  <2>3. task' \in [Tasks -> TaskState]
    BY <2>1, <2>2 DEF IInv, TypeOK, TaskState
  <2>4. \A u \in Tasks : /\ Running(u)' <=> Running(u)
                         /\ task'[u] = IF u = t THEN [phase |-> "awaiting", skip |-> SkipLoaded]
                                                ELSE task[u]
    BY <2>1 DEF IInv, TypeOK, Running
  <2>5. SingleRequest'
    BY <2>1, <2>4 DEF IInv, SingleRequest
  <2>6. AwaitsNextPage'
    BY <2>1, <2>4 DEF IInv, AwaitsNextPage, SkipLoaded
  <2> QED BY <2>1, <2>3, <2>5, <2>6
         DEF IInv, TypeOK, ShowsWholePages, EndIsTotal, ViewLags, NoLostAppearance
<1>6. ASSUME NEW t \in Tasks, ReceivePage(t) PROVE IInv'
  <2>1. /\ UNCHANGED <<appeared, rendered, shown>>
        /\ isLoading' = FALSE /\ lastFailed' = FALSE
        /\ Running(t) /\ task' = [task EXCEPT ![t] = NoTask]
    BY <1>6 DEF ReceivePage, Running
  <2>2. task' \in [Tasks -> TaskState] /\ SingleRequest' /\ AwaitsNextPage'
    BY <2>1, TaskEnds DEF IInv
  <2>3. /\ products' \in Seq(Nat) /\ currentPage' \in Nat /\ isEndReached' \in BOOLEAN
        /\ ShowsWholePages' /\ EndIsTotal'
        /\ \/ products' = products /\ isEndReached'
           \/ Len(products') > Len(products)
    BY <1>6, ReceivePageStep
  <2>4. Len(products') \in Nat
    BY <2>3, LenProperties
  <2>5. TypeOK'
    BY <2>1, <2>2, <2>3 DEF IInv, TypeOK
  <2>6. ViewLags' /\ NoLostAppearance'
    BY <2>1, <2>3, <2>4, <1>T DEF IInv, ViewLags, NoLostAppearance
  <2> QED BY <2>2, <2>3, <2>5, <2>6 DEF IInv
<1>7. ASSUME NEW t \in Tasks, FailRequest(t) PROVE IInv'
  <2>1. /\ UNCHANGED <<products, currentPage, isEndReached, appeared, rendered, shown>>
        /\ isLoading' = FALSE /\ lastFailed' = TRUE
        /\ Running(t) /\ task' = [task EXCEPT ![t] = NoTask]
    BY <1>7 DEF FailRequest, Running
  <2>2. task' \in [Tasks -> TaskState] /\ SingleRequest' /\ AwaitsNextPage'
    BY <2>1, TaskEnds DEF IInv
  <2> QED BY <2>1, <2>2 DEF IInv, TypeOK, ShowsWholePages, EndIsTotal, ViewLags, NoLostAppearance
<1>8. CASE UNCHANGED vars
  BY <1>8 DEF vars, IInv, TypeOK, SingleRequest, Running, AwaitsNextPage, SkipLoaded,
              ShowsWholePages, EndIsTotal, ViewLags, NoLostAppearance
<1> QED BY <1>1, <1>2, <1>3, <1>4, <1>5, <1>6, <1>7, <1>8 DEF Next

\* The inductive invariant holds in every reachable state.
THEOREM Invariance == Spec => []IInv
BY InitIInv, NextIInv, PTL DEF Spec

\* Every variable of the grid stays in its type.
THEOREM TypeCorrect == Spec => []TypeOK
BY Invariance, PTL DEF IInv

\* Two requests never overlap, and isLoading is up exactly while one exists.
THEOREM OneRequestAtATime == Spec => []SingleRequest
BY Invariance, PTL DEF IInv

\* The grid shows whole pages of the catalogue in order, without gap or repeat.
THEOREM PagesInOrder == Spec => []ShowsWholePages
BY Invariance, PTL DEF IInv

\* The list is declared complete only when it shows the whole catalogue.
THEOREM EndIsHonest == Spec => []EndMeansAll
<1>1. IInv => EndMeansAll
  BY DEF IInv, EndIsTotal, ShowsWholePages, EndMeansAll
<1> QED BY <1>1, Invariance, PTL

\* A last cell on screen is never left without a load, an end or a failure.
THEOREM NoAppearanceLost == Spec => []NoLostAppearance
BY Invariance, PTL DEF IInv

\* A grid without a cell that does not load, unless there is nothing to show, lets
\* the next onAppear of its ScrollView through the guard of loadMore(): however
\* many requests failed, the blank grid is never shut off.
BlankMayLoad == products = <<>> /\ ~isLoading /\ Total > 0 => MayLoad

THEOREM BlankCanRetry == Spec => []BlankMayLoad
<1>1. IInv => BlankMayLoad
  <2> SUFFICES ASSUME IInv, products = <<>>, ~isLoading, Total > 0, isEndReached PROVE FALSE
    BY DEF BlankMayLoad, MayLoad
  <2>1. products = FirstN(Total)
    BY DEF IInv, EndIsTotal, ShowsWholePages
  <2>2. Len(FirstN(Total)) = Total /\ Len(<<>>) = 0
    BY FirstNSeq, ApiAssumption DEF ApiAssumption
  <2> QED BY <2>1, <2>2, ApiAssumption DEF ApiAssumption
<1> QED BY <1>1, Invariance, PTL

\* The SwiftUI grid implements the abstract paged feed.
THEOREM SwiftImplementsFeed == Spec => ImplementsFeed
<1>1. Init => Feed!FeedInit
  BY DEF Init, Feed!FeedInit
<1>2. IInv /\ [Next]_vars => [Feed!FeedNext]_(Feed!feedVars)
  <2> SUFFICES ASSUME IInv, [Next]_vars PROVE [Feed!FeedNext]_(Feed!feedVars)
    OBVIOUS
  <2> USE DEF modelVars
  <2>1. CASE UNCHANGED <<products, isEndReached>>
    BY <2>1 DEF Feed!feedVars
  <2>2. ASSUME NEW t \in Tasks, ReceivePage(t) PROVE [Feed!FeedNext]_(Feed!feedVars)
    <3>1. CASE products' = products /\ isEndReached' /\ InPages(currentPage) = Total
      <4>1. Len(products) = Total
        BY <3>1, FirstNSeq, ApiAssumption DEF IInv, ShowsWholePages, ApiAssumption
      <4>2. isEndReached \in BOOLEAN /\ isEndReached' = TRUE
        BY <2>2, <3>1, ReceivePageStep DEF IInv, TypeOK
      <4> QED BY <3>1, <4>1, <4>2 DEF Feed!FeedNext, Feed!DeclareEnd, Feed!feedVars
    <3>2. CASE /\ products' = products \o Slice(PageSize, Len(products))
               /\ Len(products) < Total
               /\ isEndReached' = isEndReached /\ ~isEndReached
      BY <3>2 DEF Feed!FeedNext, Feed!ShowNextPage, Feed!Slice, Slice, Feed!AtMost, AtMost,
                  Feed!Remaining, Remaining
    <3> QED BY <2>2, <3>1, <3>2, ReceivePageStep
  <2>3. GridAppears \/ Render \/ CellAppears \/ CellDisappears
           \/ (\E t \in Tasks : StartRequest(t) \/ FailRequest(t)) \/ UNCHANGED vars
        => UNCHANGED <<products, isEndReached>>
    BY DEF GridAppears, Render, CellAppears, CellDisappears, StartRequest, FailRequest, vars
  <2> QED BY <2>1, <2>2, <2>3 DEF Next
<1> QED BY <1>1, <1>2, Invariance, PTL DEF Spec, ImplementsFeed, Feed!FeedSpec

=============================================================================
