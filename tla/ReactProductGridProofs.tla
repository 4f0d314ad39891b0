----------------------- MODULE ReactProductGridProofs -----------------------
(***************************************************************************)
(* The safety properties of ReactProductGrid, for every page size,         *)
(* catalogue and number of calls.                                          *)
(*                                                                         *)
(* IInv holds however late React renders: the spinner and the reports of   *)
(* the list are right even if callbacks see an outdated state.  FreshInv   *)
(* is what holds if they do not: then one call runs at a time, the page    *)
(* it asked for is still the next one when the answer comes, and a render  *)
(* shows at most one page or the end more than the render before.          *)
(***************************************************************************)
EXTENDS ReactProductGrid, ProductApiProofs

\* Without an outstanding render, the closures see the latest state.
NothingWaits == waiting = 0 => next = ui

\* Lists only grow: what is reported, what is shown, what will be shown.
ListsGrow ==
    /\ Len(ui.products) <= Len(next.products)
    /\ ui.isEndReached => next.isEndReached
    /\ sent.told => sent.size <= Len(ui.products)

\* The flag is up only for a call that runs.
SpinnerHasCall == next.isLoading => \E c \in Calls : call[c].fetching

\* A report of the end that was not dropped has been answered, or will be.
ReportAnswered ==
    sent.told /\ ~sent.footer =>
        \/ next.isEndReached \/ Len(next.products) > sent.size
        \/ \E c \in Calls : call[c].fetching

IInv == /\ TypeOK
        /\ NothingWaits
        /\ ListsGrow
        /\ SpinnerHasCall
        /\ ReportAnswered

\* Whatever is appended to a sequence, it does not get shorter.
LEMMA AppendedList ==
    ASSUME NEW s \in Seq(Nat), NEW t \in Seq(Nat)
    PROVE  /\ s \o t \in Seq(Nat) /\ Len(s) \in Nat
           /\ Len(s \o t) = Len(s) + Len(t)
           /\ t # <<>> => Len(s \o t) > Len(s)
  BY ConcatProperties, LenProperties, EmptySeq

\* The initial states satisfy the invariant.
LEMMA InitIInv == Init => IInv
  <1> SUFFICES ASSUME Init PROVE IInv
    OBVIOUS
  <1>1. <<>> \in Seq(Nat) /\ Len(<<>>) = 0
    BY EmptySeq
  <1>2. ui \in State /\ next = ui /\ waiting = 0
    BY <1>1 DEF Init, State
  <1>3. MaxPending \in Nat
    BY ReactAssumption DEF ReactAssumption
  <1>4. TypeOK
    <2>1. call \in [Calls -> [fetching : BOOLEAN, skip : Nat]]
      BY DEF Init, NoCall
    <2>2. sent \in [size : Nat, footer : BOOLEAN, told : BOOLEAN]
      BY DEF Init, NotSent
    <2>3. effectDone = FALSE /\ near = TRUE /\ failed = FALSE
      BY DEF Init
    <2>4. waiting \in 0..MaxPending
      BY <1>2, <1>3
    <2> QED
      BY <1>2, <2>1, <2>2, <2>3, <2>4 DEF TypeOK
  <1> QED
    BY <1>1, <1>2, <1>4
       DEF Init, IInv, NothingWaits, ListsGrow, SpinnerHasCall, ReportAnswered, NotSent

\* A call of loadMoreProducts returns at once, or starts a request and raises
\* the flag; the list is left alone.
LEMMA loadMoreStep ==
    ASSUME IInv, loadMoreProducts
    PROVE  /\ next' \in State /\ waiting' \in 0..MaxPending /\ waiting <= waiting'
           /\ call' \in [Calls -> [fetching : BOOLEAN, skip : Nat]]
           /\ next'.products = next.products /\ next'.isEndReached = next.isEndReached
           /\ next'.currentPage = next.currentPage
           /\ \/ ~MayLoad /\ UNCHANGED <<call, next, waiting>>
              \/ /\ MayLoad /\ waiting' = waiting + 1 /\ next'.isLoading
                 /\ \E c \in Calls :
                       /\ ~call[c].fetching
                       /\ call' = [call EXCEPT ![c] = [fetching |-> TRUE, skip |-> SkipLoaded]]
  <1>1. /\ ui \in State /\ next \in State /\ waiting \in 0..MaxPending
        /\ call \in [Calls -> [fetching : BOOLEAN, skip : Nat]]
    BY DEF IInv, TypeOK
  <1>2. SkipLoaded \in Nat
    BY <1>1, PageOffset DEF State, SkipLoaded
  <1>3. CASE ~MayLoad /\ UNCHANGED <<call, next, waiting>>
    BY <1>1, <1>3
  <1>4. ASSUME MayLoad, NEW c \in Calls, ~call[c].fetching,
               call' = [call EXCEPT ![c] = [fetching |-> TRUE, skip |-> SkipLoaded]],
               Enqueue([next EXCEPT !.isLoading = TRUE])
        PROVE  /\ next' \in State /\ waiting' \in 0..MaxPending /\ waiting' = waiting + 1
               /\ call' \in [Calls -> [fetching : BOOLEAN, skip : Nat]]
               /\ next'.products = next.products /\ next'.isEndReached = next.isEndReached
               /\ next'.currentPage = next.currentPage /\ next'.isLoading
    <2>1. next' = [next EXCEPT !.isLoading = TRUE] /\ waiting' = waiting + 1 /\ waiting < MaxPending
      BY <1>4 DEF Enqueue
    <2>2. next' \in State /\ next'.products = next.products /\ next'.isEndReached = next.isEndReached
          /\ next'.currentPage = next.currentPage /\ next'.isLoading
      BY <1>1, <2>1 DEF State
    <2>3. call' \in [Calls -> [fetching : BOOLEAN, skip : Nat]]
      BY <1>1, <1>2, <1>4
    <2>4. waiting' \in 0..MaxPending
      BY <1>1, <2>1, ReactAssumption DEF ReactAssumption
    <2> QED
      BY <2>1, <2>2, <2>3, <2>4
  <1>5. CASE \E c \in Calls :
              /\ MayLoad /\ ~call[c].fetching
              /\ call' = [call EXCEPT ![c] = [fetching |-> TRUE, skip |-> SkipLoaded]]
              /\ Enqueue([next EXCEPT !.isLoading = TRUE])
    <2>1. PICK c \in Calls :
              /\ MayLoad /\ ~call[c].fetching
              /\ call' = [call EXCEPT ![c] = [fetching |-> TRUE, skip |-> SkipLoaded]]
              /\ Enqueue([next EXCEPT !.isLoading = TRUE])
      BY <1>5
    <2>2. waiting <= waiting'
      <3>1. waiting' = waiting + 1
        BY <2>1 DEF Enqueue
      <3> QED
        BY <1>1, <3>1
    <2> QED
      BY <1>4, <2>1, <2>2
  <1> QED
    BY <1>3, <1>5 DEF loadMoreProducts

\* The end of a call: the list grows, or it ends, because of an empty answer or
\* because of a failure.
LEMMA FinishStep ==
    ASSUME IInv, NEW c \in Calls, Finish(c)
    PROVE  /\ next' \in State /\ waiting' \in 0..MaxPending /\ waiting' > 0
           /\ call' = [call EXCEPT ![c] = NoCall]
           /\ call' \in [Calls -> [fetching : BOOLEAN, skip : Nat]]
           /\ failed' \in BOOLEAN /\ ~next'.isLoading
           /\ Len(next.products) <= Len(next'.products)
           /\ \/ /\ next'.isEndReached /\ next'.products = next.products
                 /\ next'.currentPage = next.currentPage
                 /\ failed' \/ Slice(PageSize, call[c].skip) = <<>>
              \/ /\ Len(next'.products) > Len(next.products)
                 /\ next'.isEndReached = next.isEndReached
                 /\ next'.products = next.products \o Slice(PageSize, call[c].skip)
                 /\ next'.currentPage = next.currentPage + 1
                 /\ Slice(PageSize, call[c].skip) # <<>> /\ failed' = failed
  <1>1. /\ next \in State /\ waiting \in 0..MaxPending /\ failed \in BOOLEAN
        /\ call \in [Calls -> [fetching : BOOLEAN, skip : Nat]]
        /\ next.products \in Seq(Nat)
    BY DEF IInv, TypeOK, State
  <1>2. PICK newProducts \in {<<>>, Slice(PageSize, call[c].skip)} :
           Fetched(c, newProducts) /\ Enqueue(Updated(next, newProducts))
    BY DEF Finish
  <1>3. /\ waiting' = waiting + 1 /\ waiting < MaxPending
        /\ next' = Updated(next, newProducts)
    BY <1>2 DEF Enqueue
  <1>4. waiting' \in 0..MaxPending /\ waiting' > 0
    BY <1>1, <1>3, ReactAssumption DEF ReactAssumption
  <1>5. /\ call' = [call EXCEPT ![c] = NoCall]
        /\ call' \in [Calls -> [fetching : BOOLEAN, skip : Nat]]
    BY <1>1 DEF Finish, NoCall
  <1>6. /\ failed' \in BOOLEAN
        /\ \/ newProducts = Slice(PageSize, call[c].skip) /\ failed' = failed
           \/ newProducts = <<>> /\ failed' = TRUE
    BY <1>1, <1>2 DEF Fetched
  <1>7. CASE newProducts = <<>>
    <2>1. next' = [next EXCEPT !.isEndReached = TRUE, !.isLoading = FALSE]
      BY <1>3, <1>7 DEF Updated
    <2>2. /\ next' \in State /\ next'.isEndReached /\ ~next'.isLoading
          /\ next'.products = next.products /\ next'.currentPage = next.currentPage
      BY <1>1, <2>1 DEF State
    <2>3. Len(next.products) <= Len(next'.products)
      BY <1>1, <2>2, LenProperties
    <2> QED
      BY <1>4, <1>5, <1>6, <1>7, <2>2, <2>3
  <1>8. CASE newProducts # <<>>
    <2>1. next' = [WithPage(next, newProducts) EXCEPT !.isLoading = FALSE]
      BY <1>3, <1>8 DEF Updated
    <2>2. newProducts = Slice(PageSize, call[c].skip) /\ failed' = failed
      BY <1>6, <1>8
    <2>3. newProducts \in Seq(Nat)
      <3>1. call[c].skip \in Nat
        BY <1>1
      <3> QED
        BY <2>2, <3>1, SliceSeq
    <2>4. /\ next.products \o newProducts \in Seq(Nat)
          /\ Len(next.products \o newProducts) > Len(next.products)
          /\ Len(next.products \o newProducts) \in Nat /\ Len(next.products) \in Nat
      BY <1>1, <1>8, <2>3, AppendedList, LenProperties
    <2>5. /\ next' \in State /\ ~next'.isLoading /\ next'.isEndReached = next.isEndReached
          /\ next'.products = next.products \o newProducts
          /\ next'.currentPage = next.currentPage + 1
      <3>1. next' = [next EXCEPT !.products = next.products \o newProducts,
                                 !.currentPage = next.currentPage + 1, !.isLoading = FALSE]
        BY <1>1, <2>1 DEF State, WithPage
      <3>2. next.currentPage + 1 \in Nat
        BY <1>1 DEF State
      <3> HIDE <2>1
      <3> QED
        BY <1>1, <3>1, <3>2, <2>4 DEF State
    <2>6. Len(next.products) <= Len(next'.products)
      BY <2>4, <2>5
    <2> QED
      BY <1>4, <1>5, <1>6, <1>8, <2>2, <2>4, <2>5, <2>6
  <1> QED
    BY <1>7, <1>8

\* What a report of the end leaves: it is recorded, and answered if it can be.
LEMMA EndReachedStep ==
    ASSUME IInv, EndReached
    PROVE  IInv'
  <1>1. /\ ui \in State /\ next \in State /\ sent' = Content /\ loadMoreProducts
        /\ UNCHANGED <<ui, effectDone, near, failed>> /\ effectDone \in BOOLEAN
        /\ near \in BOOLEAN /\ failed \in BOOLEAN
        /\ Len(ui.products) \in Nat /\ Len(next.products) \in Nat
    BY LenProperties DEF IInv, TypeOK, EndReached, State
  <1>2. /\ sent' \in [size : Nat, footer : BOOLEAN, told : BOOLEAN]
        /\ sent'.size = Len(ui.products) /\ sent'.footer = ui.isLoading /\ sent'.told = TRUE
    BY <1>1 DEF Content, State
  <1>3. TypeOK'
    BY <1>1, <1>2, loadMoreStep DEF IInv, TypeOK
  <1>4. ListsGrow'
    BY <1>1, <1>2, loadMoreStep DEF IInv, ListsGrow
  <1>5. CASE ~MayLoad /\ UNCHANGED <<call, next, waiting>>
    <2>1. ~ui.isLoading => next.isEndReached
      BY <1>5 DEF MayLoad, IInv, ListsGrow
    <2> QED
      BY <1>1, <1>2, <1>3, <1>4, <1>5, <2>1
         DEF IInv, NothingWaits, SpinnerHasCall, ReportAnswered
  <1>6. CASE /\ MayLoad /\ waiting' = waiting + 1
             /\ \E c \in Calls :
                   /\ ~call[c].fetching
                   /\ call' = [call EXCEPT ![c] = [fetching |-> TRUE, skip |-> SkipLoaded]]
    <2>1. \E c \in Calls : call'[c].fetching
      BY <1>6 DEF IInv, TypeOK
    <2>2. waiting' # 0
      BY <1>6 DEF IInv, TypeOK
    <2> QED
      BY <1>3, <1>4, <2>1, <2>2 DEF IInv, NothingWaits, SpinnerHasCall, ReportAnswered
  <1> QED
    BY <1>1, <1>5, <1>6, loadMoreStep

\* Every step preserves the invariant.
LEMMA NextIInv == IInv /\ [Next]_vars => IInv'
  <1> SUFFICES ASSUME IInv, [Next]_vars PROVE IInv'
    OBVIOUS
  <1>T. /\ ui \in State /\ next \in State /\ waiting \in 0..MaxPending
        /\ call \in [Calls -> [fetching : BOOLEAN, skip : Nat]]
        /\ effectDone \in BOOLEAN /\ near \in BOOLEAN /\ failed \in BOOLEAN
        /\ sent \in [size : Nat, footer : BOOLEAN, told : BOOLEAN]
        /\ Len(ui.products) \in Nat /\ Len(next.products) \in Nat
    BY LenProperties DEF IInv, TypeOK, State
  <1>1. CASE MountEffect
    <2>1. /\ loadMoreProducts /\ effectDone' = TRUE /\ UNCHANGED <<ui, near, sent, failed>>
      BY <1>1 DEF MountEffect
    <2>2. TypeOK' /\ ListsGrow'
      BY <1>T, <2>1, loadMoreStep DEF IInv, TypeOK, ListsGrow
    <2>3. CASE ~MayLoad /\ UNCHANGED <<call, next, waiting>>
      BY <2>1, <2>2, <2>3 DEF IInv, NothingWaits, SpinnerHasCall, ReportAnswered
    <2>4. CASE /\ MayLoad /\ waiting' = waiting + 1
               /\ \E c \in Calls :
                     /\ ~call[c].fetching
                     /\ call' = [call EXCEPT ![c] = [fetching |-> TRUE, skip |-> SkipLoaded]]
      <3>1. \E c \in Calls : call'[c].fetching
        BY <1>T, <2>4
      <3>2. waiting' # 0
        BY <1>T, <2>4
      <3> QED
        BY <2>2, <3>1, <3>2 DEF IInv, NothingWaits, SpinnerHasCall, ReportAnswered
    <2> QED
      BY <2>1, <2>3, <2>4, loadMoreStep
  <1>2. CASE EndReached
    BY <1>2, EndReachedStep
  <1>3. CASE ScrollAway
    <2>1. /\ near' = FALSE /\ sent' = NotSent
          /\ UNCHANGED <<ui, next, waiting, call, effectDone, failed>>
      BY <1>3 DEF ScrollAway, stateVars
    <2>2. ~sent'.told /\ sent' \in [size : Nat, footer : BOOLEAN, told : BOOLEAN]
      BY <2>1 DEF NotSent
    <2> QED
      BY <2>1, <2>2 DEF IInv, TypeOK, NothingWaits, ListsGrow, SpinnerHasCall, ReportAnswered
  <1>4. CASE ScrollBack
    <2>1. near' = TRUE /\ UNCHANGED <<ui, next, waiting, call, effectDone, sent, failed>>
      BY <1>4 DEF ScrollBack, stateVars
    <2> QED
      BY <2>1 DEF IInv, TypeOK, NothingWaits, ListsGrow, SpinnerHasCall, ReportAnswered
  <1>5. CASE Render
    <2>1. /\ ui' = next /\ waiting' = 0
          /\ UNCHANGED <<next, call, effectDone, near, sent, failed>>
      BY <1>5 DEF Render
    <2>2. TypeOK' /\ NothingWaits'
      BY <1>T, <2>1, ReactAssumption DEF TypeOK, NothingWaits, ReactAssumption
    <2>3. ListsGrow'
      BY <1>T, <2>1 DEF IInv, ListsGrow
    <2> QED
      BY <2>1, <2>2, <2>3 DEF IInv, SpinnerHasCall, ReportAnswered
  <1>6. ASSUME NEW c \in Calls, Finish(c) PROVE IInv'
    <2>1. UNCHANGED <<ui, effectDone, near, sent>>
      BY <1>6 DEF Finish
    <2>2. /\ next' \in State /\ waiting' \in 0..MaxPending /\ waiting' > 0
          /\ call' \in [Calls -> [fetching : BOOLEAN, skip : Nat]]
          /\ failed' \in BOOLEAN /\ ~next'.isLoading
          /\ Len(next.products) <= Len(next'.products)
          /\ \/ next'.isEndReached
             \/ Len(next'.products) > Len(next.products) /\ next'.isEndReached = next.isEndReached
      BY <1>6, FinishStep
    <2>3. Len(next'.products) \in Nat
      BY <2>2, LenProperties DEF State
    <2>4. TypeOK' /\ NothingWaits'
      BY <1>T, <2>1, <2>2 DEF TypeOK, NothingWaits
    <2>5. ListsGrow'
      BY <1>T, <2>1, <2>2, <2>3 DEF IInv, ListsGrow
    <2>6. SpinnerHasCall' /\ ReportAnswered'
      BY <1>T, <2>1, <2>2, <2>3 DEF IInv, ListsGrow, SpinnerHasCall, ReportAnswered
    <2> QED
      BY <2>4, <2>5, <2>6 DEF IInv
  <1>7. CASE UNCHANGED vars
    BY <1>7 DEF vars, stateVars, IInv, TypeOK, NothingWaits, ListsGrow, SpinnerHasCall, ReportAnswered
  <1> QED
    BY <1>1, <1>2, <1>3, <1>4, <1>5, <1>6, <1>7 DEF Next

LEMMA Invariance == Spec => []IInv
  BY InitIInv, NextIInv, PTL DEF Spec

\* Every variable of the grid stays in its type.
THEOREM TypeCorrect == Spec => []TypeOK
  BY Invariance, PTL DEF IInv

\* However calls of loadMoreProducts overlap, and however late React renders
\* their updates, the spinner is down when nothing runs.
THEOREM SpinnerRests == Spec => []NoSpinnerAtRest
  <1>1. IInv => NoSpinnerAtRest
    BY DEF IInv, NothingWaits, SpinnerHasCall, NoSpinnerAtRest, AtRest
  <1> QED
    BY Invariance, <1>1, PTL

\* Wherever the spinner is up, something is still to come that can take it down: a
\* request, or a render that waits.  SpinnerStops adds that it does come.
THEOREM SpinnerIsAttended ==
    Spec => [](ui.isLoading => waiting > 0 \/ \E c \in Calls : call[c].fetching)
  <1>1. IInv => (ui.isLoading => waiting > 0 \/ \E c \in Calls : call[c].fetching)
    BY DEF IInv, TypeOK, NothingWaits, SpinnerHasCall
  <1> QED
    BY Invariance, <1>1, PTL

\* However late React renders, a list that is at rest and has been reported to
\* be at its end is complete: no report that was needed has been dropped.
THEOREM NoTriggerLost == Spec => []NoLostTrigger
  <1>1. IInv => NoLostTrigger
    <2> SUFFICES ASSUME IInv, AtRest, near, sent = Content PROVE ui.isEndReached
      BY DEF NoLostTrigger
    <2>1. next = ui /\ \A c \in Calls : ~call[c].fetching
      BY DEF AtRest, IInv, NothingWaits
    <2>2. ~ui.isLoading
      BY <2>1 DEF IInv, SpinnerHasCall
    <2>3. /\ sent.told = TRUE /\ sent.footer = ui.isLoading /\ sent.size = Len(ui.products)
      BY DEF Content
    <2>4. ~(Len(next.products) > sent.size)
      BY <2>1, <2>3, LenProperties DEF IInv, TypeOK, State
    <2> QED
      BY <2>1, <2>2, <2>3, <2>4 DEF IInv, ReportAnswered
  <1> QED
    BY Invariance, <1>1, PTL

Extends(list, base) == \E more \in Seq(Nat) : list = base \o more

\* What waits for a render continues what is shown.
NextContinues == Extends(next.products, ui.products)

LEMMA ExtendsItself ==
    ASSUME NEW s \in Seq(Nat)
    PROVE  Extends(s, s)
  <1>1. <<>> \in Seq(Nat) /\ s = s \o <<>>
    BY ConcatEmptySeq, EmptySeq
  <1> QED
    BY <1>1 DEF Extends

LEMMA ExtendsFurther ==
    ASSUME NEW base \in Seq(Nat), NEW s, Extends(s, base), NEW t \in Seq(Nat)
    PROVE  Extends(s \o t, base)
  <1>1. PICK more \in Seq(Nat) : s = base \o more
    BY DEF Extends
  <1>2. more \o t \in Seq(Nat) /\ s \o t = base \o (more \o t)
    BY <1>1, ConcatAssociative, ConcatProperties
  <1> QED
    BY <1>2 DEF Extends

\* Every step preserves NextContinues, and a render that changes the list shows
\* what has been appended to it.
LEMMA NextContinuesStep ==
    ASSUME IInv, NextContinues, [Next]_vars
    PROVE  /\ NextContinues'
           /\ Extends(ui'.products, ui.products)
           /\ ui.isEndReached => ui'.isEndReached
  <1>T. /\ ui.products \in Seq(Nat) /\ next.products \in Seq(Nat)
        /\ Extends(ui.products, ui.products) /\ Extends(next.products, next.products)
    BY ExtendsItself DEF IInv, TypeOK, State
  <1>1. CASE MountEffect \/ EndReached
    <2>1. ui' = ui /\ loadMoreProducts
      BY <1>1 DEF MountEffect, EndReached
    <2>2. next'.products = next.products
      BY <2>1, loadMoreStep
    <2> QED
      BY <1>T, <2>1, <2>2 DEF NextContinues
  <1>2. CASE ScrollAway \/ ScrollBack \/ UNCHANGED vars
    <2>1. ui' = ui /\ next' = next
      BY <1>2 DEF ScrollAway, ScrollBack, vars, stateVars
    <2> QED
      BY <1>T, <2>1 DEF NextContinues
  <1>3. CASE Render
    <2>1. ui' = next /\ next' = next
      BY <1>3 DEF Render
    <2> QED
      BY <1>T, <2>1 DEF NextContinues, IInv, ListsGrow
  <1>4. ASSUME NEW c \in Calls, Finish(c)
        PROVE  NextContinues' /\ ui' = ui
    <2>1. ui' = ui
      BY <1>4 DEF Finish
    <2>2. Slice(PageSize, call[c].skip) \in Seq(Nat)
      BY SliceSeq DEF IInv, TypeOK
    <2>3. next'.products \in {next.products, next.products \o Slice(PageSize, call[c].skip)}
      BY <1>4, FinishStep
    <2>4. Extends(next.products \o Slice(PageSize, call[c].skip), ui.products)
      BY <1>T, <2>2, ExtendsFurther DEF NextContinues
    <2> QED
      BY <2>1, <2>3, <2>4 DEF NextContinues
  <1> QED
    BY <1>1, <1>2, <1>3, <1>4, <1>T DEF Next

\* However late React renders, and even if calls that see an outdated closure load
\* a page twice, a render only appends to the list: nothing that was shown is
\* removed or moved, and an end that was declared is not taken back.
THEOREM ListOnlyGrows ==
    Spec => [][Extends(ui'.products, ui.products) /\ (ui.isEndReached => ui'.isEndReached)]_vars
  <1>1. Init => NextContinues
    <2> SUFFICES ASSUME Init PROVE NextContinues
      OBVIOUS
    <2>1. next = ui /\ ui.products \in Seq(Nat)
      BY EmptySeq DEF Init
    <2> QED
      BY <2>1, ExtendsItself DEF NextContinues
  <1>2. IInv /\ NextContinues /\ [Next]_vars
          => /\ NextContinues'
             /\ Extends(ui'.products, ui.products) /\ (ui.isEndReached => ui'.isEndReached)
    BY NextContinuesStep
  <1> QED
    BY <1>1, <1>2, Invariance, PTL DEF Spec

-----------------------------------------------------------------------------
(* If every callback sees the latest state.                                *)

\* The first call is that of the mount effect.
EffectFirst == ~effectDone => waiting = 0 /\ \A c \in Calls : ~call[c].fetching

\* A call keeps the flag up, and has nothing to show yet that is not shown.
CallHoldsList ==
    \A c \in Calls : call[c].fetching =>
        /\ next.isLoading /\ ~next.isEndReached /\ ~ui.isEndReached
        /\ next.products = ui.products

\* The answer that a call awaits is the page after those shown.
AwaitsNextPage == \A c \in Calls : call[c].fetching => call[c].skip = next.currentPage * PageSize

WholePages(state) == state.products = FirstN(InPages(state.currentPage))

\* The next render shows at most one page more, or the end.
OneStepAhead ==
    \/ next.products = ui.products /\ next.isEndReached = ui.isEndReached
    \/ /\ next.products = ui.products \o Slice(PageSize, Len(ui.products))
       /\ Len(ui.products) < Total
       /\ ~ui.isEndReached /\ ~next.isEndReached
    \/ /\ next.products = ui.products
       /\ ~ui.isEndReached /\ next.isEndReached
       /\ failed \/ Len(ui.products) = Total

FreshInv == /\ EffectFirst
            /\ SingleCall
            /\ CallHoldsList
            /\ AwaitsNextPage
            /\ WholePages(ui) /\ WholePages(next)
            /\ OneStepAhead

\* Nothing is shown and nothing runs at first.
LEMMA InitFresh == Init => FreshInv
  <1> SUFFICES ASSUME Init PROVE FreshInv
    OBVIOUS
  <1>1. FirstN(InPages(0)) = <<>>
    <2>1. InPages(0) = 0
      BY InPagesBound, ApiAssumption DEF ApiAssumption
    <2>2. FirstN(0) \in Seq(Nat) /\ Len(FirstN(0)) = 0
      BY FirstNSeq
    <2> QED
      BY <2>1, <2>2, EmptySeq
  <1>2. ui.products = <<>> /\ ui.currentPage = 0 /\ next = ui /\ waiting = 0
    BY DEF Init
  <1>3. \A c \in Calls : ~call[c].fetching
    BY DEF Init, NoCall
  <1> QED
    BY <1>1, <1>2, <1>3
       DEF FreshInv, EffectFirst, SingleCall, CallHoldsList, AwaitsNextPage, WholePages, OneStepAhead

\* A call that starts when nothing waits for a render starts alone, and asks for
\* the page after those shown.
LEMMA FreshLoad ==
    ASSUME IInv, FreshInv, waiting = 0, loadMoreProducts, effectDone' = TRUE, ui' = ui, failed' = failed
    PROVE  FreshInv'
  <1>1. /\ next = ui /\ next' \in State
        /\ next'.products = next.products /\ next'.isEndReached = next.isEndReached
        /\ next'.currentPage = next.currentPage
    BY loadMoreStep DEF IInv, NothingWaits
  <1>2. CASE ~MayLoad /\ UNCHANGED <<call, next, waiting>>
    BY <1>2 DEF FreshInv, EffectFirst, SingleCall, CallHoldsList, AwaitsNextPage, WholePages, OneStepAhead
  <1>3. ASSUME NEW c \in Calls, MayLoad, next'.isLoading,
               call' = [call EXCEPT ![c] = [fetching |-> TRUE, skip |-> SkipLoaded]]
        PROVE  FreshInv'
    <2>1. \A d \in Calls : ~call[d].fetching
      BY <1>1, <1>3 DEF MayLoad, FreshInv, CallHoldsList
    <2>2. \A d \in Calls : /\ call'[d].fetching <=> d = c
                           /\ d = c => call'[d].skip = ui.currentPage * PageSize
      BY <1>3, <2>1 DEF IInv, TypeOK, SkipLoaded
    <2>3. SingleCall' /\ EffectFirst'
      BY <2>2 DEF SingleCall, EffectFirst
    <2>4. CallHoldsList' /\ AwaitsNextPage'
      BY <1>1, <1>3, <2>2 DEF MayLoad, CallHoldsList, AwaitsNextPage
    <2>5. WholePages(ui)' /\ WholePages(next)' /\ OneStepAhead'
      BY <1>1 DEF FreshInv, WholePages, OneStepAhead
    <2> QED
      BY <2>3, <2>4, <2>5 DEF FreshInv
  <1> QED
    BY <1>2, <1>3, loadMoreStep

\* The call that ends was the only one, and its answer continues the list.
LEMMA FreshFinish ==
    ASSUME IInv, FreshInv, NEW c \in Calls, Finish(c)
    PROVE  FreshInv'
  <1> DEFINE page == Slice(PageSize, next.currentPage * PageSize)
  <1>1. /\ call[c].fetching /\ UNCHANGED <<ui, effectDone>> /\ effectDone
        /\ next.products = ui.products /\ ~ui.isEndReached /\ ~next.isEndReached
        /\ call[c].skip = next.currentPage * PageSize
    BY DEF Finish, FreshInv, EffectFirst, CallHoldsList, AwaitsNextPage
  <1>2. \A d \in Calls : ~call'[d].fetching
    <2>1. call' = [call EXCEPT ![c] = NoCall] /\ call \in [Calls -> [fetching : BOOLEAN, skip : Nat]]
      BY FinishStep DEF IInv, TypeOK
    <2>2. \A d \in Calls : call'[d] = IF d = c THEN NoCall ELSE call[d]
      BY <2>1
    <2> QED
      BY <1>1, <2>2 DEF FreshInv, SingleCall, NoCall
  <1>3. /\ next.currentPage \in Nat /\ WholePages(next)
        /\ InPages(next.currentPage) \in Nat /\ Len(next.products) = InPages(next.currentPage)
    <2>1. next.currentPage \in Nat /\ WholePages(next)
      BY DEF IInv, TypeOK, State, FreshInv
    <2> QED
      BY <2>1, InPagesBound, FirstNSeq DEF WholePages
  <1>4. WholePages(next)' /\ OneStepAhead'
    <2>1. CASE /\ next'.isEndReached /\ next'.products = next.products
               /\ next'.currentPage = next.currentPage
               /\ failed' \/ page = <<>>
      <3>1. page = <<>> => Len(ui.products) = Total
        BY <1>1, <1>3, EmptyPageIsTheEnd
      <3> QED
        BY <1>1, <1>3, <2>1, <3>1 DEF WholePages, OneStepAhead
    <2>2. CASE /\ next'.isEndReached = next.isEndReached
               /\ next'.products = next.products \o page
               /\ next'.currentPage = next.currentPage + 1
               /\ page # <<>>
      <3>1. next'.products = FirstN(InPages(next.currentPage + 1))
        BY <1>3, <2>2, NextPage DEF WholePages
      <3>2. InPages(next.currentPage) = next.currentPage * PageSize /\ Len(next.products) < Total
        BY <1>3, <2>2, FullPagesBefore
      <3> QED
        BY <1>1, <1>3, <2>2, <3>1, <3>2 DEF WholePages, OneStepAhead
    <2> QED
      BY <1>1, <2>1, <2>2, FinishStep
  <1> QED
    BY <1>1, <1>2, <1>4 DEF FreshInv, EffectFirst, SingleCall, CallHoldsList, AwaitsNextPage, WholePages

\* Every step preserves the invariant.
LEMMA NextFresh ==
    ASSUME ~CommitLag, IInv, FreshInv, [Next]_vars
    PROVE  FreshInv'
  <1>1. CASE MountEffect
    <2>1. /\ ~effectDone /\ effectDone' = TRUE /\ loadMoreProducts /\ UNCHANGED <<ui, failed>>
      BY <1>1 DEF MountEffect
    <2> QED
      BY <2>1, FreshLoad DEF FreshInv, EffectFirst
  <1>2. CASE EndReached
    <2>1. /\ effectDone /\ waiting = 0 /\ loadMoreProducts /\ UNCHANGED <<ui, effectDone, failed>>
      BY <1>2 DEF EndReached
    <2>2. effectDone' = TRUE
      BY <2>1 DEF IInv, TypeOK
    <2> QED
      BY <2>1, <2>2, FreshLoad
  <1>3. CASE Render
    <2>1. /\ ui' = next /\ effectDone /\ UNCHANGED <<next, call, effectDone>>
      BY <1>3 DEF Render
    <2> QED
      BY <2>1 DEF FreshInv, EffectFirst, SingleCall, CallHoldsList, AwaitsNextPage, WholePages, OneStepAhead
  <1>4. CASE ScrollAway \/ ScrollBack \/ UNCHANGED vars
    <2>1. UNCHANGED <<ui, next, waiting, call, effectDone, failed>>
      BY <1>4 DEF ScrollAway, ScrollBack, vars, stateVars
    <2> QED
      BY <2>1 DEF FreshInv, EffectFirst, SingleCall, CallHoldsList, AwaitsNextPage, WholePages, OneStepAhead
  <1>5. ASSUME NEW c \in Calls, Finish(c) PROVE FreshInv'
    BY <1>5, FreshFinish
  <1> QED
    BY <1>1, <1>2, <1>3, <1>4, <1>5 DEF Next

LEMMA FreshInvariance ==
    ASSUME ~CommitLag
    PROVE  Spec => []FreshInv
  <1>1. IInv /\ FreshInv /\ [Next]_vars => FreshInv'
    BY NextFresh
  <1> QED
    BY InitFresh, Invariance, <1>1, PTL DEF Spec

\* If callbacks see the latest state, two calls never overlap.
THEOREM OneCallAtATime ==
    ASSUME ~CommitLag
    PROVE  Spec => []SingleCall
  BY FreshInvariance, PTL DEF FreshInv

\* If callbacks see the latest state, the grid shows the first pages in order,
\* even if requests fail.
THEOREM PagesInOrder ==
    ASSUME ~CommitLag
    PROVE  Spec => []ShowsWholePages
  <1>1. FreshInv => ShowsWholePages
    BY DEF FreshInv, WholePages, ShowsWholePages
  <1> QED
    BY FreshInvariance, <1>1, PTL

\* If callbacks see the latest state, the React grid implements the abstract
\* paged feed, but for the end that a failed request declares.
THEOREM ReactImplementsFeed ==
    ASSUME ~CommitLag
    PROVE  Spec => ImplementsFeed
  <1> DEFINE ended == ui.isEndReached /\ ~failed
  <1>1. Init => Feed!FeedInit
    BY DEF Init, Feed!FeedInit
  <1>2. IInv /\ FreshInv /\ [Next]_vars => [Feed!FeedNext]_(Feed!feedVars)
    <2> SUFFICES ASSUME IInv, FreshInv, [Next]_vars PROVE [Feed!FeedNext]_(Feed!feedVars)
      OBVIOUS
    <2>1. CASE ui'.products = ui.products /\ ended' = ended
      BY <2>1 DEF Feed!feedVars
    <2>2. CASE Render
      <3>1. ui' = next /\ failed' = failed
        BY <2>2 DEF Render
      <3>2. CASE next.products = ui.products /\ next.isEndReached = ui.isEndReached
        BY <2>1, <3>1, <3>2
      <3>3. CASE /\ next.products = ui.products \o Slice(PageSize, Len(ui.products))
                 /\ Len(ui.products) < Total
                 /\ ~ui.isEndReached /\ ~next.isEndReached
        <4>1. Feed!Slice(PageSize, Len(ui.products)) = Slice(PageSize, Len(ui.products))
          BY DEF Feed!Slice, Slice, Feed!AtMost, AtMost, Feed!Remaining, Remaining
        <4> QED
          BY <3>1, <3>3, <4>1 DEF Feed!FeedNext, Feed!ShowNextPage
      <3>4. CASE /\ next.products = ui.products
                 /\ ~ui.isEndReached /\ next.isEndReached
                 /\ failed \/ Len(ui.products) = Total
        <4>1. CASE failed
          BY <2>1, <3>1, <3>4, <4>1
        <4>2. CASE ~failed
          BY <3>1, <3>4, <4>2 DEF Feed!FeedNext, Feed!DeclareEnd
        <4> QED
          BY <4>1, <4>2
      <3> QED
        BY <3>2, <3>3, <3>4 DEF FreshInv, OneStepAhead
    <2>3. ASSUME NEW c \in Calls, Finish(c) PROVE ui'.products = ui.products /\ ended' = ended
      BY <2>3 DEF Finish, FreshInv, CallHoldsList
    <2>4. MountEffect \/ EndReached \/ ScrollAway \/ ScrollBack \/ UNCHANGED vars
             => ui'.products = ui.products /\ ended' = ended
      BY DEF MountEffect, EndReached, ScrollAway, ScrollBack, vars, stateVars
    <2> QED
      BY <2>1, <2>2, <2>3, <2>4 DEF Next
  <1> QED
    BY <1>1, <1>2, Invariance, FreshInvariance, PTL DEF Spec, ImplementsFeed, Feed!FeedSpec

\* A failure is the answer to no request that cannot fail.
FailuresAreAllowed == failed => NetworkFails

\* An end that is declared is the end of the catalogue, or a failure has passed for it.
EndIsTrue(state) == state.isEndReached => failed \/ state.products = FirstN(Total)

EndInv == FailuresAreAllowed /\ EndIsTrue(ui) /\ EndIsTrue(next)

LEMMA NextEnd ==
    ASSUME IInv, FreshInv, EndInv, [Next]_vars
    PROVE  EndInv'
  <1>1. CASE MountEffect \/ EndReached
    <2>1. loadMoreProducts /\ UNCHANGED <<ui, failed>>
      BY <1>1 DEF MountEffect, EndReached
    <2>2. next'.products = next.products /\ next'.isEndReached = next.isEndReached
      BY <2>1, loadMoreStep
    <2> QED
      BY <2>1, <2>2 DEF EndInv, FailuresAreAllowed, EndIsTrue
  <1>2. CASE ScrollAway \/ ScrollBack \/ Render \/ UNCHANGED vars
    <2>1. UNCHANGED <<next, failed>> /\ ui' \in {ui, next}
      BY <1>2 DEF ScrollAway, ScrollBack, Render, vars, stateVars
    <2> QED
      BY <2>1 DEF EndInv, FailuresAreAllowed, EndIsTrue
  <1>3. ASSUME NEW c \in Calls, Finish(c) PROVE EndInv'
    <2>1. /\ UNCHANGED ui /\ ~ui.isEndReached /\ ~next.isEndReached
          /\ call[c].skip = next.currentPage * PageSize /\ next.currentPage \in Nat
          /\ next.products = FirstN(InPages(next.currentPage))
      BY <1>3 DEF Finish, FreshInv, CallHoldsList, AwaitsNextPage, WholePages, IInv, TypeOK, State
    <2>2. FailuresAreAllowed'
      BY <1>3 DEF Finish, Fetched, EndInv, FailuresAreAllowed
    <2>3. next'.isEndReached =>
             /\ next'.products = next.products
             /\ failed' \/ Slice(PageSize, next.currentPage * PageSize) = <<>>
      BY <1>3, <2>1, FinishStep
    <2>4. Slice(PageSize, next.currentPage * PageSize) = <<>> => next.products = FirstN(Total)
      BY <2>1, EmptyPageIsTheEnd
    <2> QED
      BY <2>1, <2>2, <2>3, <2>4 DEF EndInv, EndIsTrue
  <1> QED
    BY <1>1, <1>2, <1>3 DEF Next

LEMMA EndInvariance ==
    ASSUME ~CommitLag
    PROVE  Spec => []EndInv
  <1>1. Init => EndInv
    BY DEF Init, EndInv, FailuresAreAllowed, EndIsTrue
  <1>2. IInv /\ FreshInv /\ EndInv /\ [Next]_vars => EndInv'
    BY NextEnd
  <1> QED
    BY <1>1, <1>2, Invariance, FreshInvariance, PTL DEF Spec

\* If callbacks see the latest state, the list is declared complete only when it
\* is, or once a failed request has passed for an empty page.
THEOREM EndIsHonest ==
    ASSUME ~CommitLag
    PROVE  Spec => [](ui.isEndReached => failed \/ ui.products = FirstN(Total))
  <1>1. EndInv => (ui.isEndReached => failed \/ ui.products = FirstN(Total))
    BY DEF EndInv, EndIsTrue
  <1> QED
    BY EndInvariance, <1>1, PTL

\* RemoteImage.tsx:56 says "No more products to load".  That is true if callbacks
\* see the latest state and no request fails: the two ways in which the runs
\* refute it are all there are.
THEOREM EndMeansAllIfTold ==
    ASSUME ~CommitLag, ~NetworkFails
    PROVE  Spec => []EndMeansAll
  <1>1. EndInv => EndMeansAll
    BY DEF EndInv, EndIsTrue, FailuresAreAllowed, EndMeansAll
  <1> QED
    BY EndInvariance, <1>1, PTL

=============================================================================
