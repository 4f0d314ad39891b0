---------------------- MODULE ComposeProductGridProofs ----------------------
(***************************************************************************)
(* The safety properties of ComposeProductGrid, for every page size,       *)
(* catalogue, viewport and number of coroutines.                           *)
(*                                                                         *)
(* That no two calls of loadMoreProducts overlap rests on the order of the *)
(* dispatcher's queue: the collector that has launched a call is notified  *)
(* again only behind it (LoadBeforeLive), so that the call has raised      *)
(* isLoading when the collector looks at it for the next time.             *)
(***************************************************************************)
EXTENDS ComposeProductGrid, ProductApiProofs

-----------------------------------------------------------------------------
(* The queue of the dispatcher.                                            *)

Has(q, d)  == \E i \in DOMAIN q : q[i] = d
IsCall(d)  == d.kind \in {"load", "resume"}
HasCall(q) == \E i \in DOMAIN q : IsCall(q[i])
HasLoad(q) == \E i \in DOMAIN q : q[i].kind = "load"

\* At most one dispatch of a call, and one of the collector of composition n,
\* which comes after a call that is to begin; no later composition is queued.
OneCall(q)    == \A i, j \in DOMAIN q : IsCall(q[i]) /\ IsCall(q[j]) => i = j
OneLive(q, n) == \A i, j \in DOMAIN q : q[i] = Collect(n) /\ q[j] = Collect(n) => i = j
LoadBeforeLive(q, n) ==
    \A i, j \in DOMAIN q : q[i] = Collect(n) /\ q[j].kind = "load" => j < i
NoneLater(q, n) == \A i \in DOMAIN q : q[i].kind = "collect" => q[i].of <= n

QueueOK(q, n) == OneCall(q) /\ OneLive(q, n) /\ LoadBeforeLive(q, n) /\ NoneLater(q, n)

LEMMA Kinds ==
    /\ First.kind = "first"
    /\ \A c : Load(c).kind = "load" /\ Load(c).of = c
    /\ \A c : Resume(c).kind = "resume" /\ Resume(c).of = c
    /\ \A n : Collect(n).kind = "collect" /\ Collect(n).of = n
  BY DEF First, Load, Resume, Collect

LEMMA DispatchTypes ==
    /\ First \in Dispatches
    /\ \A c \in Coroutines : Load(c) \in Dispatches /\ Resume(c) \in Dispatches
    /\ \A n \in Nat : Collect(n) \in Dispatches
    /\ \A d \in Dispatches :
          /\ IsCall(d) => d.of \in Coroutines /\ d \in {Load(d.of), Resume(d.of)}
          /\ d.kind = "load" => d = Load(d.of) /\ d.of \in Coroutines
  BY DEF First, Load, Resume, Collect, Dispatches, IsCall

\* Taking the head off the queue.
LEMMA Pop ==
    ASSUME NEW q \in Seq(Dispatches), NEW n \in Nat, q # <<>>, QueueOK(q, n)
    PROVE  /\ Tail(q) \in Seq(Dispatches) /\ QueueOK(Tail(q), n)
           /\ \A d : Has(q, d) <=> d = Head(q) \/ Has(Tail(q), d)
           /\ IsCall(Head(q)) => ~HasCall(Tail(q))
           /\ Head(q) = Collect(n) => ~Has(Tail(q), Collect(n)) /\ ~HasLoad(q)
  <1> DEFINE t == Tail(q)
  <1>1. /\ t \in Seq(Dispatches) /\ Len(t) = Len(q) - 1 /\ Len(q) \in Nat \ {0}
        /\ DOMAIN t = 1..Len(t) /\ DOMAIN q = 1..Len(q) /\ Head(q) = q[1]
        /\ \A i \in DOMAIN t : t[i] = q[i + 1]
    BY HeadTailProperties, EmptySeq, LenProperties
  <1> HIDE DEF t
  <1>2. /\ 1 \in DOMAIN q /\ Head(q) = q[1]
        /\ \A i \in DOMAIN t : i \in Nat \ {0} /\ i + 1 \in DOMAIN q /\ t[i] = q[i + 1]
        /\ \A i \in DOMAIN q : i = 1 \/ (i - 1 \in DOMAIN t /\ q[i] = t[i - 1])
    BY <1>1
  <1>3. DOMAIN q \subseteq Nat \ {0} /\ DOMAIN t \subseteq Nat \ {0}
    BY <1>1
  <1>4. OneCall(t)
    <2> SUFFICES ASSUME NEW i \in DOMAIN t, NEW j \in DOMAIN t, IsCall(t[i]), IsCall(t[j])
                 PROVE  i = j
      BY DEF OneCall
    <2>1. i + 1 = j + 1
      BY <1>2 DEF QueueOK, OneCall
    <2> QED
      BY <2>1, <1>3
  <1>5. OneLive(t, n)
    <2> SUFFICES ASSUME NEW i \in DOMAIN t, NEW j \in DOMAIN t,
                        t[i] = Collect(n), t[j] = Collect(n)
                 PROVE  i = j
      BY DEF OneLive
    <2>1. i + 1 = j + 1
      BY <1>2 DEF QueueOK, OneLive
    <2> QED
      BY <2>1, <1>3
  <1>6. LoadBeforeLive(t, n)
    <2> SUFFICES ASSUME NEW i \in DOMAIN t, NEW j \in DOMAIN t,
                        t[i] = Collect(n), t[j].kind = "load"
                 PROVE  j < i
      BY DEF LoadBeforeLive
    <2>1. j + 1 < i + 1
      BY <1>2 DEF QueueOK, LoadBeforeLive
    <2> QED
      BY <2>1, <1>3
  <1>7. NoneLater(t, n)
    BY <1>2 DEF QueueOK, NoneLater
  <1>8. ASSUME NEW d PROVE Has(q, d) <=> d = Head(q) \/ Has(t, d)
    BY <1>2 DEF Has
  <1>9. IsCall(Head(q)) => ~HasCall(t)
    <2> SUFFICES ASSUME IsCall(q[1]), NEW i \in DOMAIN t, IsCall(t[i]) PROVE FALSE
      BY <1>2 DEF HasCall
    <2>1. 1 = i + 1
      BY <1>2 DEF QueueOK, OneCall
    <2> QED
      BY <2>1, <1>3
  <1>10. Head(q) = Collect(n) => ~Has(t, Collect(n))
    <2> SUFFICES ASSUME q[1] = Collect(n), NEW i \in DOMAIN t, t[i] = Collect(n) PROVE FALSE
      BY <1>2 DEF Has
    <2>1. 1 = i + 1
      BY <1>2 DEF QueueOK, OneLive
    <2> QED
      BY <2>1, <1>3
  <1>11. Head(q) = Collect(n) => ~HasLoad(q)
    <2> SUFFICES ASSUME q[1] = Collect(n), NEW j \in DOMAIN q, q[j].kind = "load" PROVE FALSE
      BY <1>2 DEF HasLoad
    <2>1. j < 1
      BY <1>2 DEF QueueOK, LoadBeforeLive
    <2> QED
      BY <2>1, <1>3
  <1> QED
    BY <1>1, <1>4, <1>5, <1>6, <1>7, <1>8, <1>9, <1>10, <1>11 DEF QueueOK, t

\* Putting a dispatch at the end of the queue.
LEMMA Push ==
    ASSUME NEW q \in Seq(Dispatches), NEW n \in Nat, NEW d \in Dispatches, QueueOK(q, n),
           IsCall(d) => ~HasCall(q),
           d = Collect(n) => ~Has(q, d),
           d.kind = "load" => ~Has(q, Collect(n)),
           d.kind = "collect" => d.of <= n
    PROVE  /\ Append(q, d) \in Seq(Dispatches) /\ QueueOK(Append(q, d), n)
           /\ \A e : Has(Append(q, d), e) <=> e = d \/ Has(q, e)
  <1> DEFINE a == Append(q, d)
  <1>1. /\ a \in Seq(Dispatches) /\ Len(a) = Len(q) + 1 /\ Len(q) \in Nat
        /\ DOMAIN a = 1..Len(a) /\ DOMAIN q = 1..Len(q) /\ a[Len(q) + 1] = d
        /\ \A i \in 1..Len(q) : a[i] = q[i]
    BY AppendProperties, LenProperties
  <1> HIDE DEF a
  <1>2. /\ Len(q) + 1 \in DOMAIN a /\ a[Len(q) + 1] = d
        /\ \A i \in DOMAIN q : i \in DOMAIN a /\ a[i] = q[i] /\ i < Len(q) + 1
        /\ \A i \in DOMAIN a : \/ i = Len(q) + 1 /\ a[i] = d
                               \/ i \in DOMAIN q /\ a[i] = q[i]
    BY <1>1
  <1>3. OneCall(a)
    BY <1>2 DEF QueueOK, OneCall, HasCall
  <1>4. OneLive(a, n)
    BY <1>2 DEF QueueOK, OneLive, Has
  <1>5. LoadBeforeLive(a, n)
    <2> SUFFICES ASSUME NEW i \in DOMAIN a, NEW j \in DOMAIN a,
                        a[i] = Collect(n), a[j].kind = "load"
                 PROVE  j < i
      BY DEF LoadBeforeLive
    <2>1. CASE i \in DOMAIN q /\ a[i] = q[i]
      <3>1. j # Len(q) + 1
        BY <1>2, <2>1 DEF Has
      <3> QED
        BY <1>2, <2>1, <3>1 DEF QueueOK, LoadBeforeLive
    <2>2. CASE i = Len(q) + 1 /\ a[i] = d
      <3>1. d.kind # "load"
        BY <2>2, Kinds
      <3> QED
        BY <1>2, <2>2, <3>1
    <2> QED
      BY <1>2, <2>1, <2>2
  <1>6. NoneLater(a, n)
    BY <1>2 DEF QueueOK, NoneLater
  <1>7. ASSUME NEW e PROVE Has(a, e) <=> e = d \/ Has(q, e)
    BY <1>2 DEF Has
  <1> QED
    BY <1>1, <1>3, <1>4, <1>5, <1>6, <1>7 DEF QueueOK, a

\* To the next composition every collector in the queue is a dead one.
LEMMA NextComposition ==
    ASSUME NEW q \in Seq(Dispatches), NEW n \in Nat, NEW m \in Nat, n < m, QueueOK(q, n)
    PROVE  QueueOK(q, m) /\ ~Has(q, Collect(m))
  <1>1. \A i \in DOMAIN q : q[i] # Collect(m)
    <2> SUFFICES ASSUME NEW i \in DOMAIN q, q[i] = Collect(m) PROVE FALSE
      OBVIOUS
    <2>1. m <= n
      BY Kinds DEF QueueOK, NoneLater
    <2> QED
      BY <2>1
  <1>2. OneLive(q, m) /\ LoadBeforeLive(q, m) /\ ~Has(q, Collect(m))
    BY <1>1 DEF OneLive, LoadBeforeLive, Has
  <1>3. NoneLater(q, m)
    <2> SUFFICES ASSUME NEW i \in DOMAIN q, q[i].kind = "collect" PROVE q[i].of <= m
      BY DEF NoneLater
    <2>1. q[i].of <= n /\ q[i].of \in Nat
      <3>1. q[i] \in Dispatches
        BY ElementOfSeq
      <3> QED
        BY <3>1 DEF QueueOK, NoneLater, Dispatches, First
    <2> QED
      BY <2>1
  <1> QED
    BY <1>2, <1>3 DEF QueueOK

-----------------------------------------------------------------------------
(* The invariant.                                                          *)

\* The first effect is in the queue in the initial state and never again.
FirstOnlyAtStart == Has(queue, First) => Init

\* What is queued for a call is what its phase says, so that a live collector
\* at the head of the queue finds no call that it cannot see by isLoading.
CallsMatch(q, l) ==
    \A c \in Coroutines : /\ Has(q, Load(c)) <=> l[c].phase = "queued"
                          /\ Has(q, Resume(c)) <=> l[c].phase \in {"answered", "failed"}

\* A call that is past its beginning asked for the page after those shown.
Begun == {"fetching", "answered", "failed"}
AwaitsNextPage ==
    \A c \in Coroutines : loader[c].phase \in Begun => loader[c].skip = ps.currentPage * PageSize

EndIsTotal == ps.isEndReached => InPages(ps.currentPage) = Total

\* The composition lags behind the list, never ahead of it.
CompositionLags == composed <= Len(ps.products)

\* Whatever is at the bottom has something on its way.
TriggerOnItsWay ==
    ~crashed /\ composed > 0 /\ lastVisible = composed /\ ~ps.isEndReached =>
        \/ Has(queue, Collect(composed))
        \/ \E c \in Coroutines : Active(c)
        \/ composed # Len(ps.products)

CallsOK == QueueOK(queue, composed) /\ CallsMatch(queue, loader) /\ SingleFlight /\ SpinnerShowsLoad
ListOK  == AwaitsNextPage /\ ShowsWholePages /\ EndIsTotal /\ CompositionLags

IInv == TypeOK /\ FirstOnlyAtStart /\ CallsOK /\ ListOK /\ TriggerOnItsWay

LEMMA Types ==
    ASSUME IInv
    PROVE  /\ ps \in PaginationState /\ queue \in Seq(Dispatches)
           /\ loader \in [Coroutines -> LoaderState]
           /\ composed \in Nat /\ lastVisible \in Nat /\ crashed \in BOOLEAN
           /\ ps.products \in Seq(Nat) /\ Len(ps.products) \in Nat /\ ps.currentPage \in Nat
           /\ ps.isLoading \in BOOLEAN /\ ps.isEndReached \in BOOLEAN
           /\ \A c \in Coroutines : loader[c].phase \in Begun \cup {"idle", "queued"}
  <1>1. ps.products \in Seq(Nat)
    BY DEF IInv, TypeOK, PaginationState
  <1> QED
    BY <1>1, LenProperties DEF IInv, TypeOK, PaginationState, LoaderState, Begun

\* A queue without a dispatch of a call, as CallsMatch sees it.
LEMMA NoCall ==
    ASSUME NEW q, ~HasCall(q), NEW c
    PROVE  ~Has(q, Load(c)) /\ ~Has(q, Resume(c))
  BY Kinds DEF HasCall, Has, IsCall

\* A queue that matches idle calls has no dispatch of one.
LEMMA IdleHasNoCall ==
    ASSUME NEW q \in Seq(Dispatches),
           \A c \in Coroutines : ~Has(q, Load(c)) /\ ~Has(q, Resume(c))
    PROVE  ~HasCall(q)
  <1> SUFFICES ASSUME NEW i \in DOMAIN q, IsCall(q[i]) PROVE FALSE
    BY DEF HasCall
  <1>1. q[i] \in Dispatches
    BY ElementOfSeq
  <1>2. q[i].of \in Coroutines /\ q[i] \in {Load(q[i].of), Resume(q[i].of)}
    BY <1>1, DispatchTypes
  <1>3. Has(q, Load(q[i].of)) \/ Has(q, Resume(q[i].of))
    BY <1>2 DEF Has
  <1> QED
    BY <1>2, <1>3

LEMMA InitIInv == Init => IInv
  <1> SUFFICES ASSUME Init PROVE IInv
    OBVIOUS
  <1>1. /\ queue = <<First, Collect(0)>> /\ queue \in Seq(Dispatches)
        /\ DOMAIN queue = {1, 2} /\ queue[1] = First /\ queue[2] = Collect(0)
    BY DispatchTypes DEF Init
  <1>2. /\ ps.products = <<>> /\ ps.currentPage = 0 /\ ~ps.isLoading /\ ~ps.isEndReached
        /\ composed = 0 /\ lastVisible = 0 /\ crashed = FALSE
        /\ loader = [c \in Coroutines |-> Idle]
    BY DEF Init
  <1>3. TypeOK
    <2>1. <<>> \in Seq(Nat)
      BY EmptySeq
    <2>2. ps \in PaginationState
      BY <2>1 DEF Init, PaginationState
    <2>3. Idle \in LoaderState
      BY DEF Idle, LoaderState
    <2> QED
      BY <1>1, <1>2, <2>2, <2>3 DEF TypeOK
  <1>4. QueueOK(queue, composed)
    BY <1>1, <1>2, Kinds DEF QueueOK, OneCall, OneLive, LoadBeforeLive, NoneLater, IsCall
  <1>5. CallsMatch(queue, loader) /\ SingleFlight /\ SpinnerShowsLoad /\ AwaitsNextPage
    <2>1. \A c \in Coroutines : ~Has(queue, Load(c)) /\ ~Has(queue, Resume(c))
      BY <1>1, Kinds DEF Has
    <2> QED
      BY <1>2, <2>1 DEF CallsMatch, SingleFlight, SpinnerShowsLoad, AwaitsNextPage, Active, Idle, Begun
  <1>6. ShowsWholePages
    <2>1. InPages(0) = 0
      BY InPagesBound, ApiAssumption DEF ApiAssumption
    <2>2. FirstN(0) = <<>>
      BY FirstNSeq, EmptySeq
    <2> QED
      BY <1>2, <2>1, <2>2 DEF ShowsWholePages
  <1>7. EndIsTotal /\ CompositionLags /\ TriggerOnItsWay
    BY <1>2 DEF EndIsTotal, CompositionLags, TriggerOnItsWay
  <1> QED
    BY <1>3, <1>4, <1>5, <1>6, <1>7 DEF IInv, CallsOK, ListOK, FirstOnlyAtStart

\* In the initial state nothing can happen but the first effect.
LEMMA OnlyFirstAtStart ==
    ASSUME Init
    PROVE  /\ \A c \in Coroutines : ~RunLoad(c) /\ ~RunResume(c) /\ ~Answer(c)
           /\ \A n \in Nat : ~RunCollect(n) /\ ~Layout(n)
           /\ ~Recompose
  <1>1. Head(queue) = First
    BY DEF Init
  <1>2. \A c \in Coroutines : loader[c].phase = "idle"
    BY DEF Init, Idle
  <1>3. composed = 0 /\ Len(ps.products) = 0
    BY DEF Init
  <1>4. \A c : First # Load(c) /\ First # Resume(c)
    BY Kinds
  <1>5. \A n : First # Collect(n)
    BY Kinds
  <1> QED
    BY <1>1, <1>2, <1>3, <1>4, <1>5
       DEF RunLoad, RunResume, Answer, RunCollect, Layout, Recompose, Running

-----------------------------------------------------------------------------
(* The steps.                                                              *)

\* A call begins, when no other exists and its dispatch is off the queue.
LEMMA BeginLoadStep ==
    ASSUME IInv, NEW c \in Coroutines, BeginLoad(c), ~crashed,
           UNCHANGED <<composed, lastVisible, crashed>>,
           \A d \in Coroutines : Active(d) => d = c,
           queue' \in Seq(Dispatches), QueueOK(queue', composed), ~HasCall(queue'),
           ~Has(queue', First)
    PROVE  IInv'
  <1> DEFINE new == [phase |-> "fetching", skip |-> ps.currentPage * PageSize]
  <1>1. /\ ps' = [ps EXCEPT !.isLoading = TRUE]
        /\ ps'.products = ps.products /\ ps'.currentPage = ps.currentPage
        /\ ps'.isLoading = TRUE /\ ps'.isEndReached = ps.isEndReached
        /\ ps' \in PaginationState
    BY Types DEF BeginLoad, PaginationState
  <1>2. new \in LoaderState
    BY Types, PageOffset DEF LoaderState
  <1>3. /\ loader' \in [Coroutines -> LoaderState]
        /\ \A d \in Coroutines : loader'[d] = IF d = c THEN new ELSE loader[d]
    BY <1>2, Types DEF BeginLoad
  <1>4. \A d \in Coroutines : d # c => loader'[d].phase = "idle"
    BY <1>3 DEF Active
  <1>5. loader'[c].phase = "fetching" /\ loader'[c].skip = ps.currentPage * PageSize
    BY <1>3
  <1>6. TypeOK'
    BY <1>1, <1>3, Types DEF TypeOK
  <1>7. CallsMatch(queue', loader')
    BY <1>4, <1>5, NoCall DEF CallsMatch
  <1>8. SingleFlight' /\ SpinnerShowsLoad'
    BY <1>1, <1>4, <1>5 DEF SingleFlight, SpinnerShowsLoad, Active
  <1>9. ListOK'
    BY <1>1, <1>4, <1>5
       DEF IInv, ListOK, AwaitsNextPage, Begun, ShowsWholePages, EndIsTotal, CompositionLags
  <1>10. TriggerOnItsWay'
    BY <1>5 DEF TriggerOnItsWay, Active
  <1> QED
    BY <1>6, <1>7, <1>8, <1>9, <1>10 DEF IInv, CallsOK, FirstOnlyAtStart

LEMMA RunFirstStep == IInv /\ RunFirst => IInv'
  <1> SUFFICES ASSUME IInv, RunFirst PROVE IInv'
    OBVIOUS
  <1>1. /\ queue # <<>> /\ Head(queue) = First /\ ~crashed /\ queue' = Tail(queue)
        /\ UNCHANGED <<composed, lastVisible, crashed>>
    BY DEF RunFirst, Running
  <1>2. Init
    BY <1>1, Types, Pop DEF IInv, CallsOK, FirstOnlyAtStart
  <1>3. /\ queue' \in Seq(Dispatches) /\ QueueOK(queue', composed)
        /\ queue' = <<Collect(0)>>
    <2>1. queue' \in Seq(Dispatches) /\ QueueOK(queue', composed)
      BY <1>1, Types, Pop DEF IInv, CallsOK
    <2>2. queue = <<First, Collect(0)>>
      BY <1>2 DEF Init
    <2>3. Tail(<<First, Collect(0)>>) = <<Collect(0)>>
      OBVIOUS
    <2> QED
      BY <1>1, <2>1, <2>2, <2>3
  <1>4. \A d : Has(queue', d) <=> d = Collect(0)
    BY <1>3 DEF Has
  <1>5. ~HasCall(queue') /\ ~Has(queue', First)
    BY <1>3, <1>4, Kinds DEF HasCall, IsCall
  <1>6. PICK c \in Coroutines : BeginLoad(c)
    BY <1>2 DEF RunFirst, Init
  <1>7. \A d \in Coroutines : ~Active(d)
    BY <1>2 DEF Init, Active, Idle
  <1> QED
    BY <1>1, <1>3, <1>5, <1>6, <1>7, BeginLoadStep

\* Any later step leaves the first effect behind.
LEMMA FirstIsGone ==
    ASSUME IInv,
           \/ \E c \in Coroutines : RunLoad(c) \/ RunResume(c) \/ Answer(c)
           \/ \E n \in Nat : RunCollect(n) \/ Layout(n)
           \/ Recompose
    PROVE  ~Has(queue, First)
  BY OnlyFirstAtStart DEF IInv, FirstOnlyAtStart

LEMMA RunLoadStep == ASSUME IInv, NEW c \in Coroutines, RunLoad(c) PROVE IInv'
  <1>1. /\ queue # <<>> /\ Head(queue) = Load(c) /\ ~crashed /\ queue' = Tail(queue)
        /\ UNCHANGED <<composed, lastVisible, crashed>> /\ BeginLoad(c)
    BY DEF RunLoad, Running
  <1>2. /\ queue' \in Seq(Dispatches) /\ QueueOK(queue', composed)
        /\ Has(queue, Load(c)) /\ ~HasCall(queue')
        /\ Has(queue', First) => Has(queue, First)
    BY <1>1, Types, Pop, Kinds DEF IInv, CallsOK, IsCall
  <1>3. ~Has(queue', First)
    BY <1>2, FirstIsGone
  <1>4. \A d \in Coroutines : Active(d) => d = c
    BY <1>2 DEF IInv, CallsOK, CallsMatch, SingleFlight, Active
  <1> QED
    BY <1>1, <1>2, <1>3, <1>4, BeginLoadStep

\* The page that arrives is the next one, or it is empty and everything is shown.
LEMMA WithPageStep ==
    ASSUME IInv, ps' = WithPage(Slice(PageSize, ps.currentPage * PageSize))
    PROVE  /\ ps' \in PaginationState /\ ~ps'.isLoading
           /\ ShowsWholePages' /\ EndIsTotal'
           /\ \/ /\ ps'.products = ps.products
                 /\ ps'.isEndReached /\ InPages(ps.currentPage) = Total
              \/ /\ ps'.products = ps.products \o Slice(PageSize, Len(ps.products))
                 /\ Len(ps.products) < Total /\ Len(ps'.products) > Len(ps.products)
                 /\ ps'.isEndReached = ps.isEndReached /\ ~ps.isEndReached
  <1> DEFINE page == Slice(PageSize, ps.currentPage * PageSize)
  <1>1. /\ ps'.products = ps.products \o page /\ ps'.currentPage = ps.currentPage + 1
        /\ ps'.isLoading = FALSE /\ ps'.isEndReached = (page = <<>>)
    BY DEF WithPage
  <1>2. /\ ps.currentPage \in Nat /\ ps.products \in Seq(Nat) /\ ps.isEndReached \in BOOLEAN
        /\ ps.products = FirstN(InPages(ps.currentPage))
    BY Types DEF IInv, ListOK, ShowsWholePages
  <1>3. ps'.products = FirstN(InPages(ps.currentPage + 1))
    BY <1>1, <1>2, NextPage
  <1>4. /\ InPages(ps.currentPage) \in Nat /\ InPages(ps.currentPage + 1) \in Nat
        /\ ps.currentPage + 1 \in Nat
    <2>1. ps.currentPage + 1 \in Nat
      BY <1>2
    <2> QED
      BY <1>2, <2>1, InPagesBound
  <1>5. ps'.products \in Seq(Nat)
    BY <1>3, <1>4, FirstNSeq
  <1>6. ps' \in PaginationState
    BY <1>1, <1>4, <1>5 DEF PaginationState, WithPage
  <1>7. ShowsWholePages'
    BY <1>1, <1>3 DEF ShowsWholePages
  <1>8. CASE page = <<>>
    <2>1. InPages(ps.currentPage) = Total
      BY <1>2, <1>8, EmptyPageIsTheEnd
    <2>2. ps'.products = ps.products
      BY <1>1, <1>2, <1>8, ConcatEmptySeq
    <2>3. InPages(ps.currentPage + 1) = Total
      <3>1. InPages(ps.currentPage) = InPages(ps.currentPage + 1)
        BY <1>2, <1>3, <1>4, <2>2, FirstNInjective
      <3> QED
        BY <2>1, <3>1
    <2>4. ps'.isEndReached = TRUE
      BY <1>1, <1>8
    <2> QED
      BY <1>1, <1>6, <1>7, <2>1, <2>2, <2>3, <2>4 DEF EndIsTotal
  <1>9. CASE page # <<>>
    <2>1. /\ InPages(ps.currentPage) = ps.currentPage * PageSize
          /\ InPages(ps.currentPage) < Total
      BY <1>2, <1>9, FullPagesBefore
    <2>2. ~ps.isEndReached /\ ps'.isEndReached = FALSE
      <3>1. InPages(ps.currentPage) # Total
        BY <1>4, <2>1, ApiAssumption DEF ApiAssumption
      <3>2. ~ps.isEndReached
        BY <3>1 DEF IInv, ListOK, EndIsTotal
      <3> QED
        BY <1>1, <1>9, <3>2
    <2>3. Len(ps.products) = InPages(ps.currentPage)
      BY <1>2, <1>4, FirstNSeq
    <2>4. page \in Seq(Nat) /\ Len(page) \in Nat \ {0}
      <3>1. page \in Seq(Nat)
        BY <1>2, PageOffset, SliceSeq
      <3> QED
        BY <3>1, <1>9, EmptySeq
    <2>5. Len(ps'.products) = Len(ps.products) + Len(page)
      <3> HIDE DEF page
      <3>1. ps.products \in Seq(Nat) /\ page \in Seq(Nat)
        BY <1>2, <2>4
      <3>2. Len(ps.products \o page) = Len(ps.products) + Len(page)
        BY <3>1, ConcatProperties
      <3> QED
        BY <1>1, <3>2
    <2>6. Len(ps'.products) > Len(ps.products)
      BY <1>4, <2>3, <2>4, <2>5
    <2>7. ps'.products = ps.products \o Slice(PageSize, Len(ps.products))
      BY <1>1, <2>1, <2>3
    <2> QED
      BY <1>1, <1>2, <1>6, <1>7, <2>1, <2>2, <2>3, <2>6, <2>7 DEF EndIsTotal
  <1> QED
    BY <1>8, <1>9

LEMMA RunResumeStep == ASSUME IInv, NEW c \in Coroutines, RunResume(c) PROVE IInv'
  <1>1. /\ queue # <<>> /\ Head(queue) = Resume(c) /\ ~crashed /\ queue' = Tail(queue)
        /\ UNCHANGED <<composed, lastVisible>> /\ EndLoad(c)
    BY DEF RunResume, Running
  <1>2. /\ queue' \in Seq(Dispatches) /\ QueueOK(queue', composed)
        /\ Has(queue, Resume(c)) /\ ~HasCall(queue')
        /\ Has(queue', First) => Has(queue, First)
    BY <1>1, Types, Pop, Kinds DEF IInv, CallsOK, IsCall
  <1>3. ~Has(queue', First)
    BY <1>2, FirstIsGone
  <1>4. loader[c].phase \in {"answered", "failed"} /\ Active(c)
    BY <1>2 DEF IInv, CallsOK, CallsMatch, Active
  <1>5. \A d \in Coroutines : d # c => loader[d].phase = "idle"
    BY <1>4 DEF IInv, CallsOK, SingleFlight, Active
  <1>6. /\ loader' \in [Coroutines -> LoaderState]
        /\ \A d \in Coroutines : loader'[d].phase = "idle"
    <2>1. Idle \in LoaderState /\ Idle.phase = "idle"
      BY DEF Idle, LoaderState
    <2> QED
      BY <1>1, <1>5, <2>1, Types DEF EndLoad
  <1>7. CallsMatch(queue', loader') /\ SingleFlight' /\ AwaitsNextPage'
    BY <1>2, <1>6, NoCall DEF CallsMatch, SingleFlight, AwaitsNextPage, Active, Begun
  <1>8. CASE loader[c].phase = "answered"
    <2>1. ps' = WithPage(Slice(PageSize, ps.currentPage * PageSize)) /\ crashed' = crashed
      BY <1>1, <1>4, <1>8 DEF EndLoad, getProducts, IInv, ListOK, AwaitsNextPage, Begun
    <2>2. /\ ps' \in PaginationState /\ ~ps'.isLoading /\ ShowsWholePages' /\ EndIsTotal'
          /\ \/ ps'.products = ps.products /\ ps'.isEndReached
             \/ Len(ps'.products) > Len(ps.products)
      BY <2>1, WithPageStep
    <2>3. TypeOK'
      BY <1>1, <1>2, <1>6, <2>1, <2>2, Types DEF TypeOK
    <2>4. SpinnerShowsLoad'
      BY <1>6, <2>2 DEF SpinnerShowsLoad
    <2>5. ps'.products \in Seq(Nat) /\ Len(ps'.products) \in Nat
      BY <2>2, LenProperties DEF PaginationState
    <2>6. CompositionLags'
      BY <1>1, <2>2, <2>5, Types DEF IInv, ListOK, CompositionLags
    <2>7. TriggerOnItsWay'
      <3>1. composed <= Len(ps.products)
        BY DEF IInv, ListOK, CompositionLags
      <3>2. ps'.isEndReached \/ composed # Len(ps'.products)
        BY <2>2, <2>5, <3>1, Types
      <3> QED
        BY <1>1, <3>2 DEF TriggerOnItsWay
    <2> QED
      BY <1>1, <1>2, <1>3, <1>7, <2>2, <2>3, <2>4, <2>6, <2>7
         DEF IInv, CallsOK, ListOK, FirstOnlyAtStart
  <1>9. CASE loader[c].phase = "failed"
    <2>1. ps' = ps /\ crashed' = TRUE
      BY <1>1, <1>9 DEF EndLoad
    <2>2. TypeOK'
      BY <1>1, <1>2, <1>6, <2>1, Types DEF TypeOK
    <2> QED
      BY <1>1, <1>2, <1>3, <1>7, <2>1, <2>2
         DEF IInv, CallsOK, ListOK, FirstOnlyAtStart, SpinnerShowsLoad, TriggerOnItsWay,
             ShowsWholePages, EndIsTotal, CompositionLags
  <1> QED
    BY <1>4, <1>8, <1>9

LEMMA RunCollectStep == ASSUME IInv, NEW n \in Nat, RunCollect(n) PROVE IInv'
  <1>1. /\ queue # <<>> /\ Head(queue) = Collect(n) /\ ~crashed
        /\ UNCHANGED <<ps, composed, lastVisible, crashed>>
    BY DEF RunCollect, Running
  <1>2. /\ Tail(queue) \in Seq(Dispatches) /\ QueueOK(Tail(queue), composed)
        /\ \A d : Has(queue, d) <=> d = Collect(n) \/ Has(Tail(queue), d)
        /\ n = composed => ~Has(Tail(queue), Collect(composed)) /\ ~HasLoad(queue)
    BY <1>1, Types, Pop DEF IInv, CallsOK
  <1>3. ~Has(Tail(queue), First)
    BY <1>2, FirstIsGone
  <1>4. CallsMatch(Tail(queue), loader)
    BY <1>2, Kinds DEF IInv, CallsOK, CallsMatch
  <1>5. CASE UNCHANGED loader /\ queue' = Tail(queue)
             /\ (n # composed \/ ~AtBottom(n) \/ ~MayLoad)
    <2>1. TypeOK' /\ FirstOnlyAtStart' /\ CallsOK' /\ ListOK'
      BY <1>1, <1>2, <1>3, <1>4, <1>5
         DEF IInv, TypeOK, FirstOnlyAtStart, CallsOK, SingleFlight, SpinnerShowsLoad, Active,
             ListOK, AwaitsNextPage, ShowsWholePages, EndIsTotal, CompositionLags
    <2>2. TriggerOnItsWay'
      <3>1. CASE n # composed
        <4>1. Has(queue', Collect(composed)) <=> Has(queue, Collect(composed))
          BY <1>2, <1>5, <3>1, Kinds
        <4> QED
          BY <1>1, <1>5, <4>1 DEF IInv, TriggerOnItsWay, Active
      <3>2. CASE n = composed /\ ~AtBottom(n)
        BY <1>1, <3>2, Types DEF AtBottom, TriggerOnItsWay
      <3>3. CASE ~MayLoad
        <4>1. ps.isEndReached \/ \E c \in Coroutines : Active(c)
          BY <1>1, <3>3 DEF MayLoad, IInv, CallsOK, SpinnerShowsLoad, Active
        <4> QED
          BY <1>1, <1>5, <4>1 DEF TriggerOnItsWay, Active
      <3> QED
        BY <1>5, <3>1, <3>2, <3>3
    <2> QED
      BY <2>1, <2>2 DEF IInv
  <1>6. ASSUME n = composed, MayLoad, NEW c \in Coroutines, ~Active(c),
               loader' = [loader EXCEPT ![c].phase = "queued"],
               queue' = Append(Tail(queue), Load(c))
        PROVE  IInv'
    <2>1. \A d \in Coroutines : ~Has(queue, Load(d))
      BY <1>2, <1>6, Kinds DEF Has, HasLoad
    <2>2. \A d \in Coroutines : loader[d].phase = "idle"
      BY <1>1, <1>6, <2>1, Types
         DEF MayLoad, IInv, CallsOK, CallsMatch, SpinnerShowsLoad, Begun
    <2>3. ~HasCall(Tail(queue))
      BY <1>2, <1>4, <2>2, IdleHasNoCall DEF CallsMatch
    <2>4. /\ Load(c) \in Dispatches /\ IsCall(Load(c))
          /\ Load(c).kind = "load" /\ Load(c) # Collect(composed) /\ Load(c) # First
      BY DispatchTypes, Kinds DEF IsCall
    <2>5. /\ queue' \in Seq(Dispatches) /\ QueueOK(queue', composed)
          /\ \A d : Has(queue', d) <=> d = Load(c) \/ Has(Tail(queue), d)
      BY <1>2, <1>6, <2>3, <2>4, Push, Types
    <2>6. /\ loader' \in [Coroutines -> LoaderState]
          /\ loader'[c].phase = "queued"
          /\ \A d \in Coroutines : d # c => loader'[d] = loader[d]
      BY <1>6, Types DEF LoaderState
    <2>7. TypeOK' /\ FirstOnlyAtStart'
      BY <1>1, <1>3, <2>4, <2>5, <2>6, Types DEF TypeOK, FirstOnlyAtStart
    <2>8. CallsMatch(queue', loader')
      <3>1. \A d \in Coroutines : /\ Has(queue', Load(d)) <=> d = c
                                  /\ ~Has(queue', Resume(d))
        BY <1>4, <2>2, <2>5, Kinds DEF CallsMatch
      <3> QED
        BY <2>2, <2>6, <3>1 DEF CallsMatch
    <2>9. SingleFlight' /\ SpinnerShowsLoad'
      BY <1>1, <1>6, <2>2, <2>6 DEF SingleFlight, SpinnerShowsLoad, Active, MayLoad
    <2>10. ListOK'
      BY <1>1, <2>2, <2>6
         DEF IInv, ListOK, AwaitsNextPage, Begun, ShowsWholePages, EndIsTotal, CompositionLags
    <2>11. TriggerOnItsWay'
      BY <2>6 DEF TriggerOnItsWay, Active
    <2> QED
      BY <1>1, <2>5, <2>7, <2>8, <2>9, <2>10, <2>11 DEF IInv, CallsOK
  <1> QED
    BY <1>5, <1>6 DEF RunCollect, onScrollToEnd

LEMMA AnswerStep == ASSUME IInv, NEW c \in Coroutines, Answer(c) PROVE IInv'
  <1>1. /\ loader[c].phase = "fetching" /\ queue' = Append(queue, Resume(c))
        /\ UNCHANGED <<ps, composed, lastVisible, crashed>>
    BY DEF Answer
  <1>2. PICK outcome \in {"answered", "failed"} :
            loader' = [loader EXCEPT ![c].phase = outcome]
    BY DEF Answer
  <1>3. /\ loader' \in [Coroutines -> LoaderState]
        /\ loader'[c].phase = outcome /\ loader'[c].skip = loader[c].skip
        /\ \A d \in Coroutines : d # c => loader'[d] = loader[d]
    BY <1>2, Types DEF LoaderState
  <1>4. \A d \in Coroutines : d # c => loader[d].phase = "idle"
    BY <1>1 DEF IInv, CallsOK, SingleFlight, Active
  <1>5. \A d \in Coroutines : ~Has(queue, Load(d)) /\ ~Has(queue, Resume(d))
    BY <1>1, <1>4 DEF IInv, CallsOK, CallsMatch
  <1>6. ~HasCall(queue)
    BY <1>5, Types, IdleHasNoCall
  <1>7. /\ Resume(c) \in Dispatches /\ Resume(c).kind = "resume" /\ Resume(c) # First
        /\ Resume(c) # Collect(composed)
    BY DispatchTypes, Kinds
  <1>8. /\ queue' \in Seq(Dispatches) /\ QueueOK(queue', composed)
        /\ \A d : Has(queue', d) <=> d = Resume(c) \/ Has(queue, d)
    BY <1>1, <1>6, <1>7, Push, Types DEF IInv, CallsOK
  <1>9. TypeOK' /\ FirstOnlyAtStart'
    <2>1. ~Has(queue, First)
      BY FirstIsGone
    <2> QED
      BY <1>1, <1>3, <1>7, <1>8, <2>1, Types DEF TypeOK, FirstOnlyAtStart
  <1>10. CallsMatch(queue', loader')
    <2>1. \A d \in Coroutines : /\ Has(queue', Resume(d)) <=> d = c
                                /\ ~Has(queue', Load(d))
      BY <1>5, <1>8, Kinds
    <2> QED
      BY <1>3, <1>4, <2>1 DEF CallsMatch
  <1>11. SingleFlight' /\ SpinnerShowsLoad'
    BY <1>1, <1>3, <1>4 DEF IInv, CallsOK, SingleFlight, SpinnerShowsLoad, Active
  <1>12. ListOK'
    BY <1>1, <1>3
       DEF IInv, ListOK, AwaitsNextPage, Begun, ShowsWholePages, EndIsTotal, CompositionLags
  <1>13. TriggerOnItsWay'
    BY <1>3 DEF TriggerOnItsWay, Active
  <1> QED
    BY <1>1, <1>8, <1>9, <1>10, <1>11, <1>12, <1>13 DEF IInv, CallsOK

\* What a notified collector changes: only the queue, by itself.
LEMMA CollectorQueued ==
    ASSUME IInv, NEW n \in Nat, composed' = n, ~Has(queue, First),
           UNCHANGED <<ps, loader, crashed>>, lastVisible' \in Nat, n <= Len(ps.products),
           QueueOK(queue, n), ~Has(queue, Collect(n)), queue' = Append(queue, Collect(n))
    PROVE  IInv'
  <1>1. /\ Collect(n) \in Dispatches /\ ~IsCall(Collect(n)) /\ Collect(n).kind = "collect"
        /\ Collect(n).of = n /\ Collect(n) # First
    BY DispatchTypes, Kinds DEF IsCall
  <1>2. /\ queue' \in Seq(Dispatches) /\ QueueOK(queue', n)
        /\ \A d : Has(queue', d) <=> d = Collect(n) \/ Has(queue, d)
    BY <1>1, Push, Types
  <1>3. CallsMatch(queue', loader')
    BY <1>2, Kinds DEF IInv, CallsOK, CallsMatch
  <1>4. TypeOK' /\ FirstOnlyAtStart' /\ TriggerOnItsWay'
    BY <1>1, <1>2, Types DEF TypeOK, FirstOnlyAtStart, TriggerOnItsWay
  <1>5. SingleFlight' /\ SpinnerShowsLoad' /\ ListOK'
    BY DEF IInv, CallsOK, SingleFlight, SpinnerShowsLoad, Active,
           ListOK, AwaitsNextPage, ShowsWholePages, EndIsTotal, CompositionLags
  <1> QED
    BY <1>2, <1>3, <1>4, <1>5 DEF IInv, CallsOK

LEMMA RecomposeStep == IInv /\ Recompose => IInv'
  <1> SUFFICES ASSUME IInv, Recompose PROVE IInv'
    OBVIOUS
  <1> DEFINE n == Len(ps.products)
  <1>1. /\ composed # n /\ composed' = n /\ queue' = Append(queue, Collect(n))
        /\ UNCHANGED <<ps, loader, lastVisible, crashed>>
    BY DEF Recompose
  <1>2. composed < n /\ n \in Nat
    BY <1>1, Types DEF IInv, ListOK, CompositionLags
  <1>3. QueueOK(queue, n) /\ ~Has(queue, Collect(n))
    BY <1>2, Types, NextComposition DEF IInv, CallsOK
  <1>4. ~Has(queue, First)
    BY FirstIsGone
  <1> QED
    BY <1>1, <1>2, <1>3, <1>4, Types, CollectorQueued

LEMMA LayoutStep == ASSUME IInv, NEW last \in Nat, Layout(last) PROVE IInv'
  <1>1. /\ composed' = composed /\ UNCHANGED <<ps, loader, crashed>>
        /\ lastVisible' = last /\ NotifyCollector
    BY DEF Layout
  <1>2. ~Has(queue, First)
    BY FirstIsGone
  <1>3. CASE Has(queue, Collect(composed))
    <2>1. queue' = queue
      BY <1>1, <1>3 DEF NotifyCollector, Has
    <2>2. TypeOK' /\ FirstOnlyAtStart' /\ TriggerOnItsWay'
      BY <1>1, <1>2, <1>3, <2>1, Types DEF TypeOK, FirstOnlyAtStart, TriggerOnItsWay
    <2> QED
      BY <1>1, <2>1, <2>2
         DEF IInv, CallsOK, SingleFlight, SpinnerShowsLoad, Active,
             ListOK, AwaitsNextPage, ShowsWholePages, EndIsTotal, CompositionLags
  <1>4. CASE ~Has(queue, Collect(composed))
    <2>1. queue' = Append(queue, Collect(composed))
      BY <1>1, <1>4 DEF NotifyCollector, Has
    <2>2. QueueOK(queue, composed) /\ composed <= Len(ps.products)
      BY DEF IInv, CallsOK, ListOK, CompositionLags
    <2> QED
      BY <1>1, <1>2, <1>4, <2>1, <2>2, Types, CollectorQueued
  <1> QED
    BY <1>3, <1>4

LEMMA NextIInv == IInv /\ [Next]_vars => IInv'
  <1> SUFFICES ASSUME IInv, [Next]_vars PROVE IInv'
    OBVIOUS
  <1>1. 0..composed \subseteq Nat /\ 1..composed \subseteq Nat
    BY Types
  <1>2. CASE Dispatch
    BY <1>1, <1>2, RunFirstStep, RunLoadStep, RunResumeStep, RunCollectStep DEF Dispatch
  <1>3. CASE UNCHANGED vars
    BY <1>3 DEF vars, IInv, TypeOK, FirstOnlyAtStart, Init, CallsOK, SingleFlight,
                SpinnerShowsLoad, Active, ListOK, AwaitsNextPage, ShowsWholePages,
                EndIsTotal, CompositionLags, TriggerOnItsWay
  <1> QED
    BY <1>1, <1>2, <1>3, AnswerStep, RecomposeStep, LayoutStep DEF Next

LEMMA Invariance == Spec => []IInv
  BY InitIInv, NextIInv, PTL DEF Spec

-----------------------------------------------------------------------------
(* The theorems.                                                           *)

\* Every variable of the grid stays in its type.
THEOREM TypeCorrect == Spec => []TypeOK
  BY Invariance, PTL DEF IInv

\* Two calls of loadMoreProducts never exist together, although isLoading goes
\* up only when a call that was launched is dispatched.
THEOREM OneCallAtATime == Spec => []SingleFlight
  BY Invariance, PTL DEF IInv, CallsOK

\* Until a crash, isLoading is up exactly while a call has begun.
THEOREM SpinnerIsHonest == Spec => []SpinnerShowsLoad
  BY Invariance, PTL DEF IInv, CallsOK

\* The grid shows whole pages of the catalogue in order, without gap or repeat.
THEOREM PagesInOrder == Spec => []ShowsWholePages
  BY Invariance, PTL DEF IInv, ListOK

\* The list is declared complete only when it shows the whole catalogue.
THEOREM EndIsHonest == Spec => []EndMeansAll
  <1>1. IInv => EndMeansAll
    BY DEF IInv, ListOK, EndIsTotal, ShowsWholePages, EndMeansAll
  <1> QED
    BY <1>1, Invariance, PTL

\* A grid at rest with its last item on screen is complete.
THEOREM NoTriggerLost == Spec => []NoLostTrigger
  <1>1. IInv => NoLostTrigger
    <2> SUFFICES ASSUME IInv, Quiet, composed > 0, lastVisible = composed, ~ps.isEndReached
                 PROVE  FALSE
      BY Types DEF NoLostTrigger
    <2>1. Has(queue, Collect(composed))
      BY DEF IInv, TriggerOnItsWay, Quiet
    <2> QED
      BY <2>1 DEF Has, Quiet
  <1> QED
    BY <1>1, Invariance, PTL

\* The Compose grid implements the abstract paged feed.
THEOREM ComposeImplementsFeed == Spec => ImplementsFeed
  <1>1. Init => Feed!FeedInit
    BY DEF Init, Feed!FeedInit
  <1>2. IInv /\ [Next]_vars => [Feed!FeedNext]_(Feed!feedVars)
    <2> SUFFICES ASSUME IInv, [Next]_vars PROVE [Feed!FeedNext]_(Feed!feedVars)
      OBVIOUS
    <2>1. CASE ps'.products = ps.products /\ ps'.isEndReached = ps.isEndReached
      BY <2>1 DEF Feed!feedVars
    <2>2. CASE ps' = WithPage(Slice(PageSize, ps.currentPage * PageSize))
      <3>1. CASE ps'.products = ps.products /\ ps'.isEndReached /\ InPages(ps.currentPage) = Total
        <4>1. Len(ps.products) = Total
          BY <3>1, FirstNSeq, ApiAssumption DEF IInv, ListOK, ShowsWholePages, ApiAssumption
        <4>2. ps.isEndReached \in BOOLEAN /\ ps'.isEndReached = TRUE
          BY <2>2, <3>1, Types, WithPageStep DEF PaginationState
        <4> QED
          BY <3>1, <4>1, <4>2 DEF Feed!FeedNext, Feed!DeclareEnd, Feed!feedVars
      <3>2. CASE /\ ps'.products = ps.products \o Slice(PageSize, Len(ps.products))
                 /\ Len(ps.products) < Total
                 /\ ps'.isEndReached = ps.isEndReached /\ ~ps.isEndReached
        BY <3>2 DEF Feed!FeedNext, Feed!ShowNextPage, Feed!Slice, Slice, Feed!AtMost, AtMost,
                    Feed!Remaining, Remaining
      <3> QED
        BY <2>2, <3>1, <3>2, WithPageStep
    <2>3. ASSUME NEW c \in Coroutines, BeginLoad(c)
          PROVE  ps'.products = ps.products /\ ps'.isEndReached = ps.isEndReached
      BY <2>3, Types DEF BeginLoad, PaginationState
    <2>4. ASSUME NEW c \in Coroutines, RunResume(c)
          PROVE  ps' = ps \/ ps' = WithPage(Slice(PageSize, ps.currentPage * PageSize))
      <3>1. EndLoad(c)
        BY <2>4 DEF RunResume
      <3>2. loader[c].phase = "answered" => loader[c].skip = ps.currentPage * PageSize
        BY DEF IInv, ListOK, AwaitsNextPage, Begun
      <3> QED
        BY <3>1, <3>2 DEF EndLoad, getProducts
    <2>5. \/ ps' = ps
          \/ \E c \in Coroutines : BeginLoad(c) \/ RunResume(c)
      BY DEF Next, Dispatch, RunFirst, RunLoad, RunCollect, Answer, Recompose, Layout, vars
    <2> QED
      BY <2>1, <2>2, <2>3, <2>4, <2>5
  <1> QED
    BY <1>1, <1>2, Invariance, PTL DEF Spec, ImplementsFeed, Feed!FeedSpec

=============================================================================
