------------------------- MODULE ReactCounterProofs -------------------------
(***************************************************************************)
(* Theorems about the React Native counter, for any number of screens and  *)
(* of Counters: about its intervals and renders (ReactCounter), and about  *)
(* its reducer beside those of the other stacks (RateWindow).              *)
(*                                                                         *)
(* CountsOnceOnScreen is not inductive: that a new interval is the only    *)
(* one, and that a clean-up leaves none, rests on the effect having run    *)
(* exactly where an interval is (OneTimerPerEffect).                       *)
(***************************************************************************)
EXTENDS ReactCounter, RateWindow, FiniteSetTheorems, TLAPS

\* An effect has run only in a component that is mounted.
StartedOnScreen == \A c \in started : ScreenOf(c) \in mounted

\* An interval runs for each effect that has run, and no other.
OneTimerPerEffect == \A c \in Counters : timers[c] = IF c \in started THEN 1 ELSE 0

\* What is drawn was in the store once.
DrawnIsPast == \A c \in Counters : drawn[c] <= store

IInv == /\ TypeOK
        /\ StartedOnScreen
        /\ OneTimerPerEffect
        /\ DrawnIsPast

LEMMA CountersHaveScreens == \A c \in Counters : ScreenOf(c) \in Screens
  BY DEF Counters, ScreenOf

\* No screen is mounted at first, and nothing counts.
LEMMA InitIInv == Init => IInv
  BY ReactCounterAssumption
     DEF Init, IInv, TypeOK, StartedOnScreen, OneTimerPerEffect, DrawnIsPast,
         ReactCounterAssumption

\* Every action preserves the invariant.
LEMMA NextIInv == IInv /\ [Next]_vars => IInv'
  <1> SUFFICES ASSUME IInv, [Next]_vars PROVE IInv'
    OBVIOUS
  <1>T. /\ store \in 0..MaxCount
        /\ mounted \subseteq Screens /\ started \subseteq Counters
        /\ timers \in [Counters -> Nat]
        /\ drawn \in [Counters -> 0..MaxCount]
        /\ MaxCount \in Nat
    BY ReactCounterAssumption DEF IInv, TypeOK, ReactCounterAssumption
  <1>1. ASSUME NEW s \in Screens, Mount(s) PROVE IInv'
    <2>1. TypeOK'
      BY <1>T, <1>1 DEF Mount, TypeOK
    <2>2. DrawnIsPast'
      BY <1>T, <1>1 DEF Mount, IInv, DrawnIsPast
    <2> QED
      BY <1>1, <2>1, <2>2 DEF Mount, IInv, StartedOnScreen, OneTimerPerEffect
  <1>2. ASSUME NEW s \in Screens, Unmount(s) PROVE IInv'
    <2>1. /\ started' = {c \in started : ScreenOf(c) # s}
          /\ mounted' = mounted \ {s} /\ UNCHANGED <<store, drawn>>
          /\ timers' = [c \in Counters |-> IF ScreenOf(c) = s THEN Cleared(c) ELSE timers[c]]
      BY <1>2 DEF Unmount
    <2>2. \A c \in Counters : Cleared(c) = 0
      BY <1>T DEF IInv, OneTimerPerEffect, Cleared
    <2>3. \A c \in Counters : timers'[c] = IF ScreenOf(c) = s THEN 0 ELSE timers[c]
      BY <2>1, <2>2
    <2>4. OneTimerPerEffect'
      BY <1>T, <2>1, <2>3 DEF IInv, OneTimerPerEffect
    <2>5. timers' \in [Counters -> Nat]
      BY <1>T, <2>1, <2>2
    <2>6. TypeOK' /\ StartedOnScreen' /\ DrawnIsPast'
      BY <1>T, <2>1, <2>5 DEF IInv, TypeOK, StartedOnScreen, DrawnIsPast
    <2> QED
      BY <2>4, <2>6 DEF IInv
  <1>3. ASSUME NEW c \in Counters, StartInterval(c) PROVE IInv'
    <2>1. /\ c \notin started /\ started' = started \cup {c} /\ ScreenOf(c) \in mounted
          /\ timers' = [timers EXCEPT ![c] = @ + 1]
          /\ UNCHANGED <<store, mounted, drawn>>
      BY <1>3 DEF StartInterval
    <2>2. OneTimerPerEffect'
      BY <1>T, <2>1 DEF IInv, OneTimerPerEffect
    <2>3. TypeOK' /\ StartedOnScreen' /\ DrawnIsPast'
      BY <1>T, <2>1 DEF IInv, TypeOK, StartedOnScreen, DrawnIsPast
    <2> QED
      BY <2>2, <2>3 DEF IInv
  <1>4. ASSUME NEW c \in Counters, Tick(c) \/ Render(c) PROVE IInv'
    <2>1. TypeOK'
      BY <1>T, <1>4 DEF Tick, Render, TypeOK
    <2>2. DrawnIsPast'
      BY <1>T, <1>4 DEF Tick, Render, IInv, DrawnIsPast
    <2> QED
      BY <1>4, <2>1, <2>2 DEF Tick, Render, IInv, StartedOnScreen, OneTimerPerEffect
  <1>5. CASE UNCHANGED vars
    BY <1>5 DEF vars, IInv, TypeOK, StartedOnScreen, OneTimerPerEffect, DrawnIsPast
  <1> QED
    BY <1>1, <1>2, <1>3, <1>4, <1>5 DEF Next

LEMMA Invariance == Spec => []IInv
  BY InitIInv, NextIInv, PTL DEF Spec

\* Every variable of the React counter stays in its type.
THEOREM TypeCorrect == Spec => []TypeOK
  BY Invariance, PTL DEF IInv

\* A Counter of Counter.tsx counts once while its screen is mounted, and not at
\* all otherwise, for any sequence of entering and leaving any number of screens.
THEOREM CountsOnce == Spec => []CountsOnceOnScreen
  <1>1. IInv => CountsOnceOnScreen
    BY DEF IInv, TypeOK, StartedOnScreen, OneTimerPerEffect, CountsOnceOnScreen
  <1> QED
    BY Invariance, <1>1, PTL

\* The store changes only while a screen that shows it is mounted.
THEOREM StoreRestsOffScreen == Spec => [][store' # store => mounted # {}]_vars
  <1>1. IInv /\ [Next]_vars => [store' # store => mounted # {}]_vars
    <2> SUFFICES ASSUME IInv, Next, store' # store PROVE mounted # {}
      BY DEF vars
    <2>1. PICK c \in Counters : Tick(c)
      BY DEF Next, Mount, Unmount, StartInterval, Render
    <2>2. c \in started
      BY <2>1 DEF IInv, OneTimerPerEffect, Tick
    <2> QED
      BY <2>2 DEF IInv, StartedOnScreen
  <1> QED
    BY Invariance, <1>1, PTL DEF Spec

-----------------------------------------------------------------------------
(* The Counters are displays of one count (SharedCounter).                 *)

\* The displays on screen, as SharedCounter has them.
OnShow == {c \in Counters : ScreenOf(c) \in mounted}

\* A tick is an Increment: the Counter whose interval fires is on screen.
LEMMA TickIncrements == IInv /\ (\E c \in Counters : Tick(c)) => Shared!Increment
  <1> SUFFICES ASSUME IInv, NEW c \in Counters, Tick(c) PROVE Shared!Increment
    OBVIOUS
  <1>1. c \in OnShow
    <2>1. c \in started
      BY DEF IInv, OneTimerPerEffect, Tick
    <2> QED
      BY <2>1 DEF IInv, StartedOnScreen, OnShow
  <1> QED
    BY <1>1 DEF Tick, Shared!Increment, OnShow

\* What a mount, a render or an unmount does to the displays is a Redraw.
LEMMA OthersRedraw ==
    ASSUME IInv, IInv', UNCHANGED store,
           \A c \in OnShow' :
               drawn'[c] = store \/ (c \in OnShow /\ drawn'[c] = drawn[c])
    PROVE  Shared!Redraw
  <1>T. /\ store \in Nat /\ drawn \in [Counters -> Nat] /\ drawn' \in [Counters -> Nat]
        /\ \A c \in Counters : drawn[c] <= store
    BY ReactCounterAssumption DEF IInv, TypeOK, DrawnIsPast, ReactCounterAssumption
  <1>1. \A c \in OnShow' : drawn'[c] \in IF c \in OnShow THEN drawn[c]..store ELSE {store}
    BY <1>T DEF OnShow
  <1> QED
    BY <1>T, <1>1 DEF Shared!Redraw, Shared!MayShow, OnShow

\* Every step of the React Native counter is one of SharedCounter, or is none.
LEMMA StepIsShared ==
    IInv /\ IInv' /\ [Next]_vars => [Shared!SharedNext]_(Shared!sharedVars)
  <1> SUFFICES ASSUME IInv, IInv', [Next]_vars
               PROVE  [Shared!SharedNext]_(Shared!sharedVars)
    OBVIOUS
  <1>T. drawn \in [Counters -> 0..MaxCount]
    BY DEF IInv, TypeOK
  <1>1. CASE \E c \in Counters : Tick(c)
    BY <1>1, TickIncrements DEF Shared!SharedNext
  <1>2. ASSUME NEW s \in Screens, Mount(s) PROVE Shared!Redraw
    <2>1. \A c \in OnShow' : drawn'[c] = store \/ (c \in OnShow /\ drawn'[c] = drawn[c])
      BY <1>2 DEF Mount, OnShow
    <2> QED
      BY <1>2, <2>1, OthersRedraw DEF Mount
  <1>3. ASSUME NEW s \in Screens, Unmount(s) PROVE Shared!Redraw
    <2>1. \A c \in OnShow' : c \in OnShow /\ drawn'[c] = drawn[c]
      BY <1>3 DEF Unmount, OnShow
    <2> QED
      BY <1>3, <2>1, OthersRedraw DEF Unmount
  <1>4. ASSUME NEW d \in Counters, Render(d) PROVE Shared!Redraw
    <2>1. \A c \in OnShow' : drawn'[c] = store \/ (c \in OnShow /\ drawn'[c] = drawn[c])
      BY <1>T, <1>4 DEF Render, OnShow
    <2> QED
      BY <1>4, <2>1, OthersRedraw DEF Render
  <1>5. CASE (\E c \in Counters : StartInterval(c)) \/ UNCHANGED vars
    BY <1>5 DEF StartInterval, vars, Shared!sharedVars
  <1> QED
    BY <1>1, <1>2, <1>3, <1>4, <1>5 DEF Next, Shared!SharedNext

LEMMA InitIsShared == Init => Shared!SharedInit
  BY DEF Init, Shared!SharedInit

\* A render only moves a Counter of Counter.tsx forward, a screen that mounts
\* starts with the count of the moment, and nothing counts while no screen is
\* mounted: the React Native counter is a SharedCounter.
THEOREM ReactImplementsCounter == Spec => ImplementsCounter
  BY InitIsShared, StepIsShared, Invariance, PTL
     DEF Spec, ImplementsCounter, Shared!SharedSpec

-----------------------------------------------------------------------------
(* The reducers of the three stacks, side by side (RateWindow).            *)

RatesTypeOK == now \in Nat /\ times \in Seq(Nat)

\* Each list is a function of the history, though none of the stores has it: an
\* increment is dropped by the first later one that finds it outdated, for good.
ListsLast == /\ compose.timestamps = Lasting
             /\ swift.timestamps = Lasting
             /\ react.timestamps = Lasting

RatesInv == RatesTypeOK /\ ListsLast /\ RatesOfHistory

LEMMA InitRates == RatesInit => RatesInv
  <1> SUFFICES ASSUME RatesInit PROVE RatesInv
    OBVIOUS
  <1>1. RatesTypeOK /\ Lasting = {} /\ Len(times) = 0
    BY DEF RatesInit, RatesTypeOK, Lasting
  <1>2. Cardinality({}) = 0
    BY FS_EmptySet
  <1> QED
    BY <1>1, <1>2 DEF RatesInit, NoIncrements, RatesInv, ListsLast, RatesOfHistory

\* What lasts after an increment is what lasted before and is in its window, and
\* the increment itself.
LEMMA LastingNext ==
    ASSUME RatesTypeOK, Increment
    PROVE  /\ Lasting' = {i \in Lasting : times[i] + Window > now} \cup {ThisIncrement}
           /\ Cardinality(Lasting') \in Nat \ {0}
           /\ times' \in Seq(Nat) /\ Len(times') = Len(times) + 1 /\ Len(times) \in Nat
  <1> DEFINE n == Len(times)
  <1>T. now \in Nat /\ times \in Seq(Nat) /\ n \in Nat /\ Window \in Nat
    BY RateAssumption DEF RatesTypeOK
  <1>1. /\ Len(times') = n + 1 /\ times' \in Seq(Nat) /\ times'[n + 1] = now
        /\ \A i \in 1..n : times'[i] = times[i] /\ times[i] \in Nat
        /\ DOMAIN times = 1..n /\ DOMAIN times' = 1..(n + 1)
    BY <1>T DEF Increment
  <1> HIDE DEF n
  <1>2. \A i \in 1..n : i \in Lasting' <=> i \in Lasting /\ times[i] + Window > now
    <2> SUFFICES ASSUME NEW i \in 1..n
                 PROVE  i \in Lasting' <=> i \in Lasting /\ times[i] + Window > now
      OBVIOUS
    <2>1. i \in 1..(n + 1) /\ n + 1 \in 1..(n + 1) /\ i < n + 1
      BY <1>T
    <2>2. i \in Lasting' <=> \A j \in 1..(n + 1) : i < j => times'[i] + Window > times'[j]
      BY <1>1, <2>1 DEF Lasting
    <2>3. i \in Lasting <=> \A j \in 1..n : i < j => times[i] + Window > times[j]
      BY <1>1 DEF Lasting
    <2>4. \A j \in 1..(n + 1) : j \in 1..n \/ j = n + 1
      BY <1>T
    <2>5. \A j \in 1..n : j \in 1..(n + 1)
      BY <1>T
    <2> QED
      BY <1>1, <2>1, <2>2, <2>3, <2>4, <2>5
  <1>3. n + 1 \in Lasting'
    <2>1. n + 1 \in 1..(n + 1) /\ \A j \in 1..(n + 1) : ~(n + 1 < j)
      BY <1>T
    <2> QED
      BY <1>1, <2>1 DEF Lasting
  <1>4. Lasting' \subseteq 1..(n + 1) /\ Lasting \subseteq 1..n
    BY <1>1 DEF Lasting
  <1>5. Lasting' = {i \in Lasting : times[i] + Window > now} \cup {n + 1}
    <2>1. \A i \in 1..(n + 1) : i \in 1..n \/ i = n + 1
      BY <1>T
    <2> QED
      BY <1>2, <1>3, <1>4, <2>1
  <1>6. Cardinality(Lasting') \in Nat \ {0}
    <2>1. IsFiniteSet(1..(n + 1))
      BY <1>T, FS_Interval
    <2>2. IsFiniteSet(Lasting')
      BY <1>4, <2>1, FS_Subset
    <2> QED
      BY <1>3, <2>2, FS_CardinalityType, FS_EmptySet
  <1> QED
    BY <1>1, <1>T, <1>5, <1>6 DEF ThisIncrement, n

\* An increment preserves the invariant, in each reducer.
LEMMA IncrementRates == RatesInv /\ Increment => RatesInv'
  <1> SUFFICES ASSUME RatesInv, Increment PROVE RatesInv'
    OBVIOUS
  <1>T. RatesTypeOK /\ ListsLast
    BY DEF RatesInv
  <1>1. /\ Lasting' = {i \in Lasting : times[i] + Window > now} \cup {ThisIncrement}
        /\ Cardinality(Lasting') \in Nat \ {0}
        /\ times' \in Seq(Nat) /\ Len(times') = Len(times) + 1 /\ Len(times) \in Nat
    BY <1>T, LastingNext
  <1>2. /\ composeKept(compose.timestamps) = Lasting'
        /\ swiftKept(swift.timestamps) = Lasting'
        /\ reactInWindow(react.timestamps) \cup {ThisIncrement} = Lasting'
    BY <1>T, <1>1 DEF ListsLast, composeKept, swiftKept, reactInWindow
  <1>3. /\ compose' = Counted(compose, Lasting', composeRate(Cardinality(Lasting')))
        /\ swift' = Counted(swift, Lasting', swiftRate(Cardinality(Lasting')))
        /\ react' = Counted(react, Lasting', Cardinality(Lasting'))
        /\ now' = now
    BY <1>2 DEF Increment, composeReducer, swiftReducer, reactReducer
  <1>4. RatesTypeOK'
    BY <1>T, <1>1, <1>3 DEF RatesTypeOK
  <1>5. ListsLast'
    BY <1>3 DEF ListsLast, Counted
  <1>6. RatesOfHistory'
    <2>1. compose.counter = Len(times) /\ swift.counter = Len(times) /\ react.counter = Len(times)
      BY DEF RatesInv, RatesOfHistory
    <2>2. /\ compose'.counter = compose.counter + 1 /\ swift'.counter = swift.counter + 1
          /\ react'.counter = react.counter + 1
          /\ compose'.rate = composeRate(Cardinality(Lasting'))
          /\ swift'.rate = swiftRate(Cardinality(Lasting'))
          /\ react'.rate = Cardinality(Lasting')
      BY <1>3 DEF Counted
    <2> QED
      BY <1>1, <2>1, <2>2 DEF RatesOfHistory, composeRate, swiftRate
  <1> QED
    BY <1>4, <1>5, <1>6 DEF RatesInv

\* So does the clock, which changes nothing that was counted.
LEMMA NextRates == RatesInv /\ [RatesNext]_ratesVars => RatesInv'
  <1> SUFFICES ASSUME RatesInv, [RatesNext]_ratesVars PROVE RatesInv'
    OBVIOUS
  <1>1. CASE Increment
    BY <1>1, IncrementRates
  <1>2. CASE ClockRuns \/ ClockIsSetBack \/ UNCHANGED ratesVars
    <2>1. UNCHANGED <<compose, swift, react, times>> /\ now' \in Nat
      BY <1>2, RateAssumption DEF ClockRuns, ClockIsSetBack, ratesVars, stores, RatesInv, RatesTypeOK
    <2> QED
      BY <2>1 DEF RatesInv, RatesTypeOK, ListsLast, RatesOfHistory, Lasting
  <1> QED
    BY <1>1, <1>2 DEF RatesNext

LEMMA RatesInvariance == RatesSpec => []RatesInv
  BY InitRates, NextRates, PTL DEF RatesSpec

\* While the clock runs forward the list that each stack filters again at each
\* increment is the window of the whole history, for every window.
THEOREM KeepsTheWindow == RatesSpec => []KeepsWindow
  <1>1. RatesInv => KeepsWindow
    <2> SUFFICES ASSUME RatesInv, times # <<>>, ClockRanForward
                 PROVE  Lasting = {i \in DOMAIN times : times[i] + Window > times[Len(times)]}
      BY DEF KeepsWindow, RatesInv, ListsLast
    <2> DEFINE n == Len(times)
    <2>1. times \in Seq(Nat) /\ Window \in Nat \ {0}
      BY RateAssumption DEF RatesInv, RatesTypeOK
    <2>2. /\ DOMAIN times = 1..n /\ n \in Nat /\ n \in 1..n
          /\ \A i \in 1..n : times[i] \in Nat
      BY <2>1
    <2> HIDE DEF n
    <2>3. \A i \in 1..n : i = n \/ i < n
      BY <2>2
    <2>4. \A i \in 1..n : times[i] <= times[n]
      BY <2>2, <2>3 DEF ClockRanForward
    <2>5. \A i \in 1..n : i \in Lasting <=> times[i] + Window > times[n]
      <3> SUFFICES ASSUME NEW i \in 1..n PROVE i \in Lasting <=> times[i] + Window > times[n]
        OBVIOUS
      <3>1. i \in Lasting <=> \A j \in 1..n : i < j => times[i] + Window > times[j]
        BY <2>2 DEF Lasting
      <3>2. ASSUME i \in Lasting PROVE times[i] + Window > times[n]
        BY <2>1, <2>2, <2>3, <3>1, <3>2
      <3>3. ASSUME times[i] + Window > times[n], NEW j \in 1..n
            PROVE  times[i] + Window > times[j]
        BY <2>1, <2>2, <2>4, <3>3
      <3> QED
        BY <3>1, <3>2, <3>3
    <2> QED
      BY <2>2, <2>5 DEF Lasting, n
  <1> QED
    BY <1>1, RatesInvariance, PTL

\* Wherever the clock is set, set back included, the counts and the rates of the
\* three stacks are those of the increments that last, and only a single one is
\* shown differently.
THEOREM RatesFollowHistory == RatesSpec => []RatesOfHistory
  BY RatesInvariance, PTL DEF RatesInv

=============================================================================
