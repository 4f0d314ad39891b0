------------------------ MODULE ComposeCounterProofs ------------------------
(***************************************************************************)
(* Theorems about ComposeCounter, for any number of screens and instances. *)
(*                                                                         *)
(* PulseAlive and OneIncrementPerInstance are not inductive: a dispatch    *)
(* makes every CounterApp stale only because none of them draws what the   *)
(* store has yet to hold (DrawnIsPast), and a CounterApp runs one dispatch *)
(* between two frames only because it launched one (OneLaunchPerFrame).    *)
(***************************************************************************)
EXTENDS ComposeCounter, TLAPS

\* Who listens, and whose dispatches may be queued, depends on the screens alone.
ScopeFollowsScreen ==
    \A c \in CounterApps : IF OnScreen(c) THEN c \in listeners ELSE launched[c] = 0

\* What is drawn was in the store once.
DrawnIsPast == \A c \in CounterApps : drawn[c] <= store

\* What a CounterApp ran since a frame, or has still to run, it launched then.
OneLaunchPerFrame == \A c \in CounterApps : ran[c] + launched[c] <= 1

IInv == /\ TypeOK
        /\ ScopeFollowsScreen
        /\ DrawnIsPast
        /\ AllInstancesAgree
        /\ PulseAlive
        /\ OneLaunchPerFrame

LEMMA AppsHaveScreens == \A c \in CounterApps : ScreenOf(c) \in Screens
  BY DEF CounterApps, ScreenOf

\* The composables that a screen subscribes are the CounterApps on it.
LEMMA AppsOfScreen ==
    ASSUME NEW s \in Screens
    PROVE  /\ Subscribed(s) \subseteq CounterApps
           /\ \A c \in CounterApps : c \in Subscribed(s) <=> ScreenOf(c) = s
  BY DEF Subscribed, CounterApps, ScreenOf

\* At first every screen is closed.
LEMMA InitIInv == Init => IInv
  BY AppsHaveScreens, ComposeCounterAssumption
     DEF Init, IInv, TypeOK, ScopeFollowsScreen, DrawnIsPast, AllInstancesAgree, PulseAlive,
         OneLaunchPerFrame, OnScreen, ComposeCounterAssumption

\* Every action preserves the invariant.
LEMMA NextIInv == IInv /\ [Next]_vars => IInv'
  <1> SUFFICES ASSUME IInv, [Next]_vars PROVE IInv'
    OBVIOUS
  <1> USE AppsHaveScreens
  <1>T. /\ store \in 0..MaxCount /\ MaxCount \in Nat
        /\ screen \in [Screens -> {"closed", "visible", "stopped"}]
        /\ listeners \subseteq CounterApps
        /\ selected \in [CounterApps -> 0..MaxCount] /\ drawn \in [CounterApps -> 0..MaxCount]
        /\ launched \in [CounterApps -> Nat] /\ ran \in [CounterApps -> Nat]
    BY ComposeCounterAssumption DEF IInv, TypeOK, ComposeCounterAssumption
  <1>1. ASSUME NEW s \in Screens, Open(s) PROVE IInv'
    <2> DEFINE Composed(old, new) == [c \in CounterApps |-> IF ScreenOf(c) = s THEN new ELSE old[c]]
    <2>1. /\ screen[s] = "closed" /\ screen' = [screen EXCEPT ![s] = "visible"]
          /\ selected' = Composed(selected, store) /\ drawn' = Composed(drawn, store)
          /\ listeners' = listeners \cup Subscribed(s)
          /\ launched' = Composed(launched, 1) /\ ran' = Composed(ran, 0) /\ store' = store
      BY <1>1 DEF Open
    <2>2. \A c \in CounterApps : OnScreen(c)' <=> (OnScreen(c) \/ ScreenOf(c) = s)
      BY <1>T, <2>1 DEF OnScreen
    <2>3. \A c \in CounterApps :
             /\ selected'[c] = IF ScreenOf(c) = s THEN store ELSE selected[c]
             /\ drawn'[c] = IF ScreenOf(c) = s THEN store ELSE drawn[c]
             /\ launched'[c] = IF ScreenOf(c) = s THEN 1 ELSE launched[c]
             /\ ran'[c] = IF ScreenOf(c) = s THEN 0 ELSE ran[c]
      BY <2>1
    <2>4. TypeOK'
      BY <1>T, <2>1, AppsOfScreen DEF TypeOK
    <2>5. ScopeFollowsScreen'
      BY <2>1, <2>2, <2>3, AppsOfScreen DEF IInv, ScopeFollowsScreen
    <2>6. DrawnIsPast' /\ AllInstancesAgree'
      BY <1>T, <2>1, <2>2, <2>3 DEF IInv, DrawnIsPast, AllInstancesAgree
    <2>7. PulseAlive' /\ OneLaunchPerFrame'
      BY <1>T, <2>2, <2>3 DEF IInv, PulseAlive, OneLaunchPerFrame
    <2> QED
      BY <2>4, <2>5, <2>6, <2>7 DEF IInv
  <1>2. ASSUME NEW a \in CounterApps, Dispatch(a) PROVE IInv'
    <2>1. /\ launched[a] > 0 /\ store' = store + 1 /\ store + 1 \in 0..MaxCount
          /\ selected' = [d \in CounterApps |-> IF d \in listeners THEN store + 1 ELSE selected[d]]
          /\ launched' = [launched EXCEPT ![a] = @ - 1] /\ ran' = [ran EXCEPT ![a] = @ + 1]
          /\ UNCHANGED <<screen, listeners, drawn>>
      BY <1>2, <1>T DEF Dispatch
    <2>2. \A c \in CounterApps : OnScreen(c)' <=> OnScreen(c)
      BY <2>1 DEF OnScreen
    <2>3. \A c \in CounterApps : OnScreen(c) => selected'[c] = store + 1
      BY <2>1 DEF IInv, ScopeFollowsScreen
    <2>4. TypeOK'
      BY <1>T, <2>1 DEF TypeOK
    <2>5. ScopeFollowsScreen'
      BY <1>T, <2>1, <2>2 DEF IInv, ScopeFollowsScreen
    <2>6. DrawnIsPast' /\ AllInstancesAgree'
      BY <1>T, <2>1, <2>2, <2>3 DEF IInv, DrawnIsPast, AllInstancesAgree
    <2>7. PulseAlive'
      <3> SUFFICES ASSUME NEW c \in CounterApps, OnScreen(c) PROVE selected'[c] # drawn'[c]
        BY <2>2 DEF PulseAlive
      <3>1. selected'[c] = store + 1 /\ drawn'[c] = drawn[c] /\ drawn[c] <= store
        BY <2>1, <2>3 DEF IInv, DrawnIsPast
      <3> QED
        BY <1>T, <3>1
    <2>8. OneLaunchPerFrame'
      BY <1>T, <2>1 DEF IInv, OneLaunchPerFrame
    <2> QED
      BY <2>4, <2>5, <2>6, <2>7, <2>8 DEF IInv
  <1>3. CASE Frame
    <2>1. /\ \A c \in CounterApps : launched[c] = 0
          /\ drawn' = [c \in CounterApps |-> IF c \in Due THEN selected[c] ELSE drawn[c]]
          /\ launched' = [c \in CounterApps |-> IF c \in Due THEN launched[c] + 1 ELSE launched[c]]
          /\ ran' = [c \in CounterApps |-> 0]
          /\ UNCHANGED <<store, screen, listeners, selected>>
      BY <1>3 DEF Frame, LaunchedBy
    <2>2. \A c \in CounterApps : OnScreen(c)' <=> OnScreen(c)
      BY <2>1 DEF OnScreen
    <2>3. \A c \in CounterApps :
             /\ launched'[c] = IF c \in Due THEN 1 ELSE 0
             /\ drawn'[c] = IF c \in Due THEN selected[c] ELSE drawn[c]
      BY <2>1
    <2>4. \A c \in Due : c \in CounterApps /\ OnScreen(c)
      BY DEF Due, OnScreen
    <2>5. TypeOK'
      BY <1>T, <2>1 DEF TypeOK
    <2>6. ScopeFollowsScreen' /\ AllInstancesAgree' /\ OneLaunchPerFrame'
      BY <1>T, <2>1, <2>2, <2>3, <2>4
         DEF IInv, ScopeFollowsScreen, AllInstancesAgree, OneLaunchPerFrame
    <2>7. DrawnIsPast'
      BY <1>T, <2>1, <2>3, <2>4 DEF IInv, AllInstancesAgree, DrawnIsPast
    <2>8. PulseAlive'
      BY <2>1, <2>2, <2>3 DEF IInv, PulseAlive
    <2> QED
      BY <2>5, <2>6, <2>7, <2>8 DEF IInv
  <1>4. ASSUME NEW s \in Screens, StopOrStart(s) PROVE IInv'
    <2>1. /\ UNCHANGED <<store, listeners, selected, drawn, launched, ran>>
          /\ screen' \in [Screens -> {"closed", "visible", "stopped"}]
          /\ \A c \in CounterApps : OnScreen(c)' <=> OnScreen(c)
      BY <1>T, <1>4 DEF StopOrStart, OnScreen
    <2> QED
      BY <2>1 DEF IInv, TypeOK, ScopeFollowsScreen, DrawnIsPast, AllInstancesAgree,
                  PulseAlive, OneLaunchPerFrame
  <1>5. ASSUME NEW s \in Screens, Close(s) PROVE IInv'
    <2>1. /\ screen' = [screen EXCEPT ![s] = "closed"]
          /\ listeners' = {c \in listeners : ScreenOf(c) # s}
          /\ launched' = [c \in CounterApps |-> IF ScreenOf(c) = s THEN 0 ELSE launched[c]]
          /\ UNCHANGED <<store, selected, drawn, ran>>
      BY <1>5 DEF Close
    <2>2. \A c \in CounterApps : OnScreen(c)' <=> (OnScreen(c) /\ ScreenOf(c) # s)
      BY <1>T, <2>1 DEF OnScreen
    <2>3. TypeOK'
      BY <1>T, <2>1 DEF TypeOK
    <2>4. ScopeFollowsScreen' /\ DrawnIsPast' /\ AllInstancesAgree' /\ PulseAlive'
      BY <2>1, <2>2 DEF IInv, ScopeFollowsScreen, DrawnIsPast, AllInstancesAgree, PulseAlive
    <2>5. OneLaunchPerFrame'
      BY <1>T, <2>1 DEF IInv, OneLaunchPerFrame
    <2> QED
      BY <2>3, <2>4, <2>5 DEF IInv
  <1>6. CASE UNCHANGED vars
    BY <1>6 DEF vars, IInv, TypeOK, ScopeFollowsScreen, DrawnIsPast, AllInstancesAgree,
                PulseAlive, OneLaunchPerFrame, OnScreen
  <1> QED
    BY <1>1, <1>2, <1>3, <1>4, <1>5, <1>6 DEF Next

LEMMA Invariance == Spec => []IInv
  BY InitIInv, NextIInv, PTL DEF Spec

\* Every variable of the counter stays in its type.
THEOREM TypeCorrect == Spec => []TypeOK
  BY Invariance, PTL DEF IInv

\* The auto-increment of a CounterApp on a screen never runs dry, whatever other
\* screens do.
THEOREM NeverRunsDry == Spec => []PulseAlive
  BY Invariance, PTL DEF IInv

\* Every CounterApp on a screen has the state of the store.
THEOREM InstancesAgree == Spec => []AllInstancesAgree
  BY Invariance, PTL DEF IInv

\* Between two frames a CounterApp advances the counter by one at most.
THEOREM IncrementsPerFrame == Spec => []OneIncrementPerInstance
  <1>1. IInv => OneIncrementPerInstance
    BY DEF IInv, TypeOK, OneLaunchPerFrame, OneIncrementPerInstance
  <1> QED
    BY Invariance, <1>1, PTL

-----------------------------------------------------------------------------
(* The CounterApps are displays of one count (SharedCounter).              *)

\* The displays on screen, as SharedCounter has them.
OnShow == {c \in CounterApps : OnScreen(c)}

\* A dispatch is an Increment: the CounterApp that launched it is still on screen,
\* for the scope of a closed one is cancelled.
LEMMA DispatchIncrements == IInv /\ (\E c \in CounterApps : Dispatch(c)) => Shared!Increment
  <1> SUFFICES ASSUME IInv, NEW c \in CounterApps, Dispatch(c) PROVE Shared!Increment
    OBVIOUS
  <1>1. c \in OnShow
    <2>1. launched[c] # 0
      BY DEF IInv, TypeOK, Dispatch
    <2> QED
      BY <2>1 DEF IInv, ScopeFollowsScreen, OnShow
  <1>2. UNCHANGED <<OnShow, drawn>>
    BY DEF Dispatch, OnShow, OnScreen
  <1> QED
    BY <1>1, <1>2 DEF Dispatch, Shared!Increment, OnShow

\* What a frame, or a screen that opens, closes, stops or starts, does to the
\* displays is a Redraw.
LEMMA OthersRedraw ==
    ASSUME IInv, IInv', UNCHANGED store,
           \A c \in OnShow' :
               drawn'[c] = store \/ (c \in OnShow /\ drawn'[c] = drawn[c])
    PROVE  Shared!Redraw
  <1>T. /\ store \in Nat /\ drawn \in [CounterApps -> Nat] /\ drawn' \in [CounterApps -> Nat]
        /\ \A c \in CounterApps : drawn[c] <= store
    BY ComposeCounterAssumption DEF IInv, TypeOK, DrawnIsPast, ComposeCounterAssumption
  <1>1. \A c \in OnShow' : drawn'[c] \in IF c \in OnShow THEN drawn[c]..store ELSE {store}
    BY <1>T DEF OnShow
  <1> QED
    BY <1>T, <1>1 DEF Shared!Redraw, Shared!MayShow, OnShow

\* Every step of the Compose counter is one of SharedCounter, or is none.
LEMMA StepIsShared ==
    IInv /\ IInv' /\ [Next]_vars => [Shared!SharedNext]_(Shared!sharedVars)
  <1> SUFFICES ASSUME IInv, IInv', [Next]_vars
               PROVE  [Shared!SharedNext]_(Shared!sharedVars)
    OBVIOUS
  <1> USE AppsHaveScreens
  <1>T. /\ screen \in [Screens -> {"closed", "visible", "stopped"}]
        /\ drawn \in [CounterApps -> 0..MaxCount]
    BY DEF IInv, TypeOK
  <1>1. CASE \E c \in CounterApps : Dispatch(c)
    BY <1>1, DispatchIncrements DEF Shared!SharedNext
  <1>2. ASSUME NEW s \in Screens, Open(s) PROVE Shared!Redraw
    <2>1. /\ screen' = [screen EXCEPT ![s] = "visible"] /\ UNCHANGED store
          /\ drawn' = [c \in CounterApps |-> IF ScreenOf(c) = s THEN store ELSE drawn[c]]
      BY <1>2 DEF Open
    <2>2. \A c \in OnShow' : drawn'[c] = store \/ (c \in OnShow /\ drawn'[c] = drawn[c])
      BY <1>T, <2>1 DEF OnShow, OnScreen
    <2> QED
      BY <2>1, <2>2, OthersRedraw
  <1>3. CASE Frame
    <2>1. UNCHANGED <<store, screen>> /\ OnShow' = OnShow
      BY <1>3 DEF Frame, OnShow, OnScreen
    <2>2. \A c \in OnShow : drawn'[c] = store \/ drawn'[c] = drawn[c]
      BY <1>3 DEF Frame, OnShow, IInv, AllInstancesAgree
    <2> QED
      BY <2>1, <2>2, OthersRedraw DEF Shared!SharedNext
  <1>4. ASSUME NEW s \in Screens, Close(s) PROVE Shared!Redraw
    <2>1. UNCHANGED <<store, drawn>> /\ screen' = [screen EXCEPT ![s] = "closed"]
      BY <1>4 DEF Close
    <2>2. \A c \in OnShow' : c \in OnShow /\ drawn'[c] = drawn[c]
      BY <1>T, <2>1 DEF OnShow, OnScreen
    <2> QED
      BY <2>1, <2>2, OthersRedraw
  <1>5. ASSUME NEW s \in Screens, StopOrStart(s) PROVE Shared!Redraw
    <2>1. UNCHANGED <<store, drawn>> /\ \A c \in CounterApps : OnScreen(c)' <=> OnScreen(c)
      BY <1>T, <1>5 DEF StopOrStart, OnScreen
    <2>2. \A c \in OnShow' : c \in OnShow /\ drawn'[c] = drawn[c]
      BY <2>1 DEF OnShow
    <2> QED
      BY <2>1, <2>2, OthersRedraw
  <1>6. CASE UNCHANGED vars
    BY <1>6 DEF vars, Shared!sharedVars, OnScreen
  <1> QED
    BY <1>1, <1>2, <1>3, <1>4, <1>5, <1>6 DEF Next, Shared!SharedNext

LEMMA InitIsShared == Init => Shared!SharedInit
  BY AppsHaveScreens DEF Init, OnScreen, Shared!SharedInit

\* A frame only moves a CounterApp forward, a screen that opens starts with the
\* count of the moment, and nothing that a closed screen launched counts on: the
\* Compose counter is a SharedCounter.
THEOREM ComposeImplementsCounter == Spec => ImplementsCounter
  BY InitIsShared, StepIsShared, Invariance, PTL
     DEF Spec, ImplementsCounter, Shared!SharedSpec

=============================================================================
