--------------------------- MODULE ComposeCounter ---------------------------
(***************************************************************************)
(* The Compose counter (Counter.kt): the CounterApp composables of each    *)
(* screen keep the counter going by themselves.  Each composition of a     *)
(* CounterApp launches a dispatch, a dispatch changes the state that every *)
(* CounterApp reads, and the change makes them compose again.              *)
(*                                                                         *)
(* The store is global to the process, and more than one screen may be     *)
(* open over it: a double tap starts two activities, of which the covered  *)
(* one is stopped, and lives on.  There is one main thread for them all.   *)
(* A frame first drains its queue of coroutines (`launched') and then      *)
(* composes what is out of date on the screens that are visible.           *)
(***************************************************************************)
EXTENDS Naturals

CONSTANTS Screens,    \* activities (Android) or view controllers (iOS)
          Instances,  \* the CounterApp composables of a screen
          MaxCount    \* bound: increments

ASSUME ComposeCounterAssumption == MaxCount \in Nat

CounterApps == Screens \X Instances

ScreenOf(c) == c[1]

VARIABLES store,      \* store.state.counter
          screen,     \* screen[s]: "closed", "visible" or "stopped" (its frame clock paused)
          listeners,  \* CounterApps whose subscription is registered
          selected,   \* selected[c]: selectedState.value of c
          drawn,      \* drawn[c]: the counter in the last composition of c
          launched,   \* launched[c]: dispatches launched by c that have not run
          ran         \* history: dispatches of c that ran since the last frame

vars == <<store, screen, listeners, selected, drawn, launched, ran>>

OnScreen(c) == screen[ScreenOf(c)] # "closed"

\* What the next frame composes: CounterApps whose state has changed.
Due == {c \in CounterApps : screen[ScreenOf(c)] = "visible" /\ selected[c] # drawn[c]}

Init ==
    /\ store = 0
    /\ screen = [s \in Screens |-> "closed"] /\ listeners = {}
    /\ selected = [c \in CounterApps |-> 0] /\ drawn = [c \in CounterApps |-> 0]
    /\ launched = [c \in CounterApps |-> 0] /\ ran = [c \in CounterApps |-> 0]

\* Mutant: an effect that runs once instead of after every composition.
LaunchedByNone(c) == 0

\* Mutant: each composition launches twice.
LaunchedByTwice(c) == launched[c] + 2

\* SideEffect { scope.launch { store.dispatch(Increment) } } after a composition.
LaunchedBy(c) == launched[c] + 1

\* Mutant: the subscription is registered by nobody.
NoListeners(s) == {}

\* DisposableEffect of each instance, in the same frame as its composition.
Subscribed(s) == {s} \X Instances

\* A screen opens: the first composition, then its effects.
Open(s) ==
    LET Composed(old, new) == [c \in CounterApps |-> IF ScreenOf(c) = s THEN new ELSE old[c]] IN
    /\ screen[s] = "closed"
    /\ screen' = [screen EXCEPT ![s] = "visible"]
    /\ selected' = Composed(selected, store) /\ drawn' = Composed(drawn, store)
    /\ listeners' = listeners \cup Subscribed(s)
    /\ launched' = Composed(launched, 1)
    /\ ran' = Composed(ran, 0)
    /\ UNCHANGED store

\* Mutant: listeners are handed a state that is reduced once more.
DispatchCountedTwice(c) ==
    /\ launched[c] > 0 /\ store < MaxCount
    /\ store' = store + 1
    /\ selected' = [d \in CounterApps |-> IF d \in listeners THEN store + 2 ELSE selected[d]]
    /\ launched' = [launched EXCEPT ![c] = @ - 1]
    /\ ran' = [ran EXCEPT ![c] = @ + 1]
    /\ UNCHANGED <<screen, listeners, drawn>>

\* A coroutine that c launched runs: the reducer, then every listener.
Dispatch(c) ==
    /\ launched[c] > 0 /\ store < MaxCount
    /\ store' = store + 1
    /\ selected' = [d \in CounterApps |-> IF d \in listeners THEN store + 1 ELSE selected[d]]
    /\ launched' = [launched EXCEPT ![c] = @ - 1]
    /\ ran' = [ran EXCEPT ![c] = @ + 1]
    /\ UNCHANGED <<screen, listeners, drawn>>

\* A frame: each CounterApp that is composed launches one dispatch, however
\* many changes it missed.
Frame ==
    /\ \A c \in CounterApps : launched[c] = 0
    /\ Due # {}
    /\ drawn' = [c \in CounterApps |-> IF c \in Due THEN selected[c] ELSE drawn[c]]
    /\ launched' = [c \in CounterApps |-> IF c \in Due THEN LaunchedBy(c) ELSE launched[c]]
    /\ ran' = [c \in CounterApps |-> 0]
    /\ UNCHANGED <<store, screen, listeners, selected>>

\* An activity stops or starts; coroutines run on, frames wait.
StopOrStart(s) ==
    /\ \/ screen[s] = "visible" /\ screen' = [screen EXCEPT ![s] = "stopped"]
       \/ screen[s] = "stopped" /\ screen' = [screen EXCEPT ![s] = "visible"]
    /\ UNCHANGED <<store, listeners, selected, drawn, launched, ran>>

\* A composition is disposed: subscriptions end, the scopes are cancelled.
Close(s) ==
    /\ screen[s] # "closed"
    /\ screen' = [screen EXCEPT ![s] = "closed"]
    /\ listeners' = {c \in listeners : ScreenOf(c) # s}
    /\ launched' = [c \in CounterApps |-> IF ScreenOf(c) = s THEN 0 ELSE launched[c]]
    /\ UNCHANGED <<store, selected, drawn, ran>>

Next ==
    \/ Frame
    \/ \E s \in Screens : Open(s) \/ StopOrStart(s) \/ Close(s)
    \/ \E c \in CounterApps : Dispatch(c)

Spec == Init /\ [][Next]_vars

\* The looper serves its messages in order, so that screens which are opened and
\* closed again cannot put off what was launched for ever; and a visible screen
\* gets its frames even if it keeps being stopped and started.
FairSpec == Spec /\ SF_vars(\E c \in CounterApps : Dispatch(c)) /\ SF_vars(Frame)

-----------------------------------------------------------------------------
(* Properties.                                                             *)

\* Every variable stays in its type, within the bound.
TypeOK ==
    /\ store \in 0..MaxCount
    /\ screen \in [Screens -> {"closed", "visible", "stopped"}]
    /\ listeners \subseteq CounterApps
    /\ selected \in [CounterApps -> 0..MaxCount] /\ drawn \in [CounterApps -> 0..MaxCount]
    /\ launched \in [CounterApps -> Nat] /\ ran \in [CounterApps -> Nat]

\* The loop never runs dry, in any CounterApp of any screen, whatever the other
\* screens do: each has a dispatch on its way, or a composition to launch one.
PulseAlive == \A c \in CounterApps : OnScreen(c) => launched[c] > 0 \/ selected[c] # drawn[c]

\* No CounterApp misses a dispatch, of its own or of another screen, visible or
\* not: all that are on a screen hold the state of the store.
AllInstancesAgree == \A c \in CounterApps : OnScreen(c) => selected[c] = store

\* The auto-increment never stalls on a screen that keeps being visible,
\* however often it is stopped and started, and others are opened and closed.
KeepsCounting ==
    \A s \in Screens :
        []<>(screen[s] = "visible") =>
            \A n \in 0..(MaxCount - 1) :
                store = n /\ screen[s] = "visible" ~> store > n \/ screen[s] = "closed"

\* README.md:2, "Redux counter (increment every frame)": a CounterApp adds one
\* increment to a frame at most, whatever dispatches were still outstanding
\* when its screen or another was left, stopped or entered again.
OneIncrementPerInstance == \A c \in CounterApps : ran[c] <= 1

\* To whoever looks on, the CounterApps are displays of one count: a frame only
\* moves a CounterApp forward, a screen that opens starts with the count of the
\* moment, and nothing that a closed screen launched counts on.
Shared == INSTANCE SharedCounter
              WITH Displays <- CounterApps, count <- store, shown <- drawn,
                   viewers <- {c \in CounterApps : OnScreen(c)}
ImplementsCounter == Shared!SharedSpec

=============================================================================
