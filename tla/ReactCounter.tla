---------------------------- MODULE ReactCounter ----------------------------
(***************************************************************************)
(* The React Native counter (usecases/Counter.tsx): several Counter        *)
(* components on one redux store, each with an interval of its own that    *)
(* dispatches INCREMENT.  Callbacks of the event loop run one at a time;   *)
(* a store change is drawn by a later render.                              *)
(*                                                                         *)
(* The store belongs to the JavaScript module: it outlives every screen,   *)
(* and two screens that a double tap has opened share it.  Intervals run   *)
(* on under a screen that covers theirs.                                   *)
(***************************************************************************)
EXTENDS Naturals

CONSTANTS Screens,    \* places for a CounterApp: root views of the runtime
          Instances,  \* the Counter components of a CounterApp
          MaxCount    \* bound: increments

ASSUME ReactCounterAssumption == MaxCount \in Nat

Counters == Screens \X Instances

ScreenOf(c) == c[1]

VARIABLES store,      \* counter of the store
          mounted,    \* screens whose CounterApp is mounted
          started,    \* mounted Counters whose effect has run
          timers,     \* timers[c]: intervals that Counter c set and nobody cleared
          drawn       \* drawn[c]: the counter that Counter c last rendered

vars == <<store, mounted, started, timers, drawn>>

Init ==
    /\ store = 0
    /\ mounted = {} /\ started = {}
    /\ timers = [c \in Counters |-> 0]
    /\ drawn = [c \in Counters |-> 0]

\* The first render of a screen.
Mount(s) ==
    /\ s \notin mounted
    /\ mounted' = mounted \cup {s}
    /\ drawn' = [c \in Counters |-> IF ScreenOf(c) = s THEN store ELSE drawn[c]]
    /\ UNCHANGED <<store, started, timers>>

\* useEffect of Counter c: its dependency never changes, so it runs once.
StartInterval(c) ==
    /\ ScreenOf(c) \in mounted /\ c \notin started
    /\ started' = started \cup {c}
    /\ timers' = [timers EXCEPT ![c] = @ + 1]
    /\ UNCHANGED <<store, mounted, drawn>>

\* An interval of Counter c fires: dispatch(increment()).
Tick(c) ==
    /\ timers[c] > 0 /\ store < MaxCount
    /\ store' = store + 1
    /\ UNCHANGED <<mounted, started, timers, drawn>>

\* Mutant: the component draws the value of the next increment.
RenderAhead(c) ==
    /\ ScreenOf(c) \in mounted /\ drawn[c] # store
    /\ drawn' = [drawn EXCEPT ![c] = store + 1]
    /\ UNCHANGED <<store, mounted, started, timers>>

\* Mutant: only one of the components is subscribed to the store.
RenderOne(c) ==
    /\ ScreenOf(c) \in mounted /\ drawn[c] # store /\ c = CHOOSE d \in Counters : TRUE
    /\ drawn' = [drawn EXCEPT ![c] = store]
    /\ UNCHANGED <<store, mounted, started, timers>>

\* useSelector of Counter c saw another value: it renders with the latest.
Render(c) ==
    /\ ScreenOf(c) \in mounted /\ drawn[c] # store
    /\ drawn' = [drawn EXCEPT ![c] = store]
    /\ UNCHANGED <<store, mounted, started, timers>>

\* Mutant: the effect returns no clean-up.
ClearedNever(c) == timers[c]

\* clearInterval, with the interval that the effect of Counter c set.
Cleared(c) == IF c \in started THEN timers[c] - 1 ELSE timers[c]

\* A screen is left: its components are unmounted, and their effects cleaned up.
Unmount(s) ==
    /\ s \in mounted
    /\ mounted' = mounted \ {s}
    /\ started' = {c \in started : ScreenOf(c) # s}
    /\ timers' = [c \in Counters |-> IF ScreenOf(c) = s THEN Cleared(c) ELSE timers[c]]
    /\ UNCHANGED <<store, drawn>>

Next ==
    \/ \E s \in Screens : Mount(s) \/ Unmount(s)
    \/ \E c \in Counters : StartInterval(c) \/ Tick(c) \/ Render(c)

Spec == Init /\ [][Next]_vars

\* React renders what is out of date, however fast the intervals fire.
FairSpec == Spec /\ \A c \in Counters : SF_vars(Render(c))

-----------------------------------------------------------------------------
(* Properties.                                                             *)

\* Every variable stays in its type, within the bound.
TypeOK ==
    /\ store \in 0..MaxCount
    /\ mounted \subseteq Screens /\ started \subseteq Counters
    /\ timers \in [Counters -> Nat]
    /\ drawn \in [Counters -> 0..MaxCount]

\* A Counter counts once while it is on screen and not at all when it is not,
\* however often its screen is left and entered, before or after its effect has
\* run: no interval goes on counting in a store that no screen shows, and none
\* is joined by another.
CountsOnceOnScreen ==
    \A c \in Counters : timers[c] <= IF ScreenOf(c) \in mounted THEN 1 ELSE 0

\* What a Counter draws catches up with what the store held.
DrawsCatchUp ==
    \A c \in Counters, n \in 1..MaxCount :
        ScreenOf(c) \in mounted /\ store = n ~> drawn[c] >= n \/ ScreenOf(c) \notin mounted

\* To whoever looks on, the Counters are displays of one count: a render only
\* moves a Counter forward, a screen that mounts starts with the count of the
\* moment, and no interval counts while every screen is left.
Shared == INSTANCE SharedCounter
              WITH Displays <- Counters, count <- store, shown <- drawn,
                   viewers <- {c \in Counters : ScreenOf(c) \in mounted}
ImplementsCounter == Shared!SharedSpec

=============================================================================
