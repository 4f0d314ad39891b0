----------------------------- MODULE RateWindow -----------------------------
(***************************************************************************)
(* The reducers of the three counters, side by side.  Each keeps the times *)
(* of the increments of the last five seconds, read off the wall clock,    *)
(* and shows their number over the window as the rate.  All stores get the *)
(* same increments here, so that the numbers the benchmark compares can be *)
(* compared; each has the filter and the rate of its own source.  A rate   *)
(* is its numerator over the window, and the unit of time is the same for  *)
(* all (CounterApp.swift has seconds where the others have milliseconds).  *)
(*                                                                         *)
(* The reducers only filter the list of times and count it, and increments *)
(* may share a time: the list is the set of the increments, by number,     *)
(* whose times are in it.                                                  *)
(***************************************************************************)
EXTENDS Naturals, Sequences, FiniteSets

CONSTANTS Window,          \* WINDOW_DURATION_MS, windowDuration
          MaxTime,         \* bound: wall-clock times are 1..MaxTime
          MaxIncrements    \* bound: increments

ASSUME RateAssumption ==
    Window \in Nat \ {0} /\ MaxTime \in Nat \ {0} /\ MaxIncrements \in Nat

VARIABLES now,      \* the wall clock
          compose, swift, react,  \* the state of each store
          times     \* history: when each increment was made

stores    == <<compose, swift, react>>
ratesVars == <<now, stores, times>>

NoIncrements == [counter |-> 0, rate |-> 0, timestamps |-> {}]

RatesInit ==
    /\ now = 1 /\ times = <<>>
    /\ compose = NoIncrements /\ swift = NoIncrements /\ react = NoIncrements

\* The increment that is being reduced.
ThisIncrement == Len(times) + 1

Counted(state, timestamps, rate) ==
    [counter |-> state.counter + 1, rate |-> rate, timestamps |-> timestamps]

-----------------------------------------------------------------------------
(* The reducers.                                                           *)

\* Counter.kt: .filter { it > currentTime - WINDOW_DURATION_MS }.plus(currentTime)
composeKept(timestamps) ==
    {i \in timestamps : times[i] + Window > now} \cup {ThisIncrement}

\* A single increment makes no rate in Counter.kt.
composeRate(n) == IF n > 1 THEN n ELSE 0

composeReducer(state) ==
    LET newTimestamps == composeKept(state.timestamps) IN
        Counted(state, newTimestamps, composeRate(Cardinality(newTimestamps)))

\* Mutant: the increment that is just as old as the window is kept.
swiftKeptInclusive(timestamps) ==
    {i \in timestamps : ~(times[i] + Window < now)} \cup {ThisIncrement}

\* CounterApp.swift: .filter { $0 > currentTime - windowDuration } + [currentTime]
swiftKept(timestamps) ==
    {i \in timestamps : times[i] + Window > now} \cup {ThisIncrement}

\* newTimestamps.count > 1 ? ... : 0.0
swiftRate(n) == IF n > 1 THEN n ELSE 0

swiftReducer(state) ==
    LET newTimestamps == swiftKept(state.timestamps) IN
        Counted(state, newTimestamps, swiftRate(Cardinality(newTimestamps)))

\* Counter.tsx: timestamp > currentTime - WINDOW_DURATION_MS
reactInWindow(timestamps) == {i \in timestamps : times[i] + Window > now}

\* Mutant: the rate is taken before the current time is pushed.
reactReducerCountsFirst(state) ==
    LET newTimestamps == reactInWindow(state.timestamps) IN
        Counted(state, newTimestamps \cup {ThisIncrement}, Cardinality(newTimestamps))

\* The current time is pushed; no case of its own for a single increment.
reactReducer(state) ==
    LET newTimestamps == reactInWindow(state.timestamps) \cup {ThisIncrement} IN
        Counted(state, newTimestamps, Cardinality(newTimestamps))

-----------------------------------------------------------------------------
\* The one action of the stores, dispatched to each.
Increment ==
    /\ Len(times) < MaxIncrements
    /\ compose' = composeReducer(compose)
    /\ swift' = swiftReducer(swift)
    /\ react' = reactReducer(react)
    /\ times' = Append(times, now)
    /\ UNCHANGED now

ClockRuns ==
    /\ now' \in (now + 1)..MaxTime
    /\ UNCHANGED <<stores, times>>

ClockIsSetBack ==
    /\ now' \in 1..(now - 1)
    /\ UNCHANGED <<stores, times>>

RatesNext == Increment \/ ClockRuns \/ ClockIsSetBack

RatesSpec == RatesInit /\ [][RatesNext]_ratesVars

-----------------------------------------------------------------------------
(* Properties.                                                             *)

\* Counter.kt:33, "All timestamps within our window will be kept in
\* `state.timestamps`": the list that each stack filters again at each increment
\* is what the whole history has in the window that ends at the last one, unless
\* the clock was set back between two increments.
ClockRanForward == \A i, j \in DOMAIN times : i < j => times[i] <= times[j]
KeepsWindow ==
    times # <<>> /\ ClockRanForward =>
        \A list \in {compose.timestamps, swift.timestamps, react.timestamps} :
            list = {i \in DOMAIN times : times[i] + Window > times[Len(times)]}

\* The increments that no later one found to be as old as the window.  After the
\* clock was set back these may have times in the future, and stay for longer
\* than the window.
Lasting == {i \in DOMAIN times :
               \A j \in DOMAIN times : i < j => times[i] + Window > times[j]}

\* The numbers the benchmark compares, in terms of the history, wherever the clock
\* was set: every counter has all increments, every rate has those that last, and
\* the stacks part where one increment lasts, which only Counter.tsx shows.
RatesOfHistory ==
    /\ compose.counter = Len(times) /\ swift.counter = Len(times) /\ react.counter = Len(times)
    /\ react.rate = Cardinality(Lasting)
    /\ compose.rate = IF Cardinality(Lasting) = 1 THEN 0 ELSE react.rate
    /\ swift.rate = compose.rate

=============================================================================
