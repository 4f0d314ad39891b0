# A verification project for the multiplatform benchmark

The repository is a benchmark application: three user interface stacks
(Compose Multiplatform, SwiftUI, React Native), and in each of them the same two
use cases, a redux counter that increments itself and a grid of remote images
that loads page after page (`README.md:2`, `:3`). Which stack is faster is a
question for a profiler. Whether the stacks do *the same thing*, and do it
right under every interleaving of frames, requests and touches, is what this
project is about. The modules are translated from the code under `src/`; names
are those of the code.

Paths below are shortened: `K/` is
`multiplatform/shared/src/commonMain/kotlin/com/thekirankumar/crossplatformbenchmark/`,
`I/` is `multiplatform/iosApp/iosApp/`, `A/` is the package directory of
`multiplatform/androidApp`, `ReSwift/` is
`multiplatform/iosApp/Pods/ReSwift/ReSwift/CoreTypes/`.

## 1. Inventory

| Component | Code | State | Operations | What is hard |
|---|---|---|---|---|
| Product service | external, `GET /products?limit&skip` | the catalogue | return a slice | may fail or time out |
| SwiftUI grid | `I/SwiftUI/RemoteImage.swift` | view model: products, currentPage, isLoading, isEndReached | `loadMore`, its Task before and after the await, `onAppear` of grid and cells | a cell appears while a Task is spawned, suspended or failed; an ignored appearance is not repeated |
| Compose grid | `K/RemoteImage.kt` | `paginationState`, the composition's captured list, the lazy grid's layout | two LaunchedEffects, `onScrollToEnd`, `loadMoreProducts` | isLoading is tested by one coroutine and raised by another; the collector works with the list of an earlier composition; exceptions end the process |
| React grid | `usecases/RemoteImage.tsx` | four `useState` cells | mount effect, `onEndReached`, `loadMoreProducts` before and after its await | closures hold the state of the last render; failures look like the end of the list |
| SwiftUI counter | `I/SwiftUI/CounterApp.swift`, `ReSwift/Store.swift`, `ReSwift/Subscription.swift` | global Store, boxes with weak subscribers, ViewStores, display links | frame, dispatch, `newState`, init, deinit, `didMoveToSuperview` | deinit cannot find its box; object identities are reused; states queue on the main queue |
| Compose counter | `K/Counter.kt`, `A/ComposeActivity.kt` | global store, listeners, a selected state per composable | SideEffect, dispatch, recomposition, dispose | the increment loop feeds itself: one lost wake-up stops it, one too many doubles it; screens that cover each other share the store |
| React counter | `usecases/Counter.tsx` | module-level store, an interval per component | effect and clean-up, tick, render | several timers on one store, faster than renders; the store outlives every screen |
| Rate reducers | the reducers of the three counters | counter, rate, timestamps | reduce an increment | the sliding window is filtered incrementally, with a wall clock |
| Home page, Platform and hosts | `K/Homepage.kt`, `K/Models.kt`, `K/Platform.kt`, `Platform.android.kt`, `Platform.ios.kt`, `A/*Activity.kt`, `I/AppDelegate.swift`, `I/Compose`, `I/React`, `I/SwiftUI/SwiftUIView.swift`, `App.tsx` | tab, unfolded groups, the Platform's handler and context, the stack of screens | tap, openUseCase, initialize, back, recreation, process end | a singleton outlives the activity it points to; the same stacks and ids are spelled out in every table of the home page and again by every host, in three languages |

How they interact: the home page (Compose on both platforms) calls
`getPlatform().openUseCase`, whose handler was registered by the host; the host
starts an activity or presents a view controller, which shows the use case by
its id. Inside a use case everything happens on the main thread of its stack;
concurrency comes from suspension (await, coroutine dispatch, main-queue blocks,
timers) and from frames, requests and the user acting in between.

What makes a component correct:

* a grid shows the first pages of the catalogue, in order, with nothing repeated
  or left out; loads one page at a time; ends only when all is shown; never gets
  stuck with more to show; and takes its spinner down;
* a counter keeps counting while it is on screen, is driven once and not twice,
  every display of it is told of every state and catches up with its store,
  whatever becomes of the subscriptions of others;
* the reducers keep exactly the window, and their numbers are comparable;
* a tap opens the use case it names, whatever the system did to the hosts.

`PROJECT.json` lists, under "hazards", each place in the code where one of these
is at risk.

## 2. The modules

| Module | What it is |
|---|---|
| `ProductApi` | the service: `Slice(limit, skip)` of a fixed catalogue `1..Total`; what "the first n pages" means |
| `PagedFeed` | abstract specification of a paginated list: it grows by the next page, or ends once it is complete, and nothing else |
| `SharedCounter` | abstract specification of a counter: displays of one count, which goes up by ones while something displays it; a display starts with the present count, and never goes back or ahead |
| `SwiftProductGrid`, `ComposeProductGrid`, `ReactProductGrid` | the three grids; each is shown to implement `PagedFeed` |
| `SwiftCounter`, `ComposeCounter`, `ReactCounter` | the three counters and their stores, the last two with several screens on one store; each is shown to implement `SharedCounter` |
| `RateWindow` | the reducers, side by side on one clock |
| `Navigation` | home page, Platform, Android activities and iOS presentation |
| `ProductApiProofs` | lemmas about the slices of the service |
| `SwiftProductGridProofs`, `ComposeProductGridProofs`, `ReactProductGridProofs`, `SwiftCounterProofs`, `ComposeCounterProofs`, `ReactCounterProofs`, `NavigationProofs` | theorems about the module each is named after; those about `RateWindow` are with the React Native counter, whose reducer it compares with the others |

**Steps.** An action is one uninterrupted run of code: a callback, or a
coroutine from one suspension point to the next. A request is two actions, the
run up to the await and the run after it, and everything else can happen between
them.

* `SwiftProductGrid`: the main actor. `loadMore` only enqueues a Task (`Spawn`);
  `StartRequest` is the Task up to its await, and evaluates `skip` there, not
  earlier; `ReceivePage` and `FailRequest` are the rest of the `do` and the
  `catch`. The view is its last evaluated body (`rendered`), which may be older
  than the view model, and a prefix of cells that have appeared (`shown`).
  The ScrollView may appear again at any time (`GridAppears`), which retries a
  blank grid.
* `ComposeProductGrid`: a FIFO queue of dispatches, as the composition's
  dispatcher runs them. `onScrollToEnd` appends a `Load`; the flag goes up
  when that dispatch runs (`BeginLoad`). `RunCollect` is the collector of
  `snapshotFlow` with the list size its composition captured. `Answer` (engine),
  `Recompose` and `Layout` come from outside the queue. A layout may precede the
  recomposition that a page has caused, because scrolling measures the grid on
  its own. A failed request sets `crashed`: nothing catches the exception.
* `ReactProductGrid`: callbacks read `ui`, the last committed render. Setters
  take effect in the next render; since each of them is a function of the state
  alone, the model keeps the state that all of them lead to (`next`), which
  `Render` commits, and the number of runs of setters that wait for it
  (`waiting`, bounded by `MaxPending`). `FlatList` is modelled by its
  rule for `onEndReached`: once per content length, forgotten when the viewport
  leaves the threshold. Whether such a callback can run between a setter and its
  render depends on React's scheduling, which is not in this repository: it is
  the constant `CommitLag`, and both answers are checked.
* `SwiftCounter`: a box of the store carries the identity and the incarnation of
  its subscriber, since `Set.update(with:)` and the removal of dead boxes go by
  identity alone. A ViewStore is held by its screen, or released and alive for
  the blocks of `newState` and the display link that still refer to it, or gone.
  `links` counts display links as `didMoveToSuperview` starts and stops them
  (`EnterSuperview`, `LeaveSuperview`). A screen may go while the view is still
  attached: its link then goes on dispatching until the view leaves, if it does.
* `ComposeCounter`: screens open, stop, start and close over each other (a
  double tap starts two activities) and share the process's store.
  `launched[c]` counts the coroutines of `SideEffect` that CounterApp `c` has
  launched. A frame comes after all of them and composes what is out of date on
  visible screens (`Due`); each composition launches one more. `selected[c]` is
  the MutableState that the listener of `c` sets, visible or not; `drawn[c]` is
  what its last composition read. Closing cancels the scope and the subscription.
* `ReactCounter`: screens mount and unmount over one store. `timers[c]` counts
  the intervals that Counter `c` has set and not cleared; a screen may be left
  before the effect of its Counters has run. Ticks and renders interleave freely.
* `RateWindow`: one increment reaches the Kotlin, the Swift and the TypeScript
  reducer with the same time; each has the filter and the rate of its own source.
  The reducers do nothing with the list of times but filter, extend and count it,
  so that it is represented by the set of the increments whose times it holds
  (two may share a time); a rate is represented by its numerator.
* `Navigation`: home pages are numbered, so that a stale `appContext` can be
  told from the present one. The three tables of the home page are literal, with
  the stack and the id of every child; what is opened is compared with the tab
  and the group that were tapped. `startActivity` only requests (`starting`);
  `StartActivity` is the system acting on it. There is one MainActivity at a
  time.

Images, layout, text, styles and logging are left out everywhere. The page size
(30 in the code) and the catalogue are constants.

Each module carries, before a definition, the mutants of it that the runs are
tried against (`PROJECT.json`, "mutants"): the definition as a plausible bug
would have it. Every property checked by a passing run is violated by one.

## 3. The runs

| Run | Instance | What it shows |
|---|---|---|
| `swift_grid` | page 3, 8 products, 2 Tasks | one request at a time; whole pages in order; `PagedFeed`; no needed appearance is lost; a blank grid that appears again fills in the end; the spinner stops; a persistent user gets to the end |
| `compose_grid` | page 2, 5 products, screen of 3, 2 coroutines | test and assignment of isLoading in different coroutines still give single flight; no trigger is lost; `PagedFeed`; pages are fetched until the screen is full |
| `compose_grid_bottom` | page 2, 5 products, screen of 1 | **violated**: a load is launched away from the bottom |
| `react_grid` | page 2, 9 products, 3 calls, callbacks see the latest render | one call at a time; pages in order; `PagedFeed`, apart from the end that a failure declares |
| `react_grid_lag` | page 2, 5 products, 2 calls, callbacks may see outdated closures | even then the spinner is down at rest, and no report of the end is lost |
| `react_grid_failed_fetch` | requests may fail | **violated**: the list is declared complete with products missing |
| `react_grid_stale_closure` | no request fails, outdated closures | **violated**: a page is shown twice and another skipped, so the end is declared with products missing |
| `swift_counter` | 2 identities, 2 incarnations, 4 increments | a live ViewStore is subscribed, is told of every state in its turn and catches up; one display link per attached view, none for one that has left; `SharedCounter` |
| `compose_counter` | 2 screens of 2 CounterApps, 7 increments | the loop neither runs dry nor doubles in any CounterApp, none misses a dispatch of its own or of the other screen, a screen that keeps being visible keeps counting; `SharedCounter` |
| `react_counter` | 2 screens of 2 Counters, 3 increments | a Counter has one interval at most while it is on screen and none when it is not, whenever its screen is left; every Counter draws what the store held; `SharedCounter` |
| `rate_window` | window 3, clock to 7, 4 increments | the incremental filters equal the window of the whole history; wherever the clock is set, counts and rates are those of the increments that no later one found outdated, and the stacks differ only on a single one |
| `navigation` | both platforms, 3 home pages, 2 screens | the handler always serves the home page in front; every screen shows what was tapped |

**Why the bounds suffice.** In the grids the interesting cases are a full page,
a short last page, the empty page after it, and a second request beside the
first: every instance has them, and a second identity for a Task, coroutine or
call is enough for an overlap to show. In `compose_grid` the screen holds more
than a page, so that loading must continue without scrolling; in
`compose_grid_bottom` it holds less, so that a page can be out of sight.
`MaxPending` bounds the runs of setters that one render may have to show: a call
has two, so 2 is all there can be where one call runs at a time, and 4 is what
two overlapping calls can leave; no theorem depends on its value. In `compose_counter`
the bound on increments lets several frames pass with every CounterApp taking
part; two screens are what it takes to disturb one another, and to leave one
while the other goes on. In `react_counter` a tick changes nothing but the
store, so that few are needed. In `swift_counter` two incarnations of an identity
are what it takes to meet the box of the one before. The clock of `rate_window`
covers more than two windows, with equal times, jumps and setbacks. Three home
pages let the Platform outlive two.

**Fairness.** Only what the code's schedulers promise: a main actor, looper or
event loop runs what is enqueued (`WF` of the Task steps, of effects and
renders), and a request ends with data or an error, since
URLSession and the ktor engine report a dead connection (`usecases/RemoteImage.tsx`
sets no time-out, so that for the React grid this is assumed of the network); a frame follows
a composition (`Recompose`, and `Layout` while the screen is not filled).
`Frame` of the Compose counter and `Render` of the React counter have strong
fairness: they are only interrupted, by stopping the activity or by another
tick, and get their turn when it is over. So has `Dispatch`, of whichever
CounterApp is first: the looper serves its messages in order, and a screen that
is opened and closed again and again, taking its own coroutines with it, cannot
put off those of another. Nothing is assumed of the user.
Two properties state what they assume beyond it in the formula:
`PatienceIsRewarded` that the user returns to the last cell again and again, and
`BlankIsRetried` that the grid is made to appear again when that would load
something; both that not every request fails.

`CHECK_DEADLOCK` is off where the system really stops: a crashed application,
a complete list, or a bound.

## 4. What is proved

TLAPS checks the theorems below for every value of the constants, under the
named assumptions of the modules: the page size is a positive number and the
catalogue a number of products (`ApiAssumption`); there is an identity for a
Task, a coroutine or a call, and the viewport is not empty; bounds are numbers.
Screens and the counters on them may be any sets. Each module has an
inductive invariant, `IInv`, made of named parts, which TLC confirmed on the
run's instance before it was proved, and one step per action.

**`SwiftProductGridProofs`**: `TypeCorrect`, `OneRequestAtATime`
(`SingleRequest`), `PagesInOrder` (`ShowsWholePages`), `EndIsHonest` (the flag
goes up only when everything is shown), `NoAppearanceLost` (`NoLostAppearance`),
`BlankCanRetry` (a blank grid at rest gets through the guard of `loadMore()` when
it appears again; `BlankIsRetried` rests on it), and `SwiftImplementsFeed`: every
step is a step of `PagedFeed` or leaves it alone.

None of these is inductive alone. `ShowsWholePages` depends on the `skip` a
suspended Task holds: it must still be the first product that is not shown when
the page arrives (`AwaitsNextPage`), which is so because no other Task can have
turned the page meanwhile (`SingleRequest`), which depends on isLoading being up
exactly while a Task exists. That the end is honest depends on an empty answer
to that very offset. `NoLostAppearance` needs that the view never has more cells
than the view model (`ViewLags`), and that a list that is neither loading nor
ended and did not just fail has a cell still to appear. `ProductApiProofs` has
the arithmetic: the slice after the first *c* pages appended to them makes the
first *c + 1* pages (`NextPage`), and an empty slice means that nothing is left.

**`ComposeProductGridProofs`**: `TypeCorrect`, `OneCallAtATime`
(`SingleFlight`), `SpinnerIsHonest` (`SpinnerShowsLoad`), `PagesInOrder`,
`EndIsHonest`, `NoTriggerLost` (`NoLostTrigger`) and `ComposeImplementsFeed`.

Here isLoading alone does not keep calls apart: `onScrollToEnd` tests it, and
the coroutine it launches raises it later. What does is the order of the
dispatcher's queue (`QueueOK`): the collector of the present composition is
queued at most once, and behind a call that is still to begin; collectors of
earlier compositions are dead, because a composition is numbered by a list that
only grows; and a coroutine is queued exactly when its phase says so
(`CallsMatch`). So a live collector at the head of the queue that sees isLoading
down sees that there is no call at all. The list part is that of the Swift grid.
`NoLostTrigger` needs that whatever is at the bottom has a collector queued, a
call, or a composition on its way (`TriggerOnItsWay`).

**`SwiftCounterProofs`**: `TypeCorrect`, `NoViewUnsubscribed`
(`LiveViewIsSubscribed`), `DrainedIsFresh` (`FreshWhenDrained`), `ToldInTurn`
(`MissesNoState`), `OneLink` (`OneLinkWhileAttached`), `NotifiedOnce` and
`SwiftImplementsCounter`. `FreshWhenDrained` and `MissesNoState` need one another
(`Informed`): the blocks that wait for a ViewStore lead, by ones, from what it
shows to the store's state. They are kept up by the subscription, which a dead
box of the same identity could take with it when it is removed, were there not
one box for an identity at most (`OneBoxPerIdentity`, which also says that a
dispatch notifies a ViewStore once). An identity that is used again could meet
blocks of its predecessor, were it not that a block keeps its ViewStore alive
(`FreeHasNoBlocks`). That the view of a running link has its ViewStore, also after
the screen has gone, is `LinksHoldViews`; the refinement needs it, because such a
view still counts as a viewer.

**`ReactProductGridProofs`**: two invariants, because the code keeps some
promises whatever React does and others only if its callbacks are never late.

* However late a render is: `TypeCorrect`, `SpinnerRests` (`NoSpinnerAtRest`),
  `SpinnerIsAttended` (a spinner that is up has a request or a render to come),
  `NoTriggerLost` (`NoLostTrigger`) and `ListOnlyGrows`: even where a page is
  loaded twice, a render only appends, since what waits for it continues what is
  shown (`NextContinues`). Calls that overlap share one flag, but
  the setter that raises it belongs to a call that runs (`SpinnerHasCall`), and a
  report of the end that found the flag down has been answered or has a call
  (`ReportAnswered`), since lists only grow (`ListsGrow`).
* Under the hypothesis that no callback precedes an outstanding render
  (`~CommitLag`, written as an assumption of each theorem): `OneCallAtATime`
  (`SingleCall`), `PagesInOrder` (`ShowsWholePages`) and `ReactImplementsFeed`.
  The flag in `next` then belongs to the one call there is (`CallHoldsList`), the
  offset it asked for is still the next one when the answer comes
  (`AwaitsNextPage`), and a render has one page or the end to show and not both
  (`OneStepAhead`), which makes it a step of `PagedFeed`. Without the hypothesis
  the run `react_grid_stale_closure` refutes them. `EndIsHonest` says that the
  end is declared only when all is shown or after a failure (`EndInv`), and
  `EndMeansAllIfTold` that `EndMeansAll` holds if, besides, no request fails: each
  of the two runs that refute it drops one of these two hypotheses.

**`ComposeCounterProofs`**: `TypeCorrect`, `NeverRunsDry` (`PulseAlive`),
`InstancesAgree` (`AllInstancesAgree`), `IncrementsPerFrame`
(`OneIncrementPerInstance`) and `ComposeImplementsCounter`, for any number of
screens. A dispatch is an `Increment` of `SharedCounter` because the scope of a
closed screen is cancelled (`ScopeFollowsScreen`); a frame or an opening is a
`Redraw` because what it draws is the store's state (`AllInstancesAgree`). The loop of a CounterApp
lives on because what is drawn is never newer than the store (`DrawnIsPast`), so
that its own dispatch, or one of anybody else, leaves it out of date; the bound
counts, for each CounterApp, what it launched and what has run since the last
frame (`OneLaunchPerFrame`).

**`ReactCounterProofs`**: `TypeCorrect`, `CountsOnce` (`CountsOnceOnScreen`),
`StoreRestsOffScreen` (the store changes only while some screen is mounted) and
`ReactImplementsCounter`.
Whatever has started is on screen (`StartedOnScreen`), and a Counter has one
interval exactly when its effect has run (`OneTimerPerEffect`), so that leaving a
screen before an effect has run clears nothing and loses nothing. A tick is an `Increment` of `SharedCounter` by
the same two facts, and a render never goes back because nothing that is drawn is
newer than the store (`DrawnIsPast`).

About the reducers (`RatesInv`): `KeepsTheWindow` (`KeepsWindow`) and
`RatesFollowHistory` (`RatesOfHistory`). No store has the history, but each list is
a function of it (`ListsLast`): it has the increments that no later one found to be
as old as the window (`Lasting`), because an increment that is dropped once never
comes back (`LastingNext`). While the clock runs forward those are the increments
of the window. After the clock was set back they are not: increments from before
have times in the future, are counted until the clock has passed them by a window,
and the rate is too high for as long. The theorem says which increments a
rate counts, not that it is the rate of the last five seconds.

**`NavigationProofs`**: `TypeCorrect`, `HandlerIsCurrent` (`HandlerServesHome`)
and `OpensWhatWasTapped` (`ShowsTappedUseCase`). A screen is right when it is
asked for (`TablesAgree`: the literals of each tab name that tab and the group;
`HostsAgree`: the hosts route them to what they name), and stays so in the
system's queue (`ScreensOK`).

Every safety property of a passing run is proved for every value of the
constants, under the hypothesis stated where a run has `CommitLag` off. Type
correctness of the counters is left to the proofs: their runs check the
refinement instead.

Only model-checked, because liveness under fairness and `ENABLED` are outside of
what the prover can do: `SpinnerStops` (two runs), `BlankIsRetried`, `PatienceIsRewarded`,
`NeverHeldAtBottom`, `KeepsCounting` and `DrawsCatchUp`. What they rest on besides
fairness is proved, that something is always there to make the next step:
`SingleRequest`, `BlankCanRetry`, `NoLostAppearance`, `NoLostTrigger`,
`SpinnerIsAttended` and `PulseAlive`.

## 5. What the code does differently from what it says

Runs that end with a violation on purpose; `PROJECT.json` "findings" quotes the
line each one contradicts.

* `usecases/RemoteImage.tsx:26`: `fetchProducts` returns `[]` on an error, which
  `loadMoreProducts` takes for the end of the catalogue. One failure ends the
  list for good. The Swift grid retries at the next appearance of its last cell;
  the Compose grid does not catch the error at all.
* `usecases/RemoteImage.tsx:46`: guard and offset come from the closure of the
  last render. If FlatList reports the end twice before the next one, the same
  page is fetched twice, `currentPage` advances by two, and a page is skipped.
* `K/RemoteImage.kt:127`: the collector compares with the list its composition
  captured, so that one arrival at the bottom can load two pages.

Observed, without a run: the counter of a screen with *n* counters advances by
up to *n* per frame and not by one (`OneIncrementPerInstance`, one for each
CounterApp, is the bound that holds; `README.md:2` says "increment every
frame"), so that the rate shown as
FPS depends on how many counters are shown: five on Android, one with Compose on
iOS, three with SwiftUI and React Native. A double tap on the home page opens a use case twice;
the covered screen of a React Native counter keeps its intervals, and the rate
that the one in front shows is that of both. The increments of `Counter.tsx` come
from timers and not, as its line 4 says, from re-renders. `KeepsWindow` needs a
clock that is not set back; after a setback the rates are too high for a while
(`RatesOfHistory`). The stacks show different rates for a single increment. The
root of the SwiftUI images group has the id of the redux group
(`K/Homepage.kt:131`), without effect, since only children can be tapped.

## 6. Not modelled

* Vendored pods except ReSwift's store: third-party code. Nearly all of the
  repository's lines are these: the C and C++ files are all below
  `multiplatform/iosApp/Pods` (boost, folly, fmt, glog, DoubleConversion,
  hermes), and the application has none of its own. A share that is counted over
  the C++ files is therefore nought; the application is some 1,500 lines of
  Kotlin, Swift and TypeScript, of which the map names somewhat less than half, the rest being
  layout, declarations and start-up.
* The JavaScript bundles and the build files: generated or configuration.
  (`AppDelegate.bundleURL` loads `main.jsbundle`, while the documented bundle
  command writes `main.bundle`; no model is needed to see that.)
* `AlternateMainScreen.swift`, `ViewController.swift`, themes, `Greeting.kt`: no
  path of the application reaches them, or they are layout.
* Image loading and caching (Kingfisher, Coil, React Native's Image): libraries,
  used with default policies.
* React Native start-up (`MainApplication.kt`, `ReactNativeActivity.kt`,
  `ReactViewController.swift`): configuration handed to the framework, with no
  state of the application's own. The use case that they pass on is part of
  `Navigation`.
* The product service itself: paging of a catalogue that does not change while
  it is read. What it does when products come and go cannot be told from here.
* Two MainActivity instances at a time, which the launch mode allows but the
  launcher does not bring about: it brings the running task to the front.
* When a view leaves its hierarchy: that is up to UIKit and LazyVStack. A display
  link may outlive its screen in `SwiftCounter`, and no property says that it ends.
* What follows the crash of the Compose grid: isLoading stays up, but the
  application ends, and the properties exempt that state.
* A grid that is left and opened again: all of its state goes with it (view
  model, `remember`, `useState`), and the Task or request that is still running
  writes to what nobody sees, so that it is a new run of the same module.

## 7. Plan

Everything planned is done: the abstract feed and the three grids that implement
it, the abstract counter and the three counters that implement it, the reducers,
the navigation, each with its proofs. What would come next needs the code to
change first:

1. a `fetchProducts` that tells a failure from the end, and guards that read a
   ref rather than a closure: the two runs on `EndMeansAll` should then pass, and
   the hypotheses of `ReactProductGridProofs` be dropped;
2. the same for `RemoteImage.kt:127` and `compose_grid_bottom`.
