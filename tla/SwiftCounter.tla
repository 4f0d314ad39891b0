---------------------------- MODULE SwiftCounter ----------------------------
(***************************************************************************)
(* The SwiftUI counter: the global ReSwift Store, its subscription boxes   *)
(* and the ViewStores that subscribe to it (CounterApp.swift, and Store    *)
(* and Subscription of ReSwift as the counter uses them).                  *)
(*                                                                         *)
(* All of it runs on the main thread.  What interleaves is the frames that *)
(* dispatch, the blocks that newState() enqueues on the main queue, and    *)
(* the life of the ViewStores.  A state is its `counter': every action     *)
(* changes it, so skipRepeats() never holds one back.  One callback view   *)
(* stands for the three of a screen, whose frames come in any order.       *)
(***************************************************************************)
EXTENDS Naturals, Sequences

CONSTANTS Ids,       \* object identities, reused after deallocation
          MaxCount,  \* bound: increments
          MaxOpens   \* bound: ViewStores created at one identity

ASSUME SwiftCounterAssumption == MaxCount \in Nat /\ MaxOpens \in Nat

VARIABLES counter,  \* store.state.counter
          boxes,    \* store.subscriptions
          view,     \* view[i]: the ViewStore at identity i
          inbox,    \* inbox[i]: blocks on the main queue that hold view[i]
          attached, \* identities whose CallbackUIView has a superview
          links     \* links[i]: display links that call that view

linkVars == <<attached, links>>
vars     == <<counter, boxes, view, inbox, linkVars>>

\* A ViewStore is held by its screen; or released by it, and alive for the blocks
\* and the display link that still refer to it; or deallocated.
ViewState == [phase : {"free", "held", "released"}, gen : 0..MaxOpens, shown : 0..MaxCount]

Box(i, g) == [id |-> i, gen |-> g]

\* The box's weak reference to its subscriber is not nil.
Live(b) == view[b.id].gen = b.gen /\ view[b.id].phase # "free"

Init ==
    /\ counter = 0
    /\ boxes = {}
    /\ view = [i \in Ids |-> [phase |-> "free", gen |-> 0, shown |-> 0]]
    /\ inbox = [i \in Ids |-> <<>>]
    /\ attached = {} /\ links = [i \in Ids |-> 0]

-----------------------------------------------------------------------------
\* Mutant: creating the ViewStore reduces an action of its own first.
ShownAfterInit == counter + 1

\* self.state = store.state
InitialShown == counter

\* Mutant: Set.insert, which keeps an equal box of a ViewStore that is gone.
SubscribedByInsert(b) ==
    IF \E c \in boxes : c.id = b.id THEN boxes ELSE boxes \cup {b}

\* Set.update(with:), where boxes are equal if their identities are.
Subscribed(b) == {c \in boxes : c.id # b.id} \cup {b}

\* ViewStore.init: it subscribes, and newState() enqueues the current state.
Open(i) ==
    /\ view[i].phase = "free" /\ view[i].gen < MaxOpens
    /\ view' = [view EXCEPT ![i] = [phase |-> "held", gen |-> @.gen + 1, shown |-> InitialShown]]
    /\ boxes' = Subscribed(Box(i, view[i].gen + 1))
    /\ inbox' = [inbox EXCEPT ![i] = Append(@, counter)]
    /\ UNCHANGED <<counter, linkVars>>

\* didSet of Store.state removes each box whose subscriber is nil; remove() goes
\* by equality, hence takes whatever box there is of that identity.
NotifiedBoxes == {b \in boxes : \A c \in boxes : c.id = b.id => Live(c)}

\* Mutant: the boxes are given the state before the action, as in a willSet.
NotifiedStateBefore == counter

\* newValues(oldState: oldValue, newState: state), after the assignment
NotifiedState == counter + 1

\* Mutant: a view that moves to another superview starts another link.
StartedAlways(n) == n + 1

\* startFrameUpdates, which leaves a link alone that is running.
Started(n) == IF n = 0 THEN 1 ELSE n

\* The phase once a strong reference is gone.  A block holds the ViewStore, and a
\* display link does, by way of its target and the closure onFrame.  deinit calls
\* unsubscribe(self), which finds no box: the weak reference is nil by then.
Left(phase, blocks, n) == IF phase # "held" /\ blocks = <<>> /\ n = 0 THEN "free" ELSE phase

\* didMoveToSuperview: the view of a screen enters the hierarchy or moves in it.
EnterSuperview(i) ==
    /\ view[i].phase = "held"
    /\ attached' = attached \cup {i}
    /\ links' = [links EXCEPT ![i] = Started(@)]
    /\ UNCHANGED <<counter, boxes, view, inbox>>

\* didMoveToSuperview with nil: the view leaves, before its screen goes or after.
LeaveSuperview(i) ==
    /\ i \in attached
    /\ attached' = attached \ {i}
    /\ links' = [links EXCEPT ![i] = 0]
    /\ view' = [view EXCEPT ![i].phase = Left(@, inbox[i], 0)]
    /\ UNCHANGED <<counter, boxes, inbox>>

\* A display link fires: dispatch, reduce, notify.
FrameUpdate(i) ==
    /\ links[i] > 0 /\ counter < MaxCount
    /\ counter' = counter + 1
    /\ boxes' = NotifiedBoxes
    /\ inbox' = [j \in Ids |-> IF \E b \in boxes : Live(b) /\ b.id = j
                                  THEN Append(inbox[j], NotifiedState) ELSE inbox[j]]
    /\ UNCHANGED <<view, linkVars>>

\* The screen drops its ViewStore.  Its view may be attached still, with a link
\* that goes on counting until the view leaves, if it ever does.
Close(i) ==
    /\ view[i].phase = "held"
    /\ view' = [view EXCEPT ![i].phase = Left("released", inbox[i], links[i])]
    /\ UNCHANGED <<counter, boxes, inbox, linkVars>>

\* Mutant: the newest block first, as if state changes could overtake.
DeliverNewest(i) ==
    /\ inbox[i] # <<>>
    /\ LET rest == SubSeq(inbox[i], 1, Len(inbox[i]) - 1) IN
          /\ inbox' = [inbox EXCEPT ![i] = rest]
          /\ view' = [view EXCEPT ![i].shown = inbox[i][Len(inbox[i])],
                                  ![i].phase = Left(@, rest, links[i])]
    /\ UNCHANGED <<counter, boxes, linkVars>>

\* The main queue runs a block of newState(): self.state = state.
Deliver(i) ==
    /\ inbox[i] # <<>>
    /\ inbox' = [inbox EXCEPT ![i] = Tail(@)]
    /\ view' = [view EXCEPT ![i].shown = Head(inbox[i]),
                            ![i].phase = Left(@, Tail(inbox[i]), links[i])]
    /\ UNCHANGED <<counter, boxes, linkVars>>

Next ==
    \E i \in Ids : \/ Open(i) \/ Close(i)
                  \/ EnterSuperview(i) \/ LeaveSuperview(i)
                  \/ FrameUpdate(i) \/ Deliver(i)

Spec == Init /\ [][Next]_vars

-----------------------------------------------------------------------------
(* Properties.                                                             *)

\* Every variable stays in its type, within the bounds.
TypeOK ==
    /\ counter \in 0..MaxCount
    /\ boxes \subseteq [id : Ids, gen : 1..MaxOpens]
    /\ view \in [Ids -> ViewState]
    /\ inbox \in [Ids -> Seq(0..MaxCount)]
    /\ attached \subseteq Ids /\ links \in [Ids -> Nat]

\* A ViewStore that is alive is subscribed, even if it was allocated where an
\* earlier one was, whose box is still in the store and is removed, by identity,
\* while the others are notified.
LiveViewIsSubscribed ==
    \A i \in Ids : view[i].phase # "free" => Box(i, view[i].gen) \in boxes

\* Once the main queue is drained, every ViewStore shows the store's state.
FreshWhenDrained ==
    \A i \in Ids : view[i].phase # "free" /\ inbox[i] = <<>> => view[i].shown = counter

\* No ViewStore misses a state or is told of one out of turn, however many blocks
\* wait for it: they hold the latest states, one each and in order, and go on from
\* the one it shows (the first block of a new ViewStore repeats it).
MissesNoState ==
    \A i \in Ids : view[i].phase # "free" /\ inbox[i] # <<>> =>
        /\ Head(inbox[i]) \in {view[i].shown, view[i].shown + 1}
        /\ \A k \in DOMAIN inbox[i] : inbox[i][k] + (Len(inbox[i]) - k) = counter

\* However a view is moved about, and whether it leaves before its screen goes or
\* after, one display link drives it while it is attached and none once it has left.
OneLinkWhileAttached == \A i \in Ids : links[i] = IF i \in attached THEN 1 ELSE 0

\* To whoever looks on, the ViewStores are displays of one count: the blocks of
\* the main queue only move a ViewStore forward, one that opens starts with the
\* count of the moment, at whatever identity, and nothing counts without a screen
\* or a view of one that nobody has taken out of the hierarchy.
Shared == INSTANCE SharedCounter
              WITH Displays <- Ids, count <- counter, shown <- [i \in Ids |-> view[i].shown],
                   viewers <- {i \in Ids : view[i].phase = "held" \/ links[i] > 0}
ImplementsCounter == Shared!SharedSpec

=============================================================================
