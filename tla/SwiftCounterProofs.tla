------------------------- MODULE SwiftCounterProofs -------------------------
(***************************************************************************)
(* Theorems about SwiftCounter, for any identities, counts and reopenings. *)
(*                                                                         *)
(* That a ViewStore is told of every state rests on its subscription; that *)
(* the subscription survives the removal of dead boxes, which goes by      *)
(* identity, rests on there being one box for an identity; and that a      *)
(* ViewStore starts without a block of its predecessor rests on a block    *)
(* keeping its ViewStore alive.                                            *)
(***************************************************************************)
EXTENDS SwiftCounter, SequenceTheorems, TLAPS

\* The blocks lead from the state `shown' to the state `n', by ones.
Follows(shown, blocks, n) ==
    /\ blocks = <<>> => shown = n
    /\ blocks # <<>> => /\ Head(blocks) \in {shown, shown + 1}
                        /\ \A k \in DOMAIN blocks : blocks[k] + (Len(blocks) - k) = n

\* FreshWhenDrained and MissesNoState, which need one another.
Informed ==
    \A i \in Ids : view[i].phase # "free" => Follows(view[i].shown, inbox[i], counter)

\* The store never has two boxes for one identity: Set.update(with:) replaces.
OneBoxPerIdentity == \A b, c \in boxes : b.id = c.id => b = c

\* A block keeps its ViewStore alive.
FreeHasNoBlocks == \A i \in Ids : view[i].phase = "free" => inbox[i] = <<>>

\* So does a display link, also after the screen is gone.
LinksHoldViews == \A i \in Ids : links[i] > 0 => view[i].phase # "free"

IInv == /\ TypeOK
        /\ LiveViewIsSubscribed
        /\ OneBoxPerIdentity
        /\ Informed
        /\ OneLinkWhileAttached
        /\ FreeHasNoBlocks
        /\ LinksHoldViews

-----------------------------------------------------------------------------
(* Facts about one inbox.                                                  *)

\* A new ViewStore is told of the state that it begins with.
LEMMA FirstFollows ==
    ASSUME NEW n \in 0..MaxCount
    PROVE  Append(<<>>, n) \in Seq(0..MaxCount) /\ Follows(n, Append(<<>>, n), n)
  BY SwiftCounterAssumption DEF Follows

\* One more state is told in its turn.
LEMMA AppendFollows ==
    ASSUME NEW s \in Seq(0..MaxCount), NEW shown \in Nat, NEW n \in Nat, n + 1 \in 0..MaxCount,
           Follows(shown, s, n)
    PROVE  Append(s, n + 1) \in Seq(0..MaxCount) /\ Follows(shown, Append(s, n + 1), n + 1)
  <1> DEFINE t == Append(s, n + 1)
  <1>1. /\ t \in Seq(0..MaxCount) /\ Len(t) = Len(s) + 1 /\ Len(s) \in Nat
        /\ t[Len(s) + 1] = n + 1 /\ \A k \in 1..Len(s) : t[k] = s[k]
        /\ DOMAIN t = 1..(Len(s) + 1) /\ DOMAIN s = 1..Len(s)
    BY AppendProperties, LenProperties
  <1>2. \A k \in 1..Len(s) : s[k] \in 0..MaxCount
    BY ElementOfSeq, <1>1
  <1>3. t # <<>> /\ Head(t) = t[1]
    <2> HIDE DEF t
    <2> QED
      BY <1>1, EmptySeq, LenProperties
  <1>4. CASE s = <<>>
    <2>1. shown = n /\ Len(s) = 0
      BY <1>4 DEF Follows
    <2> QED
      BY <1>1, <1>3, <2>1, SwiftCounterAssumption DEF Follows
  <1>5. CASE s # <<>>
    <2>1. /\ Head(s) \in {shown, shown + 1}
          /\ \A k \in 1..Len(s) : s[k] + (Len(s) - k) = n
      BY <1>1, <1>5 DEF Follows
    <2>2. Len(s) \in Nat \ {0} /\ Head(s) = s[1]
      BY <1>5, <1>1, EmptySeq
    <2>3. Head(t) = Head(s)
      BY <1>1, <1>3, <2>2
    <2>4. \A k \in 1..(Len(s) + 1) : t[k] + ((Len(s) + 1) - k) = n + 1
      <3> SUFFICES ASSUME NEW k \in 1..(Len(s) + 1) PROVE t[k] + ((Len(s) + 1) - k) = n + 1
        OBVIOUS
      <3>1. CASE k = Len(s) + 1
        BY <1>1, <3>1
      <3>2. CASE k \in 1..Len(s)
        <4>1. t[k] = s[k] /\ s[k] \in 0..MaxCount /\ s[k] + (Len(s) - k) = n
          BY <1>1, <1>2, <2>1, <3>2
        <4> QED
          BY <1>1, <3>2, <4>1, SwiftCounterAssumption
      <3> QED
        BY <1>1, <3>1, <3>2
    <2> QED
      BY <1>1, <1>3, <2>1, <2>3, <2>4 DEF Follows
  <1> QED
    BY <1>1, <1>4, <1>5

\* The first block moves the ViewStore on, and the others go on from there.
LEMMA TailFollows ==
    ASSUME NEW s \in Seq(0..MaxCount), s # <<>>, NEW shown \in Nat, NEW n \in Nat,
           Follows(shown, s, n)
    PROVE  /\ Tail(s) \in Seq(0..MaxCount) /\ Head(s) \in 0..MaxCount
           /\ Head(s) \in shown..n
           /\ Follows(Head(s), Tail(s), n)
  <1>1. /\ Tail(s) \in Seq(0..MaxCount) /\ Head(s) \in 0..MaxCount
        /\ Len(s) \in Nat \ {0} /\ Head(s) = s[1] /\ Len(Tail(s)) = Len(s) - 1
        /\ DOMAIN s = 1..Len(s) /\ DOMAIN Tail(s) = 1..Len(Tail(s))
    <2>1. Tail(s) \in Seq(0..MaxCount) /\ Head(s) \in 0..MaxCount /\ Len(Tail(s)) = Len(s) - 1
      BY HeadTailProperties
    <2>2. Len(s) \in Nat \ {0} /\ Head(s) = s[1]
      BY EmptySeq, LenProperties
    <2> QED
      BY <2>1, <2>2, LenProperties
  <1>2. \A k \in 1..Len(Tail(s)) : Tail(s)[k] = s[k + 1]
    BY HeadTailProperties
  <1>3. /\ Head(s) \in {shown, shown + 1}
        /\ \A k \in 1..Len(s) : s[k] + (Len(s) - k) = n
    BY <1>1 DEF Follows
  <1>4. \A k \in 1..Len(s) : s[k] \in 0..MaxCount
    BY <1>1, ElementOfSeq
  <1>5. Head(s) + (Len(s) - 1) = n
    BY <1>1, <1>3
  <1>6. Head(s) \in shown..n
    BY <1>1, <1>3, <1>5, SwiftCounterAssumption
  <1>7. Tail(s) = <<>> => Head(s) = n
    <2> SUFFICES ASSUME Tail(s) = <<>> PROVE Head(s) = n
      OBVIOUS
    <2>1. Len(s) = 1
      BY <1>1
    <2> QED
      BY <1>1, <1>5, <2>1, SwiftCounterAssumption
  <1>8. Tail(s) # <<>> => /\ Head(Tail(s)) \in {Head(s), Head(s) + 1}
                          /\ \A k \in 1..Len(Tail(s)) : Tail(s)[k] + (Len(Tail(s)) - k) = n
    <2> SUFFICES ASSUME Tail(s) # <<>>
                 PROVE  /\ Head(Tail(s)) = Head(s) + 1
                        /\ \A k \in 1..Len(Tail(s)) : Tail(s)[k] + (Len(Tail(s)) - k) = n
      OBVIOUS
    <2>1. Len(Tail(s)) \in Nat \ {0} /\ Head(Tail(s)) = Tail(s)[1]
      BY <1>1, EmptySeq
    <2>2. Tail(s)[1] = s[2] /\ 2 \in 1..Len(s)
      BY <1>1, <1>2, <2>1
    <2>3. s[2] + (Len(s) - 2) = n /\ s[2] \in 0..MaxCount
      BY <1>3, <1>4, <2>2
    <2>4. Head(Tail(s)) = Head(s) + 1
      <3>1. \A a, b \in 0..MaxCount, l \in Nat : a + (l - 1) = n /\ b + (l - 2) = n => b = a + 1
        BY SwiftCounterAssumption
      <3>2. s[2] = Head(s) + 1
        BY <1>1, <1>5, <2>3, <3>1
      <3> QED
        BY <2>1, <2>2, <3>2
    <2>5. ASSUME NEW k \in 1..Len(Tail(s)) PROVE Tail(s)[k] + (Len(Tail(s)) - k) = n
      <3>1. Tail(s)[k] = s[k + 1] /\ k + 1 \in 1..Len(s)
        BY <1>1, <1>2
      <3>2. s[k + 1] + (Len(s) - (k + 1)) = n /\ s[k + 1] \in 0..MaxCount
        BY <1>3, <1>4, <3>1
      <3> QED
        BY <1>1, <3>1, <3>2, SwiftCounterAssumption
    <2> QED
      BY <2>4, <2>5
  <1> QED
    BY <1>1, <1>6, <1>7, <1>8 DEF Follows

-----------------------------------------------------------------------------
(* The invariant.                                                          *)

LEMMA InitIInv == Init => IInv
  <1> SUFFICES ASSUME Init PROVE IInv
    OBVIOUS
  <1>1. TypeOK
    <2>1. <<>> \in Seq(0..MaxCount)
      BY EmptySeq
    <2> QED BY <2>1, SwiftCounterAssumption DEF Init, TypeOK, ViewState
  <1> QED
    BY <1>1 DEF Init, IInv, LiveViewIsSubscribed, OneBoxPerIdentity, Informed,
                OneLinkWhileAttached, FreeHasNoBlocks, LinksHoldViews

\* What happens to the references of one ViewStore keeps the invariant, if the
\* ViewStore is gone only when the last of them is, a link runs exactly while the
\* view is attached, and the blocks go on from what the ViewStore shows.
LEMMA ReferencesKeepIInv ==
    ASSUME IInv, NEW i \in Ids, view[i].phase # "free",
           counter' = counter, boxes' = boxes,
           view' \in [Ids -> ViewState], inbox' \in [Ids -> Seq(0..MaxCount)],
           links' \in [Ids -> Nat], attached' \subseteq Ids,
           \A j \in Ids : j # i =>
               /\ view'[j] = view[j] /\ inbox'[j] = inbox[j] /\ links'[j] = links[j]
               /\ j \in attached' <=> j \in attached,
           view'[i].gen = view[i].gen,
           links'[i] = IF i \in attached' THEN 1 ELSE 0,
           view'[i].phase = "free" => inbox'[i] = <<>> /\ links'[i] = 0,
           Follows(view'[i].shown, inbox'[i], counter)
    PROVE  IInv'
  <1>1. TypeOK'
    BY DEF IInv, TypeOK
  <1>2. LiveViewIsSubscribed'
    <2> SUFFICES ASSUME NEW j \in Ids, view'[j].phase # "free"
                 PROVE  Box(j, view'[j].gen) \in boxes'
      BY DEF LiveViewIsSubscribed
    <2>1. view'[j].gen = view[j].gen /\ view[j].phase # "free" /\ boxes' = boxes
      OBVIOUS
    <2> QED
      BY <2>1 DEF IInv, LiveViewIsSubscribed
  <1>3. OneBoxPerIdentity'
    BY DEF IInv, OneBoxPerIdentity
  <1>4. Informed'
    <2> SUFFICES ASSUME NEW j \in Ids, view'[j].phase # "free"
                 PROVE  Follows(view'[j].shown, inbox'[j], counter)
      BY DEF Informed
    <2>1. CASE j = i
      BY <2>1
    <2>2. CASE j # i
      <3>1. view'[j] = view[j] /\ inbox'[j] = inbox[j]
        BY <2>2
      <3> QED
        BY <3>1 DEF IInv, Informed
    <2> QED
      BY <2>1, <2>2
  <1>5. OneLinkWhileAttached'
    <2> SUFFICES ASSUME NEW j \in Ids PROVE links'[j] = IF j \in attached' THEN 1 ELSE 0
      BY DEF OneLinkWhileAttached
    <2> QED
      BY DEF IInv, OneLinkWhileAttached
  <1>6. FreeHasNoBlocks'
    <2> SUFFICES ASSUME NEW j \in Ids, view'[j].phase = "free" PROVE inbox'[j] = <<>>
      BY DEF FreeHasNoBlocks
    <2> QED
      BY DEF IInv, FreeHasNoBlocks
  <1>7. LinksHoldViews'
    <2> SUFFICES ASSUME NEW j \in Ids, links'[j] > 0 PROVE view'[j].phase # "free"
      BY DEF LinksHoldViews
    <2>1. CASE j = i
      BY <2>1
    <2>2. CASE j # i
      <3>1. view'[j] = view[j] /\ links'[j] = links[j]
        BY <2>2
      <3> QED
        BY <3>1 DEF IInv, LinksHoldViews
    <2> QED
      BY <2>1, <2>2
  <1> QED
    BY <1>1, <1>2, <1>3, <1>4, <1>5, <1>6, <1>7 DEF IInv

LEMMA NextIInv == IInv /\ [Next]_vars => IInv'
  <1> SUFFICES ASSUME IInv, [Next]_vars PROVE IInv'
    OBVIOUS
  <1>T. /\ counter \in 0..MaxCount /\ boxes \subseteq [id : Ids, gen : 1..MaxOpens]
        /\ view \in [Ids -> ViewState] /\ inbox \in [Ids -> Seq(0..MaxCount)]
        /\ attached \subseteq Ids /\ links \in [Ids -> Nat]
        /\ counter \in Nat /\ \A i \in Ids : view[i].shown \in 0..MaxCount /\ view[i].shown \in Nat
    BY SwiftCounterAssumption DEF IInv, TypeOK, ViewState
  <1>L. \A i \in Ids : /\ links[i] \in {0, 1} /\ (links[i] = 1 <=> i \in attached)
                       /\ view[i].phase # "free" => Follows(view[i].shown, inbox[i], counter)
    BY DEF IInv, OneLinkWhileAttached, Informed
  <1>1. ASSUME NEW i \in Ids, Open(i) PROVE IInv'
    <2> DEFINE new == [phase |-> "held", gen |-> view[i].gen + 1, shown |-> counter]
    <2>1. /\ view[i].phase = "free" /\ view[i].gen < MaxOpens
          /\ UNCHANGED <<counter, attached, links>>
          /\ view' = [view EXCEPT ![i] = new]
          /\ boxes' = {c \in boxes : c.id # i} \cup {Box(i, view[i].gen + 1)}
          /\ inbox' = [inbox EXCEPT ![i] = Append(inbox[i], counter)]
      BY <1>1, <1>T DEF Open, InitialShown, Subscribed, Box, linkVars
    <2>2. view[i].gen + 1 \in 1..MaxOpens
      BY <1>T, <2>1, SwiftCounterAssumption DEF ViewState
    <2>3. new \in ViewState
      BY <1>T, <2>2 DEF ViewState
    <2>4. inbox[i] = <<>>
      BY <2>1 DEF IInv, FreeHasNoBlocks
    <2>5. Append(inbox[i], counter) \in Seq(0..MaxCount)
          /\ Follows(counter, Append(inbox[i], counter), counter)
      BY <1>T, <2>4, FirstFollows
    <2>6. \A j \in Ids : /\ view'[j] = IF j = i THEN new ELSE view[j]
                         /\ inbox'[j] = IF j = i THEN Append(inbox[i], counter) ELSE inbox[j]
      BY <1>T, <2>1
    <2>7. TypeOK'
      BY <1>T, <2>1, <2>2, <2>3, <2>5 DEF TypeOK, Box
    <2>8. LiveViewIsSubscribed' /\ OneBoxPerIdentity'
      BY <2>1, <2>6 DEF IInv, LiveViewIsSubscribed, OneBoxPerIdentity, Box
    <2>9. Informed'
      BY <2>1, <2>5, <2>6 DEF IInv, Informed
    <2>10. OneLinkWhileAttached' /\ FreeHasNoBlocks' /\ LinksHoldViews'
      BY <2>1, <2>6 DEF IInv, OneLinkWhileAttached, FreeHasNoBlocks, LinksHoldViews
    <2> QED
      BY <2>7, <2>8, <2>9, <2>10 DEF IInv
  <1>2. ASSUME NEW i \in Ids, Close(i) PROVE IInv'
    <2> DEFINE phase == Left("released", inbox[i], links[i])
    <2>1. phase \in {"free", "released"} /\ (phase = "free" => inbox[i] = <<>> /\ links[i] = 0)
      BY DEF Left
    <2>2. /\ UNCHANGED <<counter, boxes, inbox, attached, links>> /\ view[i].phase = "held"
          /\ view' = [view EXCEPT ![i].phase = phase]
      BY <1>2 DEF Close, linkVars
    <2> HIDE DEF phase
    <2>3. /\ view' \in [Ids -> ViewState] /\ \A j \in Ids : j # i => view'[j] = view[j]
          /\ view'[i].gen = view[i].gen /\ view'[i].shown = view[i].shown /\ view'[i].phase = phase
      BY <1>T, <2>1, <2>2 DEF ViewState
    <2> QED
      BY <1>T, <1>L, <2>1, <2>2, <2>3, ReferencesKeepIInv
  <1>3. ASSUME NEW i \in Ids, EnterSuperview(i) PROVE IInv'
    <2>1. /\ UNCHANGED <<counter, boxes, view, inbox>> /\ view[i].phase = "held"
          /\ attached' = attached \cup {i} /\ links' = [links EXCEPT ![i] = 1]
      BY <1>3, <1>L DEF EnterSuperview, Started
    <2>2. /\ attached' \subseteq Ids /\ links' \in [Ids -> Nat] /\ links'[i] = 1 /\ i \in attached'
          /\ \A j \in Ids : j # i => links'[j] = links[j] /\ (j \in attached' <=> j \in attached)
      BY <1>T, <2>1
    <2> QED
      BY <1>T, <1>L, <2>1, <2>2, ReferencesKeepIInv
  <1>4. ASSUME NEW i \in Ids, LeaveSuperview(i) PROVE IInv'
    <2> DEFINE phase == Left(view[i].phase, inbox[i], 0)
    <2>1. /\ UNCHANGED <<counter, boxes, inbox>> /\ i \in attached
          /\ attached' = attached \ {i} /\ links' = [links EXCEPT ![i] = 0]
          /\ view' = [view EXCEPT ![i].phase = phase]
      BY <1>4, <1>T DEF LeaveSuperview
    <2>2. view[i].phase # "free"
      BY <1>L, <2>1 DEF IInv, LinksHoldViews
    <2>3. phase \in {"free", "held", "released"} /\ (phase = "free" => inbox[i] = <<>>)
      BY <1>T, <2>2 DEF Left, ViewState
    <2> HIDE DEF phase
    <2>4. /\ view' \in [Ids -> ViewState] /\ \A j \in Ids : j # i => view'[j] = view[j]
          /\ view'[i].gen = view[i].gen /\ view'[i].shown = view[i].shown /\ view'[i].phase = phase
      BY <1>T, <2>1, <2>3 DEF ViewState
    <2>5. /\ attached' \subseteq Ids /\ links' \in [Ids -> Nat] /\ links'[i] = 0 /\ i \notin attached'
          /\ \A j \in Ids : j # i => links'[j] = links[j] /\ (j \in attached' <=> j \in attached)
      BY <1>T, <2>1
    <2> QED
      BY <1>T, <1>L, <2>1, <2>2, <2>3, <2>4, <2>5, ReferencesKeepIInv
  <1>5. ASSUME NEW i \in Ids, Deliver(i) PROVE IInv'
    <2> DEFINE phase == Left(view[i].phase, Tail(inbox[i]), links[i])
    <2>1. /\ UNCHANGED <<counter, boxes, attached, links>> /\ inbox[i] # <<>>
          /\ inbox' = [inbox EXCEPT ![i] = Tail(inbox[i])]
          /\ view' = [view EXCEPT ![i].shown = Head(inbox[i]), ![i].phase = phase]
      BY <1>5, <1>T DEF Deliver, linkVars
    <2>2. view[i].phase # "free"
      BY <2>1 DEF IInv, FreeHasNoBlocks
    <2>3. /\ Tail(inbox[i]) \in Seq(0..MaxCount) /\ Head(inbox[i]) \in 0..MaxCount
          /\ Follows(Head(inbox[i]), Tail(inbox[i]), counter)
      BY <1>T, <1>L, <2>1, <2>2, TailFollows
    <2>4. /\ phase \in {"free", "held", "released"}
          /\ phase = "free" => Tail(inbox[i]) = <<>> /\ links[i] = 0
      BY <1>T, <2>2 DEF Left, ViewState
    <2> HIDE DEF phase
    <2>5. /\ view' \in [Ids -> ViewState] /\ \A j \in Ids : j # i => view'[j] = view[j]
          /\ view'[i].gen = view[i].gen /\ view'[i].shown = Head(inbox[i]) /\ view'[i].phase = phase
      BY <1>T, <2>1, <2>3, <2>4 DEF ViewState
    <2>6. /\ inbox' \in [Ids -> Seq(0..MaxCount)] /\ inbox'[i] = Tail(inbox[i])
          /\ \A j \in Ids : j # i => inbox'[j] = inbox[j]
      BY <1>T, <2>1, <2>3
    <2>7. Follows(view'[i].shown, inbox'[i], counter)
      BY <2>3, <2>5, <2>6
    <2>8. view'[i].phase = "free" => inbox'[i] = <<>> /\ links'[i] = 0
      BY <2>1, <2>4, <2>5, <2>6
    <2>9. /\ links' \in [Ids -> Nat] /\ attached' \subseteq Ids
          /\ links'[i] = IF i \in attached' THEN 1 ELSE 0
          /\ \A j \in Ids : links'[j] = links[j] /\ (j \in attached' <=> j \in attached)
      BY <1>T, <1>L, <2>1
    <2> QED
      BY <2>1, <2>2, <2>5, <2>6, <2>7, <2>8, <2>9, ReferencesKeepIInv
  <1>6. ASSUME NEW i \in Ids, FrameUpdate(i) PROVE IInv'
    <2>1. /\ counter < MaxCount /\ counter' = counter + 1
          /\ boxes' = {b \in boxes : \A c \in boxes : c.id = b.id => Live(c)}
          /\ UNCHANGED <<view, attached, links>>
          /\ inbox' = [j \in Ids |-> IF \E b \in boxes : Live(b) /\ b.id = j
                                        THEN Append(inbox[j], counter + 1) ELSE inbox[j]]
      BY <1>6 DEF FrameUpdate, NotifiedBoxes, NotifiedState, linkVars
    <2>2. counter + 1 \in 0..MaxCount
      BY <1>T, <2>1, SwiftCounterAssumption
    <2>3. \A j \in Ids : view[j].phase # "free" =>
             /\ Box(j, view[j].gen) \in boxes /\ Live(Box(j, view[j].gen))
             /\ Box(j, view[j].gen).id = j
      BY DEF IInv, LiveViewIsSubscribed, Live, Box
    <2>4. \A j \in Ids : IF view[j].phase # "free"
                            THEN inbox'[j] = Append(inbox[j], counter + 1)
                            ELSE inbox'[j] = inbox[j]
      BY <2>1, <2>3 DEF Live
    <2>5. TypeOK'
      <3>1. \A j \in Ids : Append(inbox[j], counter + 1) \in Seq(0..MaxCount)
        BY <1>T, <2>2, AppendProperties
      <3> QED
        BY <1>T, <2>1, <2>2, <3>1 DEF TypeOK
    <2>6. LiveViewIsSubscribed'
      <3> SUFFICES ASSUME NEW j \in Ids, view[j].phase # "free"
                   PROVE  Box(j, view[j].gen) \in boxes'
        BY <2>1 DEF LiveViewIsSubscribed
      <3>1. \A c \in boxes : c.id = j => c = Box(j, view[j].gen)
        BY <2>3 DEF IInv, OneBoxPerIdentity
      <3> QED
        BY <2>1, <2>3, <3>1
    <2>7. Informed'
      <3> SUFFICES ASSUME NEW j \in Ids, view[j].phase # "free"
                   PROVE  Follows(view[j].shown, inbox'[j], counter + 1)
        BY <2>1 DEF Informed
      <3> QED
        BY <1>T, <1>L, <2>2, <2>4, AppendFollows
    <2>8. OneBoxPerIdentity' /\ OneLinkWhileAttached' /\ FreeHasNoBlocks' /\ LinksHoldViews'
      BY <2>1, <2>4 DEF IInv, OneBoxPerIdentity, OneLinkWhileAttached, FreeHasNoBlocks, LinksHoldViews
    <2> QED
      BY <2>5, <2>6, <2>7, <2>8 DEF IInv
  <1>7. CASE UNCHANGED vars
    BY <1>7 DEF vars, linkVars, IInv, TypeOK, LiveViewIsSubscribed, OneBoxPerIdentity, Informed,
                OneLinkWhileAttached, FreeHasNoBlocks, LinksHoldViews
  <1> QED
    BY <1>1, <1>2, <1>3, <1>4, <1>5, <1>6, <1>7 DEF Next

LEMMA Invariance == Spec => []IInv
  BY InitIInv, NextIInv, PTL DEF Spec

\* Every variable of the counter stays in its type.
THEOREM TypeCorrect == Spec => []TypeOK
  BY Invariance, PTL DEF IInv

\* A ViewStore that is alive has its box in the store, whatever boxes earlier
\* ViewStores left behind at its identity and whenever those are removed.
THEOREM NoViewUnsubscribed == Spec => []LiveViewIsSubscribed
  BY Invariance, PTL DEF IInv

\* One dispatch of the store calls newState() of a ViewStore once at most: there
\* is one box for it, however often its identity was used before.
THEOREM NotifiedOnce == Spec => []OneBoxPerIdentity
  BY Invariance, PTL DEF IInv

\* A drained main queue leaves no ViewStore with an old state.
THEOREM DrainedIsFresh == Spec => []FreshWhenDrained
  <1>1. IInv => FreshWhenDrained
    BY DEF IInv, Informed, Follows, FreshWhenDrained
  <1> QED
    BY <1>1, Invariance, PTL

\* Every state of the store is told to every ViewStore once and in its turn.
THEOREM ToldInTurn == Spec => []MissesNoState
  <1>1. IInv => MissesNoState
    BY DEF IInv, Informed, Follows, MissesNoState
  <1> QED
    BY <1>1, Invariance, PTL

\* An attached view has one display link, and a detached one has none, also if it
\* outlives its screen.
THEOREM OneLink == Spec => []OneLinkWhileAttached
  BY Invariance, PTL DEF IInv

-----------------------------------------------------------------------------
(* The refinement.                                                         *)

\* What drives or may drive the count, and what the ViewStores show.
OnShow == {i \in Ids : view[i].phase = "held" \/ links[i] > 0}
Shown  == [i \in Ids |-> view[i].shown]

\* No ViewStore is ahead of the store: its blocks lead up to the store's state.
LEMMA NeverAhead ==
    ASSUME IInv, NEW i \in Ids, view[i].phase # "free"
    PROVE  view[i].shown \in 0..MaxCount /\ counter \in 0..MaxCount /\ view[i].shown <= counter
  <1>1. /\ view[i].shown \in 0..MaxCount /\ view[i].shown \in Nat
        /\ counter \in 0..MaxCount /\ counter \in Nat
        /\ inbox[i] \in Seq(0..MaxCount) /\ Follows(view[i].shown, inbox[i], counter)
    BY SwiftCounterAssumption DEF IInv, TypeOK, ViewState, Informed
  <1>2. CASE inbox[i] = <<>>
    BY <1>1, <1>2 DEF Follows
  <1>3. CASE inbox[i] # <<>>
    <2>1. Head(inbox[i]) \in {view[i].shown, view[i].shown + 1}
      BY <1>1, <1>3 DEF Follows
    <2>2. Head(inbox[i]) \in view[i].shown..counter
      BY <1>1, <1>3, TailFollows
    <2> QED
      BY <1>1, <2>1, <2>2
  <1> QED
    BY <1>2, <1>3

\* A step that leaves the store alone and moves no ViewStore back is a Redraw.
LEMMA OthersRedraw ==
    ASSUME IInv, IInv', UNCHANGED counter,
           \A i \in OnShow' : IF i \in OnShow THEN view'[i].shown \in view[i].shown..counter
                                              ELSE view'[i].shown = counter
    PROVE  Shared!Redraw
  <1>1. OnShow' \subseteq Ids /\ Shown' \in [Ids -> Nat]
    BY SwiftCounterAssumption DEF IInv, TypeOK, ViewState, OnShow, Shown
  <1>2. \A i \in OnShow' : Shown'[i] = view'[i].shown /\ Shown[i] = view[i].shown
    BY DEF OnShow, Shown
  <1>3. \A i \in OnShow' : Shown'[i] \in IF i \in OnShow THEN Shown[i]..counter ELSE {counter}
    BY <1>2
  <1> QED
    BY <1>1, <1>3 DEF Shared!Redraw, Shared!MayShow, OnShow, Shown

LEMMA InitIsShared == Init => Shared!SharedInit
  BY DEF Init, Shared!SharedInit

LEMMA StepIsShared ==
    ASSUME IInv, IInv', [Next]_vars
    PROVE  [Shared!SharedNext]_(Shared!sharedVars)
  <1>T. /\ view \in [Ids -> ViewState] /\ links \in [Ids -> Nat]
        /\ inbox \in [Ids -> Seq(0..MaxCount)]
    BY DEF IInv, TypeOK
  <1>A. \A i \in OnShow : view[i].phase # "free" /\ view[i].shown \in view[i].shown..counter
    <2> SUFFICES ASSUME NEW i \in OnShow
                 PROVE  view[i].phase # "free" /\ view[i].shown \in view[i].shown..counter
      OBVIOUS
    <2>1. i \in Ids /\ view[i].phase # "free"
      BY DEF OnShow, IInv, LinksHoldViews
    <2> QED
      BY <2>1, NeverAhead, SwiftCounterAssumption
  <1>1. ASSUME NEW i \in Ids, Open(i) PROVE Shared!Redraw
    <2>1. i \notin OnShow /\ UNCHANGED <<counter, links>>
      BY <1>1, <1>A DEF Open, linkVars
    <2>2. view'[i].shown = counter /\ \A j \in Ids : j # i => view'[j] = view[j]
      BY <1>1, <1>T DEF Open, InitialShown
    <2> QED
      BY <1>A, <2>1, <2>2, OthersRedraw DEF OnShow
  <1>2. ASSUME NEW i \in Ids, Close(i) \/ EnterSuperview(i) \/ LeaveSuperview(i)
        PROVE  Shared!Redraw
    <2>1. UNCHANGED counter /\ \A j \in Ids : view'[j].shown = view[j].shown
      BY <1>2, <1>T DEF Close, EnterSuperview, LeaveSuperview, ViewState
    <2>2. OnShow' \subseteq OnShow
      <3> SUFFICES ASSUME NEW j \in OnShow' PROVE j \in OnShow
        OBVIOUS
      <3>1. CASE Close(i)
        BY <1>T, <3>1 DEF Close, linkVars, OnShow
      <3>2. CASE EnterSuperview(i)
        BY <1>T, <3>2 DEF EnterSuperview, OnShow
      <3>3. CASE LeaveSuperview(i)
        <4>1. Left(view[i].phase, inbox[i], 0) = "held" => view[i].phase = "held"
          BY DEF Left
        <4> QED
          BY <1>T, <3>3, <4>1 DEF LeaveSuperview, OnShow
      <3> QED
        BY <1>2, <3>1, <3>2, <3>3
    <2> QED
      BY <1>A, <2>1, <2>2, OthersRedraw DEF OnShow
  <1>3. ASSUME NEW i \in Ids, Deliver(i) PROVE Shared!Redraw
    <2>1. /\ inbox[i] # <<>> /\ UNCHANGED <<counter, links>>
          /\ view'[i].shown = Head(inbox[i]) /\ \A j \in Ids : j # i => view'[j] = view[j]
          /\ view'[i].phase = Left(view[i].phase, Tail(inbox[i]), links[i])
      BY <1>3, <1>T DEF Deliver, linkVars
    <2>2. view[i].phase # "free"
      BY <2>1 DEF IInv, FreeHasNoBlocks
    <2>3. Head(inbox[i]) \in view[i].shown..counter
      <3>1. view[i].shown \in Nat /\ counter \in Nat /\ Follows(view[i].shown, inbox[i], counter)
        BY <2>2, NeverAhead, SwiftCounterAssumption DEF IInv, Informed
      <3> QED
        BY <1>T, <2>1, <3>1, TailFollows
    <2>4. OnShow' \subseteq OnShow
      BY <2>1 DEF OnShow, Left
    <2> QED
      BY <1>A, <2>1, <2>3, <2>4, OthersRedraw DEF OnShow
  <1>4. ASSUME NEW i \in Ids, FrameUpdate(i) PROVE Shared!Increment
    BY <1>4 DEF FrameUpdate, linkVars, Shared!Increment
  <1>5. CASE UNCHANGED vars
    BY <1>5 DEF vars, linkVars, Shared!sharedVars
  <1> QED
    BY <1>1, <1>2, <1>3, <1>4, <1>5 DEF Next, Shared!SharedNext

\* Blocks only move a ViewStore forward, one that opens starts with the count of
\* the moment, and nothing counts without a screen or a view that nobody has taken
\* out of the hierarchy: the SwiftUI counter is a SharedCounter.
THEOREM SwiftImplementsCounter == Spec => ImplementsCounter
  BY InitIsShared, StepIsShared, Invariance, PTL
     DEF Spec, ImplementsCounter, Shared!SharedSpec

=============================================================================
