-------------------------- MODULE NavigationProofs --------------------------
(***************************************************************************)
(* Theorems about Navigation, for any number of home pages and screens.    *)
(***************************************************************************)
EXTENDS Navigation, TLAPS

\* What is open or about to be is of its type and shows what was tapped.
Faithful(opens) == \A i \in DOMAIN opens : ShowsTapped(opens[i])

ScreensOK(opens) == opens \in Seq(Open) /\ Len(opens) <= MaxScreens /\ Faithful(opens)

HomeOK ==
    /\ platform \in {"Android", "iOS"}
    /\ created \in 0..MaxHomes /\ home \in {0, created} /\ context \in 0..created
    /\ page \in supportedStacks /\ expanded \subseteq Groups

\* The invariant that the steps preserve: a screen is right when it is asked
\* for, and stays so in the system's queue and on the stack.
IInv == HomeOK /\ HandlerServesHome /\ ScreensOK(starting) /\ ScreensOK(screens)

LEMMA IInvTypes == IInv => TypeOK /\ Faithful(screens)
  BY DEF IInv, HomeOK, ScreensOK, TypeOK

\* Front drops the last of a sequence (SequencesExt.Front).
LEMMA FrontOfSeq ==
    ASSUME NEW S, NEW s \in Seq(S), s # <<>>
    PROVE  /\ Front(s) \in Seq(S) /\ Len(Front(s)) = Len(s) - 1
           /\ \A i \in DOMAIN Front(s) : i \in DOMAIN s /\ Front(s)[i] = s[i]
  BY DEF Front

\* Append, Tail and Front keep what every element has.
LEMMA AppendOK ==
    ASSUME NEW s, NEW e \in Open, ScreensOK(s), ShowsTapped(e), Len(s) < MaxScreens
    PROVE  ScreensOK(Append(s, e))
  <1>1. Append(s, e) \in Seq(Open) /\ Len(Append(s, e)) = Len(s) + 1
    BY DEF ScreensOK
  <1>2. Len(s) \in Nat /\ Len(s) + 1 <= MaxScreens
    BY NavigationAssumption DEF ScreensOK
  <1>3. Faithful(Append(s, e))
    BY DEF ScreensOK, Faithful
  <1> QED
    BY <1>1, <1>2, <1>3 DEF ScreensOK

LEMMA TailOK ==
    ASSUME NEW s, s # <<>>, ScreensOK(s)
    PROVE  ScreensOK(Tail(s)) /\ ShowsTapped(Head(s)) /\ Head(s) \in Open
  <1>1. /\ Tail(s) \in Seq(Open) /\ Head(s) \in Open /\ Head(s) = s[1] /\ 1 \in DOMAIN s
        /\ Len(Tail(s)) = Len(s) - 1 /\ Len(s) \in Nat
        /\ \A i \in DOMAIN Tail(s) : i + 1 \in DOMAIN s /\ Tail(s)[i] = s[i + 1]
    BY DEF ScreensOK
  <1>2. Faithful(Tail(s)) /\ ShowsTapped(Head(s))
    <2> HIDE DEF ShowsTapped
    <2> QED
      BY <1>1 DEF ScreensOK, Faithful
  <1>3. Len(Tail(s)) <= MaxScreens
    BY <1>1, NavigationAssumption DEF ScreensOK
  <1> QED
    BY <1>1, <1>2, <1>3 DEF ScreensOK

LEMMA FrontOK ==
    ASSUME NEW s, s # <<>>, ScreensOK(s)
    PROVE  ScreensOK(Front(s))
  <1>1. /\ Front(s) \in Seq(Open) /\ Len(Front(s)) = Len(s) - 1 /\ Len(s) \in Nat
        /\ \A i \in DOMAIN Front(s) : i \in DOMAIN s /\ Front(s)[i] = s[i]
    BY FrontOfSeq DEF ScreensOK
  <1>2. Faithful(Front(s))
    BY <1>1 DEF ScreensOK, Faithful
  <1>3. Len(Front(s)) <= MaxScreens
    BY <1>1, NavigationAssumption DEF ScreensOK
  <1> QED
    BY <1>1, <1>2, <1>3 DEF ScreensOK

LEMMA EmptyOK == ScreensOK(<<>>)
  BY NavigationAssumption DEF ScreensOK, Faithful

\* What is to open when a group of the present tab is tapped.
Content(group) == IF group = "Redux" THEN "counter" ELSE "grid"
Opened(group)  == [tapped |-> Tapped(group), screen |-> Screen(page, Content(group))]

LEMMA OpenedIsRight ==
    ASSUME HomeOK, NEW group \in Groups
    PROVE  Opened(group) \in Open /\ ShowsTapped(Opened(group))
  <1>1. page \in EveryStack /\ Content(group) \in Contents
    BY DEF HomeOK, supportedStacks, EveryStack, Content, Contents
  <1>2. Opened(group) \in Open
    BY <1>1 DEF Open, Opened, Tapped, Screen
  <1>3. /\ Opened(group).tapped = Tapped(group)
        /\ Opened(group).screen = Screen(page, Content(group))
    BY DEF Opened
  <1>4. ShowsTapped(Opened(group))
    BY <1>3 DEF ShowsTapped, Tapped, Screen, Content
  <1> QED
    BY <1>2, <1>4

\* The tables name the stack of their own tab and the id of the group.
LEMMA TablesAgree ==
    ASSUME HomeOK, NEW group \in Groups, NEW u \in Children(group)
    PROVE  /\ u.stack = page
           /\ u.id = IF group = "Redux" THEN Counter ELSE Images
  <1> DEFINE id == IF group = "Redux" THEN Counter ELSE Images
  <1>1. page \in EveryStack
    BY DEF HomeOK, supportedStacks, EveryStack
  <1>2. /\ ComposeTabContent["Redux"] = {UseCase("Compose", Counter)}
        /\ ComposeTabContent["Images"] = {UseCase("Compose", Images)}
    BY DEF ComposeTabContent
  <1>3. /\ ReactNativeTabContent["Redux"] = {UseCase("React Native", Counter)}
        /\ ReactNativeTabContent["Images"] = {UseCase("React Native", Images)}
    BY DEF ReactNativeTabContent
  <1>4. /\ SwiftUITabContent["Redux"] = {UseCase("SwiftUI", Counter)}
        /\ SwiftUITabContent["Images"] = {UseCase("SwiftUI", Images)}
    BY DEF SwiftUITabContent
  <1>5. /\ ComposeTabContent[group] = {UseCase("Compose", id)}
        /\ ReactNativeTabContent[group] = {UseCase("React Native", id)}
        /\ SwiftUITabContent[group] = {UseCase("SwiftUI", id)}
    <2>1. CASE group = "Redux"
      BY <1>2, <1>3, <1>4, <2>1
    <2>2. CASE group = "Images"
      BY <1>2, <1>3, <1>4, <2>2
    <2> QED
      BY <2>1, <2>2 DEF Groups
  <1> HIDE DEF id
  <1>6. u = UseCase(page, id)
    BY <1>1, <1>5 DEF Children, EveryStack
  <1> QED
    BY <1>6 DEF UseCase, id

\* A tap on an unfolded use case opens it, whichever host is picked.
LEMMA HostsAgree ==
    ASSUME HomeOK, NEW group \in Groups, NEW u \in Children(group)
    PROVE  /\ ControllerFor(u) = Screen(page, Content(group))
           /\ platform = "Android" => ActivityFor(u) = Screen(page, Content(group))
  <1>1. u.stack = page /\ u.id = IF group = "Redux" THEN Counter ELSE Images
    BY TablesAgree
  <1>2. page \in EveryStack /\ (platform = "Android" => page \in {"Compose", "React Native"})
    BY DEF HomeOK, EveryStack, supportedStacks
  <1>3. /\ ComposeContent(u.id) = Content(group) /\ MainViewController(u.id) = Content(group)
        /\ handleUsecase(u.id) = Content(group) /\ SwiftUIView(u.id) = Content(group)
    BY <1>1 DEF ComposeContent, MainViewController, handleUsecase, SwiftUIView,
                Counter, Images, Content
  <1>4. ControllerFor(u) = Screen(page, Content(group))
    BY <1>1, <1>2, <1>3 DEF ControllerFor, EveryStack
  <1>5. platform = "Android" => ActivityFor(u) = Screen(page, Content(group))
    BY <1>1, <1>2, <1>3 DEF ActivityFor
  <1> QED
    BY <1>4, <1>5

-----------------------------------------------------------------------------
LEMMA InitIInv == Init => IInv
  BY NavigationAssumption, EmptyOK
  DEF Init, IInv, HomeOK, HandlerServesHome, FirstTab, supportedStacks, Groups

LEMMA NextIInv == IInv /\ [Next]_vars => IInv'
  <1> SUFFICES ASSUME IInv, [Next]_vars PROVE IInv'
    OBVIOUS
  <1>0. HomeOK /\ HandlerServesHome /\ ScreensOK(starting) /\ ScreensOK(screens)
    BY DEF IInv
  <1>1. CASE CreateHome
    <2>1. created + 1 \in 0..MaxHomes
      BY <1>0, <1>1, NavigationAssumption DEF CreateHome, HomeOK
    <2>2. /\ created' \in 0..MaxHomes /\ home' = created' /\ context' = created'
          /\ platform' = platform /\ page' = page /\ expanded' = expanded
      BY <1>1, <2>1 DEF CreateHome, Initialized
    <2>3. context' \in 0..created'
      BY <2>2, NavigationAssumption
    <2>4. HomeOK' /\ HandlerServesHome'
      BY <1>0, <2>2, <2>3 DEF HomeOK, HandlerServesHome, supportedStacks
    <2> QED
      BY <1>0, <1>1, <2>4 DEF CreateHome, IInv
  <1>2. ASSUME NEW stack \in supportedStacks, SwipeTo(stack) PROVE IInv'
    <2>1. HomeOK' /\ HandlerServesHome'
      BY <1>0, <1>2 DEF SwipeTo, HomeOK, HandlerServesHome, supportedStacks
    <2> QED
      BY <1>0, <1>2, <2>1 DEF SwipeTo, IInv
  <1>3. ASSUME NEW group \in Groups, ToggleGroup(group) PROVE IInv'
    <2>1. HomeOK' /\ HandlerServesHome'
      BY <1>0, <1>3 DEF ToggleGroup, HomeOK, HandlerServesHome, supportedStacks
    <2> QED
      BY <1>0, <1>3, <2>1 DEF ToggleGroup, IInv
  <1>4. ASSUME NEW group \in expanded, NEW u \in Children(group), Tap(group, u) PROVE IInv'
    <2>1. group \in Groups
      BY <1>0 DEF HomeOK
    <2> DEFINE open == Opened(group)
    <2>2. \/ platform = "Android" /\ starting' = Append(starting, open) /\ screens' = screens
          \/ screens' = <<open>> /\ starting' = starting
      BY <1>0, <1>4, <2>1, HostsAgree DEF Tap, Opened
    <2>3. open \in Open /\ ShowsTapped(open)
      BY <1>0, <2>1, OpenedIsRight
    <2> HIDE DEF open
    <2>4. HomeOK' /\ HandlerServesHome'
      BY <1>0, <1>4 DEF Tap, homeVars, HomeOK, HandlerServesHome, supportedStacks
    <2>5. CASE platform = "Android" /\ starting' = Append(starting, open) /\ screens' = screens
      BY <1>0, <1>4, <2>3, <2>4, <2>5, AppendOK DEF Tap, IInv
    <2>6. CASE screens' = <<open>> /\ starting' = starting
      <3>1. <<open>> = Append(<<>>, open) /\ Len(<<>>) < MaxScreens
        BY NavigationAssumption
      <3>2. ScreensOK(<<open>>)
        BY <2>3, <3>1, EmptyOK, AppendOK
      <3> QED
        BY <1>0, <2>4, <2>6, <3>2 DEF IInv
    <2> QED
      BY <2>2, <2>5, <2>6
  <1>5. CASE StartActivity
    <2>1. HomeOK' /\ HandlerServesHome'
      BY <1>0, <1>5 DEF StartActivity, homeVars, HomeOK, HandlerServesHome, supportedStacks
    <2>2. ScreensOK(Tail(starting)) /\ ShowsTapped(Head(starting)) /\ Head(starting) \in Open
      BY <1>0, <1>5, TailOK DEF StartActivity
    <2>3. ScreensOK(Append(screens, Head(starting)))
      BY <1>0, <1>5, <2>2, AppendOK DEF StartActivity
    <2> QED
      BY <1>5, <2>1, <2>2, <2>3 DEF StartActivity, IInv
  <1>6. CASE Leave
    <2>1. HomeOK' /\ HandlerServesHome'
      BY <1>0, <1>6 DEF Leave, homeVars, HomeOK, HandlerServesHome, supportedStacks
    <2> QED
      BY <1>0, <1>6, <2>1, FrontOK DEF Leave, IInv
  <1>7. CASE DestroyHome
    <2>1. HomeOK' /\ HandlerServesHome'
      BY <1>0, <1>7 DEF DestroyHome, HomeOK, HandlerServesHome, supportedStacks
    <2> QED
      BY <1>0, <1>7, <2>1 DEF DestroyHome, IInv
  <1>8. CASE LeaveHome
    <2>1. HomeOK' /\ HandlerServesHome'
      BY <1>0, <1>8 DEF LeaveHome, HomeOK, HandlerServesHome, supportedStacks, FirstTab
    <2> QED
      BY <1>0, <1>8, <2>1 DEF LeaveHome, IInv
  <1>9. CASE EndProcess
    <2>1. context' = 0 /\ home' = 0 /\ created' = created /\ platform' = platform
          /\ expanded' = {} /\ page' \in {page, FirstTab}
      BY <1>9 DEF EndProcess
    <2>2. context' \in 0..created'
      BY <1>0, <2>1, NavigationAssumption DEF HomeOK
    <2>3. page' \in supportedStacks'
      BY <1>0, <2>1 DEF HomeOK, supportedStacks, FirstTab
    <2>4. HomeOK' /\ HandlerServesHome'
      BY <1>0, <2>1, <2>2, <2>3 DEF HomeOK, HandlerServesHome
    <2> QED
      BY <1>0, <1>9, <2>4, EmptyOK DEF EndProcess, IInv
  <1>10. CASE UNCHANGED vars
    BY <1>0, <1>10 DEF vars, homeVars, IInv, HomeOK, HandlerServesHome, supportedStacks
  <1> QED
    BY <1>1, <1>2, <1>3, <1>4, <1>5, <1>6, <1>7, <1>8, <1>9, <1>10 DEF Next

LEMMA Invariant == Spec => []IInv
  BY InitIInv, NextIInv, PTL DEF Spec

\* The types of the navigation's variables; no screen shows a host's fallback
\* for an id that it does not know.
THEOREM TypeCorrect == Spec => []TypeOK
  BY Invariant, IInvTypes, PTL

\* The Platform object never works with a home page that is gone while there is
\* one to tap on, for any number of recreations and process ends.
THEOREM HandlerIsCurrent == Spec => []HandlerServesHome
  BY Invariant, PTL DEF IInv

\* Every screen shows the use case and the stack that were tapped.
THEOREM OpensWhatWasTapped == Spec => []ShowsTappedUseCase
  <1>1. IInv => ShowsTappedUseCase
    BY IInvTypes DEF Faithful, ShowsTappedUseCase
  <1> QED
    BY Invariant, <1>1, PTL

=============================================================================
