----------------------------- MODULE Navigation -----------------------------
(***************************************************************************)
(* How a use case is opened.  The home page is one Compose screen for both *)
(* platforms; a tap on a use case goes through the Platform object to the  *)
(* handler that the host registered when it created the home page, and the *)
(* handler picks the host of one of the three stacks for it.               *)
(*                                                                         *)
(* The Platform object lives as long as the process.  On Android the home  *)
(* page does not: the system destroys and creates MainActivity as it sees  *)
(* fit, may end the process behind the user's screens, and starts an       *)
(* activity some time after it was asked to.  There is one MainActivity at *)
(* a time: a launcher brings the task that runs to the front.              *)
(***************************************************************************)
EXTENDS Naturals, SequencesExt

CONSTANTS MaxHomes,   \* bound: home pages created
          MaxScreens  \* bound: screens open or starting

ASSUME NavigationAssumption == MaxHomes \in Nat /\ MaxScreens \in Nat \ {0}

VARIABLES platform,  \* "Android" or "iOS"
          created,   \* number of home pages created so far, which are numbered
          home,      \* the home page that exists, or 0
          context,   \* Platform: the home page its handler works with, or 0
          page,      \* the tab of the home page
          expanded,  \* groups of that tab that are unfolded
          starting,  \* screens the system was asked to start
          screens    \* screens over the home page, the last one in front

homeVars == <<created, home, context, page, expanded>>
vars     == <<platform, homeVars, starting, screens>>

Counter == "redux_counter_id"
Images  == "image_remote_id"
Groups  == {"Redux", "Images"}

EveryStack == {"Compose", "React Native", "SwiftUI"}

supportedStacks ==
    {"Compose", "React Native"} \cup (IF platform = "iOS" THEN {"SwiftUI"} ELSE {})

FirstTab == IF platform = "iOS" THEN "SwiftUI" ELSE "Compose"

-----------------------------------------------------------------------------
(* The tables of the home page: the children of each group, by tab.  Every *)
(* child names its stack and its id on its own.                            *)

UseCase(stack, id) == [stack |-> stack, id |-> id]

ComposeTabContent ==
    [Redux  |-> {UseCase("Compose", Counter)},
     Images |-> {UseCase("Compose", Images)}]

ReactNativeTabContent ==
    [Redux  |-> {UseCase("React Native", Counter)},
     Images |-> {UseCase("React Native", Images)}]

\* Mutant: an entry that was pasted from the table above it.
SwiftUITabContentPasted ==
    [Redux  |-> {UseCase("SwiftUI", Counter)},
     Images |-> {UseCase("React Native", Images)}]

SwiftUITabContent ==
    [Redux  |-> {UseCase("SwiftUI", Counter)},
     Images |-> {UseCase("SwiftUI", Images)}]

\* The use cases of an unfolded group on the present tab.
Children(group) ==
    CASE page = "Compose"      -> ComposeTabContent[group]
      [] page = "React Native" -> ReactNativeTabContent[group]
      [] page = "SwiftUI"      -> SwiftUITabContent[group]

-----------------------------------------------------------------------------
Init ==
    /\ platform \in {"Android", "iOS"}
    /\ created = 0 /\ home = 0 /\ context = 0
    /\ page = FirstTab /\ expanded = {}
    /\ starting = <<>> /\ screens = <<>>

-----------------------------------------------------------------------------
(* The hosts: what each of them shows for a use case id.                   *)

ComposeContent(id) ==
    CASE id = Counter -> "counter" [] id = Images -> "grid" [] OTHER -> "nothing"

MainViewController(id) ==
    CASE id = Counter -> "counter" [] id = Images -> "grid" [] OTHER -> "home"

\* Mutant: the id in App.tsx is not the one in Models.kt.
handleOtherId(id) == IF id = Counter THEN "counter" ELSE "unhandled"

handleUsecase(id) ==
    CASE id = Counter -> "counter" [] id = Images -> "grid" [] OTHER -> "unhandled"

SwiftUIView(id) ==
    CASE id = Counter -> "counter" [] id = Images -> "grid" [] OTHER -> "unknown"

Screen(stack, content) == [stack |-> stack, content |-> content]

\* MainActivity.openUseCase: an Intent for one of two activities, with the id.
ActivityFor(u) ==
    IF u.stack = "Compose" THEN Screen("Compose", ComposeContent(u.id))
                           ELSE Screen("React Native", handleUsecase(u.id))

\* AppDelegate.openUseCase: the view controller to present.
ControllerFor(u) ==
    CASE u.stack = "Compose"      -> Screen("Compose", MainViewController(u.id))
      [] u.stack = "React Native" -> Screen("React Native", handleUsecase(u.id))
      [] OTHER                    -> Screen("SwiftUI", SwiftUIView(u.id))

-----------------------------------------------------------------------------
(* The home page.                                                          *)

InFront == home # 0 /\ screens = <<>>

\* Mutant: the handler is registered once per process.
InitializedOnce(new) == IF context = 0 THEN new ELSE context

\* Platform.initialize
Initialized(new) == new

\* MainActivity.onCreate, or didFinishLaunching, when nothing covers the home
\* page: at a launch, or on the way back to a home page that was destroyed.
CreateHome ==
    /\ home = 0 /\ screens = <<>> /\ created < MaxHomes
    /\ created' = created + 1
    /\ home' = created'
    /\ context' = Initialized(created')
    /\ UNCHANGED <<platform, page, expanded, starting, screens>>

\* The pager disposes the tab that is left, and what it had unfolded.
SwipeTo(stack) ==
    /\ InFront
    /\ stack \in supportedStacks \ {page}
    /\ page' = stack /\ expanded' = {}
    /\ UNCHANGED <<platform, created, home, context, starting, screens>>

ToggleGroup(group) ==
    /\ InFront
    /\ expanded' = IF group \in expanded THEN expanded \ {group} ELSE expanded \cup {group}
    /\ UNCHANGED <<platform, created, home, context, page, starting, screens>>

\* What the user sees of a use case: the tab it is on and the group it is in.
Tapped(group) == [tab |-> page, group |-> group]

\* UseCaseItem's onClick: getPlatform().openUseCase(useCase), which throws if
\* there is no handler.  An activity only starts later, so that a second tap
\* gets through as well; present() covers the home page at once.
Tap(group, u) ==
    /\ InFront /\ context # 0
    /\ Len(starting) < MaxScreens
    /\ \/ /\ platform = "Android"
          /\ starting' = Append(starting, [tapped |-> Tapped(group), screen |-> ActivityFor(u)])
          /\ UNCHANGED screens
       \/ /\ platform = "iOS"
          /\ screens' = <<[tapped |-> Tapped(group), screen |-> ControllerFor(u)]>>
          /\ UNCHANGED starting
    /\ UNCHANGED <<platform, homeVars>>

-----------------------------------------------------------------------------
(* The system and the user.                                                *)

\* The system starts an activity over whatever is in front.
StartActivity ==
    /\ starting # <<>> /\ Len(screens) < MaxScreens
    /\ screens' = Append(screens, Head(starting))
    /\ starting' = Tail(starting)
    /\ UNCHANGED <<platform, homeVars>>

\* Back, the Close button, or a swipe down.
Leave ==
    /\ screens # <<>>
    /\ screens' = Front(screens)
    /\ UNCHANGED <<platform, homeVars, starting>>

\* The screen is rotated, or Android reclaims a covered activity: MainActivity
\* goes, and comes back with the saved tab once it is to be seen.
DestroyHome ==
    /\ platform = "Android" /\ home # 0
    /\ home' = 0 /\ expanded' = {}
    /\ UNCHANGED <<platform, created, context, page, starting, screens>>

\* Back from the home page finishes it; the process may stay.
LeaveHome ==
    /\ platform = "Android" /\ InFront
    /\ home' = 0 /\ page' = FirstTab /\ expanded' = {}
    /\ UNCHANGED <<platform, created, context, starting, screens>>

\* The process ends.  Android may keep the task: its screens, with their
\* Intents, and the saved tab.
EndProcess ==
    /\ context # 0
    /\ home' = 0 /\ context' = 0 /\ expanded' = {}
    /\ \/ platform = "Android" /\ UNCHANGED <<page, starting, screens>>
       \/ page' = FirstTab /\ starting' = <<>> /\ screens' = <<>>
    /\ UNCHANGED <<platform, created>>

-----------------------------------------------------------------------------
Next ==
    \/ CreateHome \/ DestroyHome \/ LeaveHome
    \/ \E stack \in supportedStacks : SwipeTo(stack)
    \/ \E group \in Groups : ToggleGroup(group)
    \/ \E group \in expanded : \E u \in Children(group) : Tap(group, u)
    \/ StartActivity
    \/ Leave
    \/ EndProcess

Spec == Init /\ [][Next]_vars

-----------------------------------------------------------------------------
(* Properties.                                                             *)

Contents == {"counter", "grid"}
Open     == [tapped : [tab : EveryStack, group : Groups],
             screen : [stack : EveryStack, content : Contents]]

\* Every variable stays in its type, within the bounds; nothing that is open
\* shows the fallback of its host for an id it does not know.
TypeOK ==
    /\ platform \in {"Android", "iOS"}
    /\ created \in 0..MaxHomes /\ home \in {0, created} /\ context \in 0..created
    /\ page \in supportedStacks /\ expanded \subseteq Groups
    /\ starting \in Seq(Open) /\ Len(starting) <= MaxScreens
    /\ screens \in Seq(Open) /\ Len(screens) <= MaxScreens

\* Whatever was destroyed, created, left or killed before: when the home page
\* can be tapped, the handler of the Platform object is set, and it works with
\* this home page and not with one that is gone.
HandlerServesHome == home # 0 => context = home

\* A screen shows what it was tapped as, in the stack of the tab it was tapped on
\* and the content of the group it was tapped in: the literals of the home page's
\* tables, the Platform and the routing of every host agree, also for a screen
\* that Android restores after the process that opened it has ended.
ShowsTapped(open) ==
    /\ open.screen.stack = open.tapped.tab
    /\ open.screen.content = IF open.tapped.group = "Redux" THEN "counter" ELSE "grid"
ShowsTappedUseCase == \A i \in DOMAIN screens : ShowsTapped(screens[i])

=============================================================================
