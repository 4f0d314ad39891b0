-------------------------- MODULE ReactProductGrid --------------------------
(***************************************************************************)
(* The React Native grid of remote images: the component App of            *)
(* usecases/RemoteImage.tsx.                                               *)
(*                                                                         *)
(* The component reads its state only through the closures of the last     *)
(* committed render (`ui'), while a setter only enqueues an update that    *)
(* the next render applies.  Updates are functions of the state alone, so  *)
(* the model keeps the state they lead to (`next') and how many runs of    *)
(* setters it has yet to show (`waiting').  CommitLag says whether a       *)
(* callback of the FlatList can run between the two.                       *)
(***************************************************************************)
EXTENDS ProductApi

CONSTANTS Calls,         \* identities for the running calls of loadMoreProducts
          MaxPending,    \* bound: runs of setters that may wait for a render
          CommitLag,     \* FlatList events may precede an outstanding render
          NetworkFails   \* requests may fail

ASSUME ReactAssumption ==
    /\ Calls # {} /\ MaxPending \in Nat
    /\ CommitLag \in BOOLEAN /\ NetworkFails \in BOOLEAN

VARIABLES ui,          \* state of the last committed render: what closures see
          next,        \* state that the next render commits
          waiting,     \* runs of setters since the last render
          call,        \* call[c]: the request that call c awaits, or none
          effectDone,  \* the mount effect has run
          near,        \* the viewport is within the threshold of the end
          sent,        \* content for which FlatList last called onEndReached
          failed       \* history: a request has failed

stateVars == <<ui, next, waiting>>
vars      == <<stateVars, call, effectDone, near, sent, failed>>

NoCall  == [fetching |-> FALSE, skip |-> 0]
NotSent == [size |-> 0, footer |-> FALSE, told |-> FALSE]

\* FlatList tells contents apart by their length: the items and the footer.
Content == [size |-> Len(ui.products), footer |-> ui.isLoading, told |-> TRUE]

Init ==
    /\ ui = [products |-> <<>>, isLoading |-> FALSE, isEndReached |-> FALSE, currentPage |-> 0]
    /\ next = ui /\ waiting = 0
    /\ call = [c \in Calls |-> NoCall]
    /\ effectDone = FALSE
    /\ near = TRUE /\ sent = NotSent
    /\ failed = FALSE

\* React renders once with everything that is enqueued, after any effect of
\* the render before.
Render ==
    /\ effectDone
    /\ waiting > 0
    /\ ui' = next /\ waiting' = 0
    /\ UNCHANGED <<next, call, effectDone, near, sent, failed>>

\* A run of setters: the next render will show `state'.
Enqueue(state) ==
    /\ waiting < MaxPending
    /\ next' = state /\ waiting' = waiting + 1

-----------------------------------------------------------------------------
(* loadMoreProducts                                                        *)

\* Mutant: the guard does not look at isLoading.
MayLoadIfNotEnded == ~ui.isEndReached

MayLoad == ~ui.isLoading /\ ~ui.isEndReached

\* Mutant: the offset of a first page numbered 1.
SkipOneBased == (ui.currentPage - 1) * PageSize

SkipLoaded == ui.currentPage * PageSize

loadMoreProducts ==
    \/ /\ MayLoad
       /\ \E c \in Calls :
             /\ ~call[c].fetching
             /\ call' = [call EXCEPT ![c] = [fetching |-> TRUE, skip |-> SkipLoaded]]
       /\ Enqueue([next EXCEPT !.isLoading = TRUE])
    \/ /\ ~MayLoad
       /\ UNCHANGED <<call, next, waiting>>

\* fetchProducts turns every failure into an empty page.
Fetched(c, newProducts) ==
    \/ /\ newProducts = Slice(PageSize, call[c].skip)
       /\ UNCHANGED failed
    \/ /\ NetworkFails
       /\ newProducts = <<>>
       /\ failed' = TRUE

\* Mutant: setCurrentPage is forgotten.
WithPageSamePage(state, newProducts) == [state EXCEPT !.products = @ \o newProducts]

\* setProducts and setCurrentPage
WithPage(state, newProducts) ==
    [state EXCEPT !.products = @ \o newProducts, !.currentPage = @ + 1]

\* Mutant: the flag stays up after an empty page.
UpdatedForgetful(state, newProducts) ==
    IF newProducts # <<>> THEN [WithPage(state, newProducts) EXCEPT !.isLoading = FALSE]
                          ELSE [state EXCEPT !.isEndReached = TRUE]

\* Mutant: an empty page does not end the list.
UpdatedNoEnd(state, newProducts) ==
    IF newProducts # <<>> THEN [WithPage(state, newProducts) EXCEPT !.isLoading = FALSE]
                          ELSE [state EXCEPT !.isLoading = FALSE]

\* The setters that follow the await, which are batched.
Updated(state, newProducts) ==
    IF newProducts # <<>> THEN [WithPage(state, newProducts) EXCEPT !.isLoading = FALSE]
                          ELSE [state EXCEPT !.isEndReached = TRUE, !.isLoading = FALSE]

\* The await returns: the rest of the function.
Finish(c) ==
    /\ call[c].fetching
    /\ \E newProducts \in {<<>>, Slice(PageSize, call[c].skip)} :
          /\ Fetched(c, newProducts)
          /\ Enqueue(Updated(next, newProducts))
    /\ call' = [call EXCEPT ![c] = NoCall]
    /\ UNCHANGED <<ui, effectDone, near, sent>>

-----------------------------------------------------------------------------
(* The component's callers.                                                *)

\* useEffect(() => { loadMoreProducts() }, []), with the first closure.
MountEffect ==
    /\ ~effectDone
    /\ effectDone' = TRUE
    /\ loadMoreProducts
    /\ UNCHANGED <<ui, near, sent, failed>>

\* FlatList reports the end once per content length, and with an empty list too.
EndReached ==
    /\ near
    /\ sent # Content
    /\ CommitLag \/ (effectDone /\ waiting = 0)
    /\ sent' = Content
    /\ loadMoreProducts
    /\ UNCHANGED <<ui, effectDone, near, failed>>

\* The viewport leaves the threshold, which makes FlatList forget its report.
ScrollAway ==
    /\ near /\ ui.products # <<>>
    /\ near' = FALSE /\ sent' = NotSent
    /\ UNCHANGED <<stateVars, call, effectDone, failed>>

ScrollBack ==
    /\ ~near
    /\ near' = TRUE
    /\ UNCHANGED <<stateVars, call, effectDone, sent, failed>>

-----------------------------------------------------------------------------
Next ==
    \/ MountEffect
    \/ EndReached
    \/ ScrollAway
    \/ ScrollBack
    \/ Render
    \/ \E c \in Calls : Finish(c)

Spec == Init /\ [][Next]_vars

\* React flushes effects and renders, and every request is answered or fails;
\* nothing is assumed of the user or of FlatList.
FairSpec == /\ Spec /\ WF_vars(MountEffect) /\ WF_vars(Render)
            /\ \A c \in Calls : WF_vars(Finish(c))

-----------------------------------------------------------------------------
(* Properties.                                                             *)

State == [products : Seq(Nat), isLoading : BOOLEAN, isEndReached : BOOLEAN, currentPage : Nat]

\* Every variable stays in its type, within the bound.
TypeOK ==
    /\ ui \in State /\ next \in State /\ waiting \in 0..MaxPending
    /\ call \in [Calls -> [fetching : BOOLEAN, skip : Nat]]
    /\ effectDone \in BOOLEAN /\ near \in BOOLEAN /\ failed \in BOOLEAN
    /\ sent \in [size : Nat, footer : BOOLEAN, told : BOOLEAN]

AtRest == effectDone /\ waiting = 0 /\ \A c \in Calls : ~call[c].fetching

\* If every callback sees the latest state, two calls never overlap.
SingleCall == \A c, d \in Calls : call[c].fetching /\ call[d].fetching => c = d

\* The grid shows the first pages in order, no product twice and none left out.
ShowsWholePages == ui.products = FirstN(InPages(ui.currentPage))

\* The spinner is down whenever nothing is running: calls that overlap, and
\* that each raise and lower the one flag, cannot leave it up.
NoSpinnerAtRest == AtRest => ~ui.isLoading

\* When nothing is running, FlatList has reported the end of this content and
\* will not do so again, so the list had better be complete: the report that
\* the guard dropped was not the one that was needed.
NoLostTrigger == AtRest /\ near /\ sent = Content => ui.isEndReached

\* RemoteImage.tsx:56, "No more products to load": the list is declared
\* complete only when every product is shown.
EndMeansAll == ui.isEndReached => ui.products = FirstN(Total)

\* The loading indicator at the bottom always goes away.
SpinnerStops == ui.isLoading ~> ~ui.isLoading

\* If every callback sees the latest state, the grid implements the abstract
\* paged feed, but for the end that a failed request declares.
Feed == INSTANCE PagedFeed WITH feed <- ui.products, ended <- ui.isEndReached /\ ~failed
ImplementsFeed == Feed!FeedSpec

=============================================================================
