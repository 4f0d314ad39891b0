----------------------------- MODULE PagedFeed ------------------------------
(***************************************************************************)
(* What a paginated product list promises, whatever framework draws it:    *)
(* the list is extended by the next page of the catalogue, one page at a   *)
(* time, with nothing repeated and nothing left out, and it is declared    *)
(* complete only when it shows the whole catalogue.                        *)
(***************************************************************************)
EXTENDS ProductApi

VARIABLES feed,    \* the products shown, in order
          ended    \* the list has declared that there is no more to load

feedVars == <<feed, ended>>

FeedInit == feed = <<>> /\ ended = FALSE

ShowNextPage ==
    /\ ~ended
    /\ Len(feed) < Total
    /\ feed' = feed \o Slice(PageSize, Len(feed))
    /\ UNCHANGED ended

DeclareEnd ==
    /\ ~ended
    /\ Len(feed) = Total
    /\ ended' = TRUE
    /\ UNCHANGED feed

FeedNext == ShowNextPage \/ DeclareEnd

FeedSpec == FeedInit /\ [][FeedNext]_feedVars

=============================================================================
