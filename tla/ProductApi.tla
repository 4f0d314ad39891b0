----------------------------- MODULE ProductApi -----------------------------
(***************************************************************************)
(* The product service that all three "Remote images" grids page through:  *)
(* GET /products?limit=L&skip=S.  The service is outside the repository;   *)
(* it is modelled as its three clients use it.  A product is its id, and   *)
(* the catalogue is the ids 1..Total in the order the service lists them.  *)
(* The catalogue does not change while a grid is open.                     *)
(***************************************************************************)
EXTENDS Naturals, Sequences

CONSTANTS PageSize,   \* PAGE_SIZE of the clients
          Total       \* number of products the service has

ASSUME ApiAssumption == PageSize \in Nat \ {0} /\ Total \in Nat

AtMost(bound, n) == IF n <= bound THEN n ELSE bound

\* What a request that skips `skip' products may still return.
Remaining(skip) == IF skip < Total THEN Total - skip ELSE 0

\* The answer to ?limit=limit&skip=skip: the products after the skipped ones,
\* at most limit of them; empty once everything is skipped.
Slice(limit, skip) == [i \in 1..AtMost(limit, Remaining(skip)) |-> skip + i]

\* The first n products of the catalogue, in the order of the service.
FirstN(n) == [i \in 1..n |-> i]

\* How many products the first n pages hold.
InPages(n) == AtMost(Total, n * PageSize)

=============================================================================
