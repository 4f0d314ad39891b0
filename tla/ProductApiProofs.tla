-------------------------- MODULE ProductApiProofs --------------------------
(***************************************************************************)
(* Facts about pages of the catalogue, for the proofs about the grids.     *)
(***************************************************************************)
EXTENDS ProductApi, SequenceTheorems, TLAPS

\* An offset is a natural number, and page c + 1 begins one page after page c.
LEMMA PageOffset ==
    ASSUME NEW c \in Nat
    PROVE  /\ c * PageSize \in Nat
           /\ (c + 1) * PageSize = c * PageSize + PageSize
BY ApiAssumption DEF ApiAssumption

\* The number of products in a number of pages, and in an answer.
LEMMA InPagesBound ==
    ASSUME NEW c \in Nat
    PROVE  /\ InPages(c) \in Nat
           /\ InPages(c) <= Total
           /\ InPages(c) = IF c * PageSize <= Total THEN c * PageSize ELSE Total
BY PageOffset, ApiAssumption DEF ApiAssumption, InPages, AtMost

\* A prefix of the catalogue is a sequence of numbers of the stated length.
LEMMA FirstNSeq ==
    ASSUME NEW n \in Nat
    PROVE  /\ FirstN(n) \in Seq(Nat)
           /\ Len(FirstN(n)) = n
           /\ \A i \in 1..n : FirstN(n)[i] = i
BY DEF FirstN

\* Prefixes of the catalogue are equal only if they are equally long.
LEMMA FirstNInjective ==
    ASSUME NEW m \in Nat, NEW n \in Nat, FirstN(m) = FirstN(n)
    PROVE  m = n
BY FirstNSeq

\* How many products an answer holds.
SliceLen(skip) == AtMost(PageSize, Remaining(skip))

LEMMA SliceSeq ==
    ASSUME NEW skip \in Nat
    PROVE  /\ SliceLen(skip) \in Nat
           /\ Slice(PageSize, skip) \in Seq(Nat)
           /\ Len(Slice(PageSize, skip)) = SliceLen(skip)
           /\ \A i \in 1..SliceLen(skip) : Slice(PageSize, skip)[i] = skip + i
<1>1. SliceLen(skip) \in Nat
  BY ApiAssumption DEF ApiAssumption, SliceLen, AtMost, Remaining
<1>2. Slice(PageSize, skip) = [i \in 1..SliceLen(skip) |-> skip + i]
  BY DEF Slice, SliceLen
<1> HIDE DEF SliceLen
<1> QED BY <1>1, <1>2

\* The answer to the request for page c + 1 is empty exactly when c pages hold
\* the whole catalogue.
LEMMA EmptyPageIsTheEnd ==
    ASSUME NEW c \in Nat
    PROVE  Slice(PageSize, c * PageSize) = <<>> <=> InPages(c) = Total
<1> DEFINE skip == c * PageSize
<1>1. skip \in Nat
  BY PageOffset
<1>2. SliceLen(skip) = 0 <=> skip >= Total
  BY <1>1, ApiAssumption DEF ApiAssumption, SliceLen, AtMost, Remaining
<1>3. skip >= Total <=> InPages(c) = Total
  BY <1>1, InPagesBound, ApiAssumption DEF ApiAssumption
<1>4. Slice(PageSize, skip) = <<>> <=> SliceLen(skip) = 0
  <2>1. /\ Slice(PageSize, skip) \in Seq(Nat)
        /\ Len(Slice(PageSize, skip)) = SliceLen(skip)
    BY <1>1, SliceSeq
  <2> QED BY <2>1, EmptySeq
<1> QED BY <1>2, <1>3, <1>4

\* A page that is not empty begins right after the products of the pages before.
LEMMA FullPagesBefore ==
    ASSUME NEW c \in Nat, Slice(PageSize, c * PageSize) # <<>>
    PROVE  /\ InPages(c) = c * PageSize
           /\ InPages(c) < Total
<1>1. c * PageSize \in Nat
  BY PageOffset
<1>2. InPages(c) # Total /\ InPages(c) \in Nat /\ InPages(c) <= Total
  BY EmptyPageIsTheEnd, InPagesBound
<1>3. InPages(c) = IF c * PageSize <= Total THEN c * PageSize ELSE Total
  BY InPagesBound
<1> QED BY <1>1, <1>2, <1>3, ApiAssumption DEF ApiAssumption

\* Appending the answer to the request for page c + 1 to c pages gives c + 1 pages.
LEMMA NextPage ==
    ASSUME NEW c \in Nat
    PROVE  FirstN(InPages(c)) \o Slice(PageSize, c * PageSize) = FirstN(InPages(c + 1))
<1> DEFINE skip == c * PageSize
           m == InPages(c)
           n == InPages(c + 1)
           page == Slice(PageSize, skip)
<1>1. skip \in Nat /\ m \in Nat /\ n \in Nat
  BY PageOffset, InPagesBound
<1>2. FirstN(m) \in Seq(Nat) /\ Len(FirstN(m)) = m /\ \A i \in 1..m : FirstN(m)[i] = i
  BY <1>1, FirstNSeq
<1>3. FirstN(n) \in Seq(Nat) /\ Len(FirstN(n)) = n /\ \A i \in 1..n : FirstN(n)[i] = i
  BY <1>1, FirstNSeq
<1>4. /\ page \in Seq(Nat) /\ Len(page) = SliceLen(skip) /\ SliceLen(skip) \in Nat
      /\ \A i \in 1..SliceLen(skip) : page[i] = skip + i
  BY <1>1, SliceSeq
<1>5. m + SliceLen(skip) = n
  <2>1. n = IF skip + PageSize <= Total THEN skip + PageSize ELSE Total
    BY InPagesBound, PageOffset
  <2>2. m = IF skip <= Total THEN skip ELSE Total
    BY InPagesBound
  <2> HIDE DEF skip, m, n
  <2> QED BY <2>1, <2>2, <1>1, ApiAssumption DEF ApiAssumption, SliceLen, AtMost, Remaining
<1>6. SliceLen(skip) > 0 => m = skip
  BY <1>1, InPagesBound, ApiAssumption DEF ApiAssumption, SliceLen, AtMost, Remaining
<1> HIDE DEF skip, m, n, page
<1>7. /\ FirstN(m) \o page \in Seq(Nat)
      /\ Len(FirstN(m) \o page) = n
      /\ \A i \in 1..n : (FirstN(m) \o page)[i] =
                           IF i <= m THEN FirstN(m)[i] ELSE page[i - m]
  <2>1. /\ FirstN(m) \o page \in Seq(Nat)
        /\ Len(FirstN(m) \o page) = Len(FirstN(m)) + Len(page)
        /\ \A i \in 1 .. Len(FirstN(m)) + Len(page) :
              (FirstN(m) \o page)[i] =
                 IF i <= Len(FirstN(m)) THEN FirstN(m)[i] ELSE page[i - Len(FirstN(m))]
    BY <1>2, <1>4, ConcatProperties
  <2> QED BY <2>1, <1>2, <1>4, <1>5
<1>8. ASSUME NEW i \in 1..n
      PROVE  (FirstN(m) \o page)[i] = FirstN(n)[i]
  <2>1. CASE i <= m
    BY <2>1, <1>1, <1>2, <1>3, <1>7
  <2>2. CASE i > m
    <3>1. i - m \in 1..SliceLen(skip)
      BY <2>2, <1>1, <1>4, <1>5
    <3>2. page[i - m] = skip + (i - m)
      BY <3>1, <1>4
    <3>3. m = skip
      BY <3>1, <1>4, <1>6
    <3> QED BY <2>2, <3>2, <3>3, <1>1, <1>3, <1>7
  <2>3. i <= m \/ i > m
    BY <1>1
  <2> QED BY <2>1, <2>2, <2>3
<1>9. FirstN(m) \o page = FirstN(n)
  BY <1>3, <1>7, <1>8, SeqEqual
<1> QED BY <1>9 DEF skip, m, n, page

=============================================================================
