----------------------------- MODULE MCScoring -----------------------------
(***************************************************************************)
(* Small instances of Scoring for TLC.  Ranges, scores and bounds are      *)
(* chosen around their edges: a value on either side of a range and on its *)
(* border, a range without width, raw scores beyond training.              *)
(***************************************************************************)
EXTENDS Scoring

CONSTANTS checkout, orders, qty, price

Entry(field, lo, hi, bracketed) ==
  [endpoint |-> checkout, field |-> field, lo |-> lo, hi |-> hi,
   bracketed |-> bracketed]

\* Keys that bind; the price is fixed.
BoundBaselines == {Entry(qty, 1, 10, TRUE), Entry(price, 5, 5, TRUE)}

\* As application.yml writes them.
YamlBaselines == {Entry(qty, 1, 10, FALSE), Entry(price, 1, 10000, FALSE)}

SomeNumbers == {-5, 1, 5, 11}
SomeAges == {-1, 0, 7}
SomeStreaks == {0, 3, 4}
LeastIso == -20
SomeRawScores == {-40, -20, 0, 15, 30}
SomeProbs == {0, 40, 60, 76, 77, 100}
=============================================================================
