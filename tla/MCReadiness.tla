---- MODULE MCReadiness ----
EXTENDS MCTimelock, Readiness

MixedRedeemArgs ==
  { [budget |-> 2, window |-> None, enabled |-> None],
    [budget |-> None, window |-> None, enabled |-> TRUE] }
StalenessArgs ==
  { [staleness |-> 2, publishers |-> None, minPrice |-> None, maxPrice |-> None],
    [staleness |-> None, publishers |-> 3, minPrice |-> None, maxPrice |-> None] }
====
