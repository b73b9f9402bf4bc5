------------------------------ MODULE MCTimelock ------------------------------
(* Instances of Timelock for TLC.  Each cfg picks the kinds of proposals and  *)
(* the inputs; the remaining settings stay at the values of BaseConfig.       *)
EXTENDS Timelock

CONSTANTS w0, w1, w2

BaseConfig ==
  [ premiumMint |-> 1, premiumRedeem |-> 1, float |-> 0, metadata |-> 1,
    oracle |-> [staleness |-> 1, publishers |-> 2, minPrice |-> 1, maxPrice |-> 2],
    compliance |-> FALSE, feed |-> 1, delay |-> 1,
    redeem |-> [budget |-> 1, window |-> 1, enabled |-> TRUE],
    publicMint |-> TRUE, inventory |-> w1 ]

OneConfig == { BaseConfig }
TwoDelays == { [BaseConfig EXCEPT !.delay = d] : d \in {1, 2} }

NoArgs == {}

\* Opening, opening with a larger budget, a larger budget alone, a tighter
\* budget alone, closing, closing with a tighter budget, a budget no config
\* may hold.
RedeemArgs ==
  { [budget |-> None, window |-> None, enabled |-> TRUE],
    [budget |-> 2, window |-> None, enabled |-> TRUE],
    [budget |-> 2, window |-> None, enabled |-> None],
    [budget |-> 0, window |-> None, enabled |-> None],
    [budget |-> None, window |-> None, enabled |-> FALSE],
    [budget |-> 0, window |-> None, enabled |-> FALSE],
    [budget |-> 3, window |-> None, enabled |-> None] }

\* One guard at a time, both ends of the band, and a band no config may hold.
OracleArgs ==
  { [staleness |-> 2, publishers |-> None, minPrice |-> None, maxPrice |-> None],
    [staleness |-> 3, publishers |-> 3, minPrice |-> None, maxPrice |-> None],
    [staleness |-> None, publishers |-> 3, minPrice |-> 0, maxPrice |-> None],
    [staleness |-> None, publishers |-> None, minPrice |-> None, maxPrice |-> 1],
    [staleness |-> None, publishers |-> None, minPrice |-> 0, maxPrice |-> 1],
    [staleness |-> 1, publishers |-> None, minPrice |-> 1, maxPrice |-> 2] }

Inventory == { w0, w1, w2 }
=============================================================================
