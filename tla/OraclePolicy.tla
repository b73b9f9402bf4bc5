----------------------------- MODULE OraclePolicy -----------------------------
(***************************************************************************)
(* What a signed print must satisfy to price an operation: the policy of   *)
(* lazer_price.rs and the price-delta breaker of oracle.rs.  Signature and *)
(* parsing come before and can only refuse.  A print is                    *)
(*   [mantissa, exponent, confidence, publishers, feedTime, payloadTime]   *)
(* with the confidence on the mantissa's scale (0 stands for absent or not *)
(* positive) and times in seconds, the feed's own period.  The guards are  *)
(* constants: a change of them pauses the program                          *)
(* (Timelock!PriceInputsLandPaused).                                       *)
(***************************************************************************)
EXTENDS PricingMath

CONSTANTS
  EXPONENT_BASE,         \* 10: a mantissa counts powers of it
  PRICE_SCALE,           \* decimals of the program's prices, 9
  MaxExponent,           \* 18, so that the scaling stays within u128
  MaxStaleness,          \* config.max_staleness_seconds
  FutureSkew,            \* LAZER_FUTURE_SKEW_US
  MaxConfidenceBps,      \* config.max_confidence_bps
  MinPublishers,         \* config.min_publishers
  MIN_PUBLISHERS_FLOOR_HARD,
  MinPrice, MaxPrice,    \* the sanity band
  MaxPriceDeltaBps,      \* config.max_price_delta_bps
  PriceDeltaDecay,       \* config.price_delta_decay_seconds
  PriceUpdateMinAmount   \* config.price_update_min_amount_usdc

ASSUME GuardsAreNaturals ==
  /\ {MaxStaleness, FutureSkew, MaxConfidenceBps, MinPublishers,
      MIN_PUBLISHERS_FLOOR_HARD, MaxPrice, MaxPriceDeltaBps,
      PriceDeltaDecay, PriceUpdateMinAmount} \subseteq Nat
  /\ MinPrice \in Nat \ {0}
  /\ {EXPONENT_BASE, PRICE_SCALE, MaxExponent} \subseteq Nat
  /\ PRICE_SCALE_FACTOR = EXPONENT_BASE ^ PRICE_SCALE

\* A price on the program's scale: more decimals than it has are cut off.
CombinedExponent(print) == PRICE_SCALE + print.exponent
NormalizedPrice(print) ==
  IF CombinedExponent(print) >= 0
  THEN print.mantissa * EXPONENT_BASE ^ CombinedExponent(print)
  ELSE print.mantissa \div EXPONENT_BASE ^ (-CombinedExponent(print))

\* Bug: the band has no upper end.
InBandFromBelow(print) ==
  /\ CombinedExponent(print) \in -MaxExponent..MaxExponent
  /\ NormalizedPrice(print) >= MinPrice

InBand(print) ==
  /\ CombinedExponent(print) \in -MaxExponent..MaxExponent
  /\ NormalizedPrice(print) \in MinPrice..MaxPrice

\* A print stands for a price agreed on by enough publishers.
Agreed(print) ==
  /\ print.mantissa > 0
  /\ print.confidence > 0
  /\ print.confidence * BPS_DENOM <= print.mantissa * MaxConfidenceBps
  /\ print.publishers >= MinPublishers
  /\ print.publishers >= MIN_PUBLISHERS_FLOOR_HARD

\* A print was made now, or nearly: not carried forward, not from the future
\* beyond the skew between the two clocks, not older than the staleness bound.
Current(print, now) ==
  /\ print.feedTime = print.payloadTime
  /\ print.feedTime <= now + FutureSkew
  /\ now - print.feedTime <= MaxStaleness

\* Bug: `<`, as before the strict high-water mark: the same print again.
AcceptsSamePrint(print, now, lastUsed) ==
  /\ Agreed(print) /\ Current(print, now)
  /\ print.feedTime >= lastUsed
  /\ InBand(print)

PriceFromLazer(print, now, lastUsed) ==
  /\ Agreed(print) /\ Current(print, now)
  /\ print.feedTime > lastUsed
  /\ InBand(print)

-----------------------------------------------------------------------------
\* The breaker: `last` is the reference price, 0 while there is none, set at
\* `at`.  A reference older than the decay no longer binds.
Decayed(at, now) == now - at > PriceDeltaDecay

CheckPriceDelta(last, at, price, now) ==
  LET delta == IF price >= last THEN price - last ELSE last - price
  IN  \/ last = 0
      \/ Decayed(at, now)
      \/ delta * BPS_DENOM <= last * MaxPriceDeltaBps

\* A trade moves the reference if it is the first or not dust.
MovesReference(last, amount) == last = 0 \/ amount >= PriceUpdateMinAmount
=============================================================================
