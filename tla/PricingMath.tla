----------------------------- MODULE PricingMath -----------------------------
(***************************************************************************)
(* The fixed-point arithmetic of math.rs.  Amounts are atomic units, a     *)
(* price is USDC per SILV times PRICE_SCALE_FACTOR, a premium is a number  *)
(* of parts of BPS_DENOM.  The code computes in u128 and refuses a result  *)
(* over u64; the scales here are small, so that every rounding matters.    *)
(***************************************************************************)
EXTENDS Integers

CONSTANTS
  BPS_DENOM,           \* 10_000 in math.rs
  PRICE_SCALE_FACTOR   \* 10^9 in math.rs

ASSUME ScalesArePositive ==
  BPS_DENOM \in Nat \ {0} /\ PRICE_SCALE_FACTOR \in Nat \ {0}

\* Bug: the odd unit of a fee goes to the user.
FeeFloored(amount, bps) == (amount * bps) \div BPS_DENOM

\* The one fee formula of both sides; a premium of 0 needs no case of its own.
FeeFromAmount(amount, bps) == (amount * bps + BPS_DENOM - 1) \div BPS_DENOM

MintSilvOut(usdc, price) == (usdc * PRICE_SCALE_FACTOR) \div price

SilvToUsdcAtOracle(silv, price) == (silv * price) \div PRICE_SCALE_FACTOR
=============================================================================
