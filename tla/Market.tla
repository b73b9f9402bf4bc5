-------------------------------- MODULE Market --------------------------------
(***************************************************************************)
(* Where money moves: mint and redeem with everything they call, pre-mint, *)
(* deposits, the admin's withdrawals and sweeps, and the instant settings  *)
(* these read.  Sources: mint_silv.rs, redeem_silv.rs, deposit_usdc.rs,    *)
(* premint.rs, fee_whitelist.rs, fee_exempt.rs, oracle.rs, caps.rs.        *)
(*                                                                         *)
(* Left out because it can only refuse a trade: the KYC gate (module       *)
(* KycGate), the caller's slippage bound, the mint's extension checks.     *)
(* Holders also stand for the inventory wallet.  Token transfers between   *)
(* holders do not concern the program, nor where USDC goes that the admin  *)
(* takes out of it.                                                        *)
(***************************************************************************)
EXTENDS OraclePolicy, FiniteSets

CONSTANTS
  Holders,          \* wallets
  InventoryWallet,  \* config.inventory_wallet, bound since initialize
  Purse,            \* USDC each wallet starts with
  Trades,           \* sizes of operations, atomic units
  Quotes,           \* [mantissa, exponent, confidence, publishers] of the feed's prints
  Ages,             \* how old a submitted print is; negative is clock skew
  PremiumMint, PremiumRedeem,
  Caps, LaunchCap,  \* values of max_silv_supply; DEFAULT_MAX_SILV_SUPPLY
  MinOperations,    \* values of min_operation_usdc up to its ceiling
  MinDeposit,       \* MIN_DEPOSIT_USDC
  Floats,           \* values of treasury_min_float_usdc
  Gates,            \* [paused, mintOpen, redemptionsEnabled] the queue and levers give
  ExemptFlags,      \* sides an exemption is given for
  MaxExemptTerm,    \* MAX_FEE_EXEMPT_TERM_SECONDS
  RedeemBudget, RedeemPeriod,  \* of the limiter
  Horizon           \* bound on the clock

Sides == {"mint", "redeem"}

ASSUME MarketAssumption ==
  /\ IsFiniteSet(Holders) /\ InventoryWallet \in Holders
  /\ {Purse, MinDeposit, MaxExemptTerm, RedeemBudget} \subseteq Nat
  /\ {RedeemPeriod, Horizon} \subseteq Nat \ {0}
  /\ Trades \cup MinOperations \cup Floats \cup Caps \subseteq Nat /\ LaunchCap \in Caps
  /\ Gates \subseteq [paused : BOOLEAN, mintOpen : BOOLEAN, redemptionsEnabled : BOOLEAN]
  /\ ExemptFlags \subseteq SUBSET Sides
  /\ Ages \subseteq Int
  /\ PremiumMint \in 0..BPS_DENOM /\ PremiumRedeem \in 0..BPS_DENOM

VARIABLES
  now,
  treasury, vault,    \* USDC held by the program's two accounts
  usdc, silv,         \* wallet -> balance
  supply,             \* supply of the SILV mint
  lastUsed,           \* config.last_used_feed_update_timestamp_us
  lastRecorded,       \* config.last_recorded_price_scaled
  lastUpdateAt,       \* config.last_price_update_at
  quoted,             \* history: the price of the last trade
  start, used, usedPrev,  \* the limiter's buckets
  gate,               \* paused; public mint enabled and not frozen; redemptions enabled
  feeRoutingDisabled,
  minOperation,       \* config.min_operation_usdc
  maxSupply,          \* config.max_silv_supply
  minFloat,           \* config.treasury_min_float_usdc
  feeExempt           \* wallet -> its exemption account

balances == << treasury, vault, usdc, silv, supply >>
oracle == << lastUsed, lastRecorded, lastUpdateAt, quoted >>
buckets == << start, used, usedPrev >>
gates == << gate, minFloat >>
levers == << feeRoutingDisabled, minOperation, maxSupply, feeExempt >>
vars == << now, balances, oracle, buckets, gates, levers >>

Limiter == INSTANCE RedeemWindow
  WITH budget <- RedeemBudget, window <- RedeemPeriod, paid <- usdc,
       LaunchBudget <- RedeemBudget, LaunchWindow <- RedeemPeriod,
       Budgets <- {RedeemBudget}, Windows <- {RedeemPeriod}

-----------------------------------------------------------------------------
NoExemption == [flags |-> {}, expires |-> 0]

Exempts(holder, side) ==
  /\ side \in feeExempt[holder].flags
  /\ now < feeExempt[holder].expires

\* The exemption account is optional: who leaves it out pays in full.
Premiums(holder, side) ==
  { IF side = "mint" THEN PremiumMint ELSE PremiumRedeem }
    \cup (IF Exempts(holder, side) THEN {0} ELSE {})

\* The prints a caller may submit, and those that price an operation now.
Prints ==
  { [mantissa |-> q.mantissa, exponent |-> q.exponent,
     confidence |-> q.confidence, publishers |-> q.publishers,
     feedTime |-> now - age, payloadTime |-> now - age + carried] :
      q \in Quotes, age \in Ages, carried \in 0..1 }

ReadSilverPrice(print) ==
  /\ PriceFromLazer(print, now, lastUsed)
  /\ CheckPriceDelta(lastRecorded, lastUpdateAt, NormalizedPrice(print), now)

RecordPrice(print, amount) ==
  /\ lastUsed' = print.feedTime
  /\ quoted' = NormalizedPrice(print)
  /\ IF MovesReference(lastRecorded, amount)
       THEN lastRecorded' = NormalizedPrice(print) /\ lastUpdateAt' = now
       ELSE UNCHANGED << lastRecorded, lastUpdateAt >>

\* The part of a premium that leaves for the fee vault; the rest stays behind.
Routed(fee) == IF feeRoutingDisabled THEN 0 ELSE fee

Init ==
  /\ now = 1
  /\ treasury = 0 /\ vault = 0 /\ supply = 0
  /\ usdc = [h \in Holders |-> Purse] /\ silv = [h \in Holders |-> 0]
  /\ lastUsed = 0 /\ lastRecorded = 0 /\ lastUpdateAt = 0 /\ quoted = 0
  /\ start = 0 /\ used = 0 /\ usedPrev = 0
  /\ gate = [paused |-> TRUE, mintOpen |-> TRUE, redemptionsEnabled |-> TRUE]
  /\ feeRoutingDisabled = FALSE
  /\ minOperation \in MinOperations /\ maxSupply = LaunchCap
  /\ minFloat = 0 /\ 0 \in Floats
  /\ feeExempt = [h \in Holders |-> NoExemption]

-----------------------------------------------------------------------------
\* The two USDC legs of a mint.  The token program debits the wallet for each
\* and refuses what the wallet does not hold.
PayIn(holder, toTreasury, routed) ==
  /\ usdc[holder] >= toTreasury + routed
  /\ treasury' = treasury + toTreasury
  /\ vault' = vault + routed
  /\ usdc' = [usdc EXCEPT ![holder] = @ - (toTreasury + routed)]

\* Bug: the backing leg is not reduced by the premium that is routed.
MintWithFullBackingLeg(holder, amount, print, premium) ==
  LET fee == FeeFromAmount(amount, premium)
      out == MintSilvOut(amount - fee, NormalizedPrice(print))
  IN  /\ ~gate.paused /\ gate.mintOpen /\ amount > 0 /\ amount >= minOperation
      /\ ReadSilverPrice(print)
      /\ amount > fee /\ out > 0 /\ supply + out <= maxSupply
      /\ PayIn(holder, amount, Routed(fee))
      /\ RecordPrice(print, amount)
      /\ silv' = [silv EXCEPT ![holder] = @ + out]
      /\ supply' = supply + out
      /\ UNCHANGED << now, buckets, gates, levers >>

\* Bug: SILV for the whole amount, although its premium is routed away.
MintOnFullAmount(holder, amount, print, premium) ==
  LET fee == FeeFromAmount(amount, premium)
      out == MintSilvOut(amount, NormalizedPrice(print))
  IN  /\ ~gate.paused /\ gate.mintOpen /\ amount > 0 /\ amount >= minOperation
      /\ ReadSilverPrice(print)
      /\ amount > fee /\ out > 0 /\ supply + out <= maxSupply
      /\ PayIn(holder, amount - Routed(fee), Routed(fee))
      /\ RecordPrice(print, amount)
      /\ silv' = [silv EXCEPT ![holder] = @ + out]
      /\ supply' = supply + out
      /\ UNCHANGED << now, buckets, gates, levers >>

MintSilv(holder, amount, print, premium) ==
  LET fee == FeeFromAmount(amount, premium)
      out == MintSilvOut(amount - fee, NormalizedPrice(print))
  IN  /\ ~gate.paused /\ gate.mintOpen
      /\ amount > 0 /\ amount >= minOperation
      /\ ReadSilverPrice(print)
      /\ amount > fee /\ out > 0
      /\ supply + out <= maxSupply
      /\ PayIn(holder, amount - Routed(fee), Routed(fee))
      /\ RecordPrice(print, amount)
      /\ silv' = [silv EXCEPT ![holder] = @ + out]
      /\ supply' = supply + out
      /\ UNCHANGED << now, buckets, gates, levers >>

\* The two USDC legs of a redemption against the treasury and the limiter.
PayOut(holder, toUser, routed) ==
  /\ Limiter!Debit(toUser + routed)
  /\ treasury >= toUser + routed
  /\ treasury' = treasury - (toUser + routed)
  /\ vault' = vault + routed
  /\ usdc' = [usdc EXCEPT ![holder] = @ + toUser]

RedeemSilv(holder, amount, print, premium) ==
  LET gross == SilvToUsdcAtOracle(amount, NormalizedPrice(print))
      fee == FeeFromAmount(gross, premium)
  IN  /\ ~gate.paused /\ gate.redemptionsEnabled
      /\ amount > 0
      /\ ReadSilverPrice(print)
      /\ gross > 0 /\ gross >= minOperation
      /\ gross > fee
      /\ silv[holder] >= amount
      /\ PayOut(holder, gross - fee, Routed(fee))
      /\ RecordPrice(print, gross)
      /\ silv' = [silv EXCEPT ![holder] = @ - amount]
      /\ supply' = supply - amount
      /\ UNCHANGED << now, gates, levers >>

-----------------------------------------------------------------------------
AdminPremint(amount) ==
  /\ amount > 0 /\ ~gate.paused
  /\ supply + amount <= maxSupply
  /\ silv' = [silv EXCEPT ![InventoryWallet] = @ + amount]
  /\ supply' = supply + amount
  /\ UNCHANGED << now, treasury, vault, usdc, oracle, buckets, gates, levers >>

\* Allowed while paused: it is how a treasury is refilled in an incident.
DepositUsdc(holder, amount) ==
  /\ amount >= MinDeposit /\ amount > 0
  /\ usdc[holder] >= amount
  /\ usdc' = [usdc EXCEPT ![holder] = @ - amount]
  /\ treasury' = treasury + amount
  /\ UNCHANGED << now, vault, silv, supply, oracle, buckets, gates, levers >>

\* The money half of Timelock!ExecuteWithdrawUsdc.
ExecuteWithdrawUsdc(amount) ==
  /\ ~gate.paused /\ amount > 0
  /\ treasury >= amount /\ treasury - amount >= minFloat
  /\ treasury' = treasury - amount
  /\ UNCHANGED << now, vault, usdc, silv, supply, oracle, buckets, gates, levers >>

\* Bug: the vault may be swept whatever the treasury holds.
WithdrawFeesAnytime(amount, toTreasury) ==
  /\ ~gate.paused /\ amount > 0 /\ vault >= amount
  /\ vault' = vault - amount
  /\ treasury' = treasury + (IF toTreasury THEN amount ELSE 0)
  /\ UNCHANGED << now, usdc, silv, supply, oracle, buckets, gates, levers >>

\* The destination is any USDC account but the vault's own; one of them is the
\* treasury.
WithdrawFees(amount, toTreasury) ==
  /\ ~gate.paused /\ amount > 0
  /\ treasury >= minFloat
  /\ vault >= amount
  /\ vault' = vault - amount
  /\ treasury' = treasury + (IF toTreasury THEN amount ELSE 0)
  /\ UNCHANGED << now, usdc, silv, supply, oracle, buckets, gates, levers >>

-----------------------------------------------------------------------------
SetFeeRoutingEnabled(enabled) ==
  /\ enabled = feeRoutingDisabled
  /\ feeRoutingDisabled' = ~enabled
  /\ UNCHANGED << now, balances, oracle, buckets, gates, minOperation, maxSupply, feeExempt >>

SetFeeExempt(holder, flags, expires) ==
  /\ flags # {}
  /\ expires > now /\ expires <= now + MaxExemptTerm
  /\ feeExempt' = [feeExempt EXCEPT ![holder] = [flags |-> flags, expires |-> expires]]
  /\ UNCHANGED << now, balances, oracle, buckets, gates, feeRoutingDisabled, minOperation, maxSupply >>

RemoveFeeExempt(holder) ==
  /\ feeExempt[holder] # NoExemption
  /\ feeExempt' = [feeExempt EXCEPT ![holder] = NoExemption]
  /\ UNCHANGED << now, balances, oracle, buckets, gates, feeRoutingDisabled, minOperation, maxSupply >>

\* Bug: the cap may be lowered under what is minted.
SetCapBelowSupply(newMax) ==
  /\ newMax <= maxSupply
  /\ maxSupply' = newMax
  /\ UNCHANGED << now, balances, oracle, buckets, gates, feeRoutingDisabled, minOperation, feeExempt >>

SetMaxSilvSupply(newMax) ==
  /\ newMax <= maxSupply
  /\ newMax >= supply
  /\ maxSupply' = newMax
  /\ UNCHANGED << now, balances, oracle, buckets, gates, feeRoutingDisabled, minOperation, feeExempt >>

SetMinOperationUsdc(newMin) ==
  /\ newMin # minOperation
  /\ minOperation' = newMin
  /\ UNCHANGED << now, balances, oracle, buckets, gates, feeRoutingDisabled, maxSupply, feeExempt >>

\* What the queue, the levers and the pause (module Timelock) do to the gates.
Govern ==
  /\ gate' \in Gates
  /\ minFloat' \in Floats
  /\ UNCHANGED << now, balances, oracle, buckets, levers >>

Tick ==
  /\ now < Horizon
  /\ now' = now + 1
  /\ UNCHANGED << balances, oracle, buckets, gates, levers >>

-----------------------------------------------------------------------------
Trade ==
  \E print \in Prints :
    /\ ReadSilverPrice(print)
    /\ \E h \in Holders, a \in Trades :
         \/ \E p \in Premiums(h, "mint") : MintSilv(h, a, print, p)
         \/ \E p \in Premiums(h, "redeem") : RedeemSilv(h, a, print, p)

Operate ==
  \E a \in Trades :
    \/ AdminPremint(a)
    \/ \E h \in Holders : DepositUsdc(h, a)
    \/ ExecuteWithdrawUsdc(a)
    \/ \E toTreasury \in BOOLEAN : WithdrawFees(a, toTreasury)

Configure ==
  \/ \E enabled \in BOOLEAN : SetFeeRoutingEnabled(enabled)
  \/ \E h \in Holders :
       \/ RemoveFeeExempt(h)
       \/ \E flags \in ExemptFlags, t \in 1..Horizon : SetFeeExempt(h, flags, t)
  \/ \E newMax \in Caps : SetMaxSilvSupply(newMax)
  \/ \E newMin \in MinOperations : SetMinOperationUsdc(newMin)

Next == Trade \/ Operate \/ Configure \/ Govern \/ Tick

Spec == Init /\ [][Next]_vars

-----------------------------------------------------------------------------
\* Every variable has its type: above all, no print outside the sanity band ever
\* prices a trade or becomes the breaker's reference (lazer_price.rs 147-165).
TypeOK ==
  /\ now \in 1..Horizon
  /\ treasury \in Nat /\ vault \in Nat /\ supply \in Int
  /\ usdc \in [Holders -> Nat] /\ silv \in [Holders -> Nat]
  /\ lastUsed \in Int /\ lastUpdateAt \in 0..Horizon
  /\ {lastRecorded, quoted} \subseteq {0} \cup MinPrice..MaxPrice
  /\ start \in Nat /\ used \in Nat /\ usedPrev \in Nat
  /\ gate \in [paused : BOOLEAN, mintOpen : BOOLEAN, redemptionsEnabled : BOOLEAN]
  /\ feeRoutingDisabled \in BOOLEAN
  /\ minOperation \in MinOperations /\ maxSupply \in Caps
  /\ minFloat \in Floats
  /\ feeExempt \in [Holders -> [flags : SUBSET Sides, expires : 0..Horizon]]

\* No order of mints, pre-mints, redemptions and instant cuts of the cap leaves
\* more SILV than the cap (mint_silv.rs 239-249, premint.rs 70-81, caps.rs 90-109).
SupplyWithinCap == supply <= maxSupply

\* A trade is what moves a wallet's USDC and SILV in one step.
Traded(h) == usdc'[h] # usdc[h] /\ silv'[h] # silv[h]

\* A mint costs the wallet exactly the amount it signed for, in however many
\* transfers the premium's routing splits it (mint_silv.rs 252-290).
PaysWhatWasSigned ==
  [][ \A h \in Holders : Traded(h) =>
        \A a \in Trades, print \in Prints, p \in Premiums(h, "mint") :
          MintSilv(h, a, print, p) => usdc[h] - usdc'[h] = a ]_vars

\* At the price it is made at, a trade never thins the backing: a mint adds to
\* the treasury what the SILV it issues is worth, a redemption takes out no more
\* than the SILV it burns is worth, whatever is routed to the vault, exempted or
\* rounded (mint_silv.rs 226-264, redeem_silv.rs 178-274).
TradesAreBacked ==
  [][ \A h \in Holders : Traded(h) =>
        (treasury' - treasury) * PRICE_SCALE_FACTOR >= (supply' - supply) * quoted' ]_vars

\* One signed print prices one operation, whichever side it is on
\* (lazer_price.rs 134-145).
OnePrintOneTrade ==
  [][ \A h \in Holders : Traded(h) => lastUsed' > lastUsed ]_vars

\* At the price it traded at, a wallet is poorer by at least the premium on at
\* least the minimum operation, unless it is exempt on that side at that time:
\* no rounding, splitting, round trip or switch of routing gets around it
\* (math.rs 41-110, redeem_silv.rs 182-226, fee_exempt.rs 51-99).
TradesPayTheirPremium ==
  [][ \A h \in Holders : Traded(h) =>
        LET side == IF silv'[h] > silv[h] THEN "mint" ELSE "redeem"
            size == IF side = "mint" THEN usdc[h] - usdc'[h]
                    ELSE SilvToUsdcAtOracle(silv[h] - silv'[h], quoted')
            bps == IF side = "mint" THEN PremiumMint ELSE PremiumRedeem
            loss == (usdc[h] - usdc'[h]) * PRICE_SCALE_FACTOR
                      + (silv[h] - silv'[h]) * quoted'
        IN  /\ size >= minOperation
            /\ loss >= 0
            /\ ~Exempts(h, side) => loss * BPS_DENOM >= bps * size * PRICE_SCALE_FACTOR ]_vars

\* The admin takes money, out of the treasury (which redemptions lower too, but
\* only with the supply) or out of the fee vault, only while the program runs and
\* the redemption float is whole (execute.rs 221-232, fee_whitelist.rs 154-168).
AdminTakesOnlyAboveTheFloat ==
  [][ vault' < vault \/ (treasury' < treasury /\ supply' = supply) =>
        ~gate.paused /\ treasury' >= minFloat ]_vars

\* What oracle.rs 102 and 122-124 say of the breaker: an accepted trade leaves
\* it armed, so no flow of small trades keeps it disarmed.
BreakerRearms ==
  [][ lastUsed' # lastUsed => ~Decayed(lastUpdateAt', now) ]_vars
=============================================================================
