----------------------------- MODULE MarketProofs -----------------------------
(***************************************************************************)
(* Proofs about Market, for every number of wallets, every price band,     *)
(* premium, cap, float and limit, and amounts of any size.                 *)
(***************************************************************************)
EXTENDS Market, TLAPS

-----------------------------------------------------------------------------
(* The arithmetic of math.rs.                                               *)

\* What floor division gives.
LEMMA Division ==
  ASSUME NEW a \in Nat, NEW b \in Nat \ {0}
  PROVE  /\ a \div b \in Nat
         /\ (a \div b) * b <= a
         /\ a < (a \div b) * b + b
BY SMT

\* A fee is at least its share of the amount: it is rounded up.
LEMMA FeeCoversPremium ==
  ASSUME NEW amount \in Nat, NEW bps \in 0..BPS_DENOM
  PROVE  /\ FeeFromAmount(amount, bps) \in Nat
         /\ FeeFromAmount(amount, bps) * BPS_DENOM >= amount * bps
<1>1. BPS_DENOM \in Nat \ {0} /\ amount * bps \in Nat
  BY ScalesArePositive
<1>2. amount * bps + BPS_DENOM - 1 \in Nat
  BY <1>1
<1> DEFINE total == amount * bps + BPS_DENOM - 1
<1>3. /\ total \div BPS_DENOM \in Nat
      /\ total < (total \div BPS_DENOM) * BPS_DENOM + BPS_DENOM
  BY <1>1, <1>2, Division
<1> HIDE DEF total
<1>4. /\ (total \div BPS_DENOM) * BPS_DENOM \in Int
      /\ total = amount * bps + BPS_DENOM - 1
  BY <1>1, <1>3 DEF total
<1>5. (total \div BPS_DENOM) * BPS_DENOM >= amount * bps
  BY <1>1, <1>3, <1>4
<1>6. QED
  BY <1>3, <1>5 DEF total, FeeFromAmount

\* A mint gives out no more SILV than its USDC buys.
LEMMA MintRoundsDown ==
  ASSUME NEW amount \in Nat, NEW price \in Nat \ {0}
  PROVE  /\ MintSilvOut(amount, price) \in Nat
         /\ MintSilvOut(amount, price) * price <= amount * PRICE_SCALE_FACTOR
<1>1. amount * PRICE_SCALE_FACTOR \in Nat
  BY ScalesArePositive
<1>2. QED
  BY <1>1, Division DEF MintSilvOut

\* A redemption is worth no more USDC than its SILV.
LEMMA RedeemRoundsDown ==
  ASSUME NEW amount \in Nat, NEW price \in Nat
  PROVE  /\ SilvToUsdcAtOracle(amount, price) \in Nat
         /\ SilvToUsdcAtOracle(amount, price) * PRICE_SCALE_FACTOR <= amount * price
<1>1. amount * price \in Nat /\ PRICE_SCALE_FACTOR \in Nat \ {0}
  BY ScalesArePositive
<1>2. QED
  BY <1>1, Division DEF SilvToUsdcAtOracle

-----------------------------------------------------------------------------
(* What a print that prices an operation gives, and what may be charged.    *)

LEMMA PrintIsTyped ==
  ASSUME TypeOK, NEW print \in Prints, ReadSilverPrice(print)
  PROVE  /\ print.feedTime \in Int
         /\ NormalizedPrice(print) \in MinPrice..MaxPrice
         /\ NormalizedPrice(print) \in Nat \ {0}
<1>1. print.feedTime \in Int
  BY MarketAssumption DEF Prints, TypeOK
<1>2. NormalizedPrice(print) \in MinPrice..MaxPrice
  BY DEF ReadSilverPrice, PriceFromLazer, InBand
<1>3. QED
  BY <1>1, <1>2, GuardsAreNaturals

LEMMA PremiumIsTyped ==
  ASSUME NEW holder, NEW side, NEW premium \in Premiums(holder, side)
  PROVE  /\ premium \in 0..BPS_DENOM
         /\ ~Exempts(holder, side) =>
              premium = (IF side = "mint" THEN PremiumMint ELSE PremiumRedeem)
BY MarketAssumption, ScalesArePositive DEF Premiums

-----------------------------------------------------------------------------
(* The steps, one case per operation.                                       *)

\* A trade is a mint or a redemption by one wallet at one print and premium.
LEMMA TradeIsMintOrRedeem ==
  ASSUME Trade
  PROVE  \E print \in Prints, h \in Holders, a \in Trades, p \in 0..BPS_DENOM :
           /\ ReadSilverPrice(print)
           /\ \/ /\ MintSilv(h, a, print, p)
                 /\ ~Exempts(h, "mint") => p = PremiumMint
              \/ /\ RedeemSilv(h, a, print, p)
                 /\ ~Exempts(h, "redeem") => p = PremiumRedeem
<1>1. PICK print \in Prints, h \in Holders, a \in Trades :
        /\ ReadSilverPrice(print)
        /\ \/ \E p \in Premiums(h, "mint") : MintSilv(h, a, print, p)
           \/ \E p \in Premiums(h, "redeem") : RedeemSilv(h, a, print, p)
  BY DEF Trade
<1>2. CASE \E p \in Premiums(h, "mint") : MintSilv(h, a, print, p)
  <2>1. PICK p \in Premiums(h, "mint") : MintSilv(h, a, print, p)
    BY <1>2
  <2>2. p \in 0..BPS_DENOM /\ (~Exempts(h, "mint") => p = PremiumMint)
    BY PremiumIsTyped
  <2>3. QED
    BY <1>1, <2>1, <2>2
<1>3. CASE \E p \in Premiums(h, "redeem") : RedeemSilv(h, a, print, p)
  <2>1. PICK p \in Premiums(h, "redeem") : RedeemSilv(h, a, print, p)
    BY <1>3
  <2>2. p \in 0..BPS_DENOM /\ (~Exempts(h, "redeem") => p = PremiumRedeem)
    BY PremiumIsTyped
  <2>3. QED
    BY <1>1, <2>1, <2>2
<1>4. QED
  BY <1>1, <1>2, <1>3

\* What the two sides charge and give out are natural numbers.
LEMMA MintAmounts ==
  ASSUME TypeOK, NEW h \in Holders, NEW a \in Trades, NEW p \in 0..BPS_DENOM,
         NEW print \in Prints, ReadSilverPrice(print), MintSilv(h, a, print, p)
  PROVE  LET fee == FeeFromAmount(a, p)
             out == MintSilvOut(a - fee, NormalizedPrice(print))
         IN  /\ a \in Nat /\ fee \in Nat /\ out \in Nat /\ fee < a
             /\ Routed(fee) \in {0, fee}
             /\ fee * BPS_DENOM >= a * p
             /\ out * NormalizedPrice(print) <= (a - fee) * PRICE_SCALE_FACTOR
<1> DEFINE fee == FeeFromAmount(a, p)
<1>1. a \in Nat
  BY MarketAssumption
<1>2. fee \in Nat /\ fee * BPS_DENOM >= a * p
  BY <1>1, FeeCoversPremium
<1>3. a > fee
  BY DEF MintSilv
<1>4. a - fee \in Nat
  BY <1>1, <1>2, <1>3
<1>5. NormalizedPrice(print) \in Nat \ {0}
  BY PrintIsTyped
<1>6. /\ MintSilvOut(a - fee, NormalizedPrice(print)) \in Nat
      /\ MintSilvOut(a - fee, NormalizedPrice(print)) * NormalizedPrice(print)
           <= (a - fee) * PRICE_SCALE_FACTOR
  BY <1>4, <1>5, MintRoundsDown
<1>7. QED
  BY <1>1, <1>2, <1>3, <1>6 DEF Routed

LEMMA RedeemAmounts ==
  ASSUME TypeOK, NEW h \in Holders, NEW a \in Trades, NEW p \in 0..BPS_DENOM,
         NEW print \in Prints, ReadSilverPrice(print), RedeemSilv(h, a, print, p)
  PROVE  LET gross == SilvToUsdcAtOracle(a, NormalizedPrice(print))
             fee == FeeFromAmount(gross, p)
         IN  /\ a \in Nat /\ gross \in Nat /\ fee \in Nat /\ fee < gross
             /\ Routed(fee) \in {0, fee}
             /\ fee * BPS_DENOM >= gross * p
             /\ gross * PRICE_SCALE_FACTOR <= a * NormalizedPrice(print)
<1> DEFINE gross == SilvToUsdcAtOracle(a, NormalizedPrice(print))
<1>1. a \in Nat
  BY MarketAssumption
<1>2. NormalizedPrice(print) \in Nat
  BY PrintIsTyped
<1>3. gross \in Nat /\ gross * PRICE_SCALE_FACTOR <= a * NormalizedPrice(print)
  BY <1>1, <1>2, RedeemRoundsDown
<1>4. FeeFromAmount(gross, p) \in Nat /\ FeeFromAmount(gross, p) * BPS_DENOM >= gross * p
  BY <1>3, FeeCoversPremium
<1>5. gross > FeeFromAmount(gross, p)
  BY DEF RedeemSilv
<1>6. QED
  BY <1>1, <1>3, <1>4, <1>5 DEF Routed

\* The limiter's buckets stay natural numbers.
LEMMA DebitIsTyped ==
  ASSUME TypeOK, NEW out \in Nat, Limiter!Debit(out)
  PROVE  start' \in Nat /\ used' \in Nat /\ usedPrev' \in Nat
<1>1. /\ now \in Nat /\ start \in Nat /\ used \in Nat /\ usedPrev \in Nat
      /\ RedeemPeriod \in Nat
  BY MarketAssumption DEF TypeOK
<1>2. /\ Limiter!Rolled.start \in Nat
      /\ Limiter!Rolled.current \in Nat
      /\ Limiter!Rolled.prev \in Nat
  <2>1. Limiter!Rolled \in
          { [start |-> now, current |-> used, prev |-> usedPrev],
            [start |-> now, current |-> 0, prev |-> 0],
            [start |-> start + RedeemPeriod, current |-> 0, prev |-> used],
            [start |-> start, current |-> used, prev |-> usedPrev] }
    BY DEF Limiter!Rolled
  <2>2. QED
    BY <1>1, <2>1
<1>3. QED
  BY <1>2 DEF Limiter!Debit

-----------------------------------------------------------------------------
(* Types and the cap.                                                       *)

MarketInvariant == TypeOK /\ SupplyWithinCap

LEMMA MarketInvariantInit == Init => MarketInvariant
<1> SUFFICES ASSUME Init PROVE MarketInvariant
  OBVIOUS
<1>1. usdc \in [Holders -> Nat] /\ silv \in [Holders -> Nat]
  BY MarketAssumption DEF Init
<1>2. feeExempt \in [Holders -> [flags : SUBSET Sides, expires : 0..Horizon]]
  BY MarketAssumption DEF Init, NoExemption
<1>3. gate \in [paused : BOOLEAN, mintOpen : BOOLEAN, redemptionsEnabled : BOOLEAN]
  BY DEF Init
<1>4. now \in 1..Horizon /\ maxSupply \in Caps /\ supply <= maxSupply
  BY MarketAssumption DEF Init
<1>5. lastUpdateAt \in 0..Horizon
  BY MarketAssumption DEF Init
<1>6. feeRoutingDisabled \in BOOLEAN /\ minOperation \in MinOperations /\ minFloat \in Floats
  BY DEF Init
<1>7. {lastRecorded, quoted} \subseteq {0} \cup MinPrice..MaxPrice
  BY DEF Init
<1>8. /\ treasury \in Nat /\ vault \in Nat /\ supply \in Int
      /\ lastUsed \in Int /\ start \in Nat /\ used \in Nat /\ usedPrev \in Nat
  BY DEF Init
<1>9. QED
  BY <1>1, <1>2, <1>3, <1>4, <1>5, <1>6, <1>7, <1>8 DEF MarketInvariant, TypeOK, SupplyWithinCap

LEMMA RecordPriceIsTyped ==
  ASSUME TypeOK, NEW print \in Prints, ReadSilverPrice(print), NEW amount,
         RecordPrice(print, amount)
  PROVE  /\ lastUsed' \in Int /\ lastUpdateAt' \in 0..Horizon
         /\ {lastRecorded', quoted'} \subseteq {0} \cup MinPrice..MaxPrice
<1>1. /\ print.feedTime \in Int
      /\ NormalizedPrice(print) \in MinPrice..MaxPrice
  BY PrintIsTyped
<1>2. now \in 0..Horizon
  BY MarketAssumption DEF TypeOK
<1>3. QED
  BY <1>1, <1>2 DEF RecordPrice, TypeOK

LEMMA MintKeepsInvariant ==
  ASSUME MarketInvariant, NEW h \in Holders, NEW a \in Trades, NEW p \in 0..BPS_DENOM,
         NEW print \in Prints, ReadSilverPrice(print), MintSilv(h, a, print, p)
  PROVE  MarketInvariant'
<1> DEFINE fee == FeeFromAmount(a, p)
           out == MintSilvOut(a - fee, NormalizedPrice(print))
<1>1. /\ a \in Nat /\ fee \in Nat /\ out \in Nat /\ fee < a
      /\ Routed(fee) \in {0, fee}
  BY MintAmounts DEF MarketInvariant
<1>2. /\ treasury' = treasury + (a - Routed(fee))
      /\ vault' = vault + Routed(fee)
      /\ usdc[h] >= (a - Routed(fee)) + Routed(fee)
      /\ usdc' = [usdc EXCEPT ![h] = @ - ((a - Routed(fee)) + Routed(fee))]
      /\ silv' = [silv EXCEPT ![h] = @ + out]
      /\ supply' = supply + out /\ supply + out <= maxSupply
      /\ UNCHANGED << now, buckets, gates, levers >>
      /\ RecordPrice(print, a)
  BY DEF MintSilv, PayIn
<1> HIDE DEF fee, out
<1>3. /\ treasury' \in Nat /\ vault' \in Nat /\ supply' \in Int
      /\ usdc' \in [Holders -> Nat] /\ silv' \in [Holders -> Nat]
  BY <1>1, <1>2 DEF MarketInvariant, TypeOK
<1>4. /\ lastUsed' \in Int /\ lastUpdateAt' \in 0..Horizon
      /\ {lastRecorded', quoted'} \subseteq {0} \cup MinPrice..MaxPrice
  BY <1>2, RecordPriceIsTyped DEF MarketInvariant
<1>5. TypeOK'
  BY <1>2, <1>3, <1>4 DEF MarketInvariant, TypeOK, buckets, gates, levers
<1>6. SupplyWithinCap'
  BY <1>2 DEF SupplyWithinCap, levers
<1>7. QED
  BY <1>5, <1>6 DEF MarketInvariant

LEMMA RedeemKeepsInvariant ==
  ASSUME MarketInvariant, NEW h \in Holders, NEW a \in Trades, NEW p \in 0..BPS_DENOM,
         NEW print \in Prints, ReadSilverPrice(print), RedeemSilv(h, a, print, p)
  PROVE  MarketInvariant'
<1> DEFINE gross == SilvToUsdcAtOracle(a, NormalizedPrice(print))
           fee == FeeFromAmount(gross, p)
<1>1. /\ a \in Nat /\ gross \in Nat /\ fee \in Nat /\ fee < gross
      /\ Routed(fee) \in {0, fee}
  BY RedeemAmounts DEF MarketInvariant
<1>2. /\ Limiter!Debit(gross - fee + Routed(fee))
      /\ treasury >= gross - fee + Routed(fee)
      /\ treasury' = treasury - (gross - fee + Routed(fee))
      /\ vault' = vault + Routed(fee)
      /\ usdc' = [usdc EXCEPT ![h] = @ + (gross - fee)]
      /\ silv' = [silv EXCEPT ![h] = @ - a] /\ silv[h] >= a
      /\ supply' = supply - a
      /\ UNCHANGED << now, gates, levers >>
      /\ RecordPrice(print, gross)
  BY DEF RedeemSilv, PayOut
<1> HIDE DEF gross, fee
<1>3. /\ treasury' \in Nat /\ vault' \in Nat
      /\ usdc' \in [Holders -> Nat] /\ silv' \in [Holders -> Nat]
  BY <1>1, <1>2 DEF MarketInvariant, TypeOK
<1>4. /\ lastUsed' \in Int /\ lastUpdateAt' \in 0..Horizon
      /\ {lastRecorded', quoted'} \subseteq {0} \cup MinPrice..MaxPrice
  BY <1>2, RecordPriceIsTyped DEF MarketInvariant
<1>5. start' \in Nat /\ used' \in Nat /\ usedPrev' \in Nat
  <2>1. gross - fee + Routed(fee) \in Nat
    BY <1>1
  <2>2. QED
    BY <1>2, <2>1, DebitIsTyped DEF MarketInvariant
<1>6. supply' \in Int /\ supply' <= supply
  BY <1>1, <1>2 DEF MarketInvariant, TypeOK
<1>7. QED
  BY <1>2, <1>3, <1>4, <1>5, <1>6, MarketAssumption
  DEF MarketInvariant, TypeOK, SupplyWithinCap, gates, levers

LEMMA OperateKeepsInvariant == MarketInvariant /\ Operate => MarketInvariant'
<1> SUFFICES ASSUME MarketInvariant, Operate PROVE MarketInvariant'
  OBVIOUS
<1> USE DEF MarketInvariant
<1>1. ASSUME NEW a \in Trades, AdminPremint(a) PROVE MarketInvariant'
  <2>1. a \in Nat /\ InventoryWallet \in Holders
    BY MarketAssumption
  <2>2. silv' \in [Holders -> Nat] /\ supply' \in Int /\ supply' <= maxSupply
    BY <1>1, <2>1 DEF AdminPremint, TypeOK
  <2>3. QED
    BY <1>1, <2>2 DEF AdminPremint, TypeOK, SupplyWithinCap, oracle, buckets, gates, levers
<1>2. ASSUME NEW a \in Trades, NEW h \in Holders, DepositUsdc(h, a) PROVE MarketInvariant'
  <2>1. a \in Nat
    BY MarketAssumption
  <2>2. usdc' \in [Holders -> Nat] /\ treasury' \in Nat
    BY <1>2, <2>1 DEF DepositUsdc, TypeOK
  <2>3. QED
    BY <1>2, <2>2 DEF DepositUsdc, TypeOK, SupplyWithinCap, oracle, buckets, gates, levers
<1>3. ASSUME NEW a \in Trades, ExecuteWithdrawUsdc(a) PROVE MarketInvariant'
  <2>1. a \in Nat
    BY MarketAssumption
  <2>2. treasury' \in Nat
    BY <1>3, <2>1 DEF ExecuteWithdrawUsdc, TypeOK
  <2>3. QED
    BY <1>3, <2>2 DEF ExecuteWithdrawUsdc, TypeOK, SupplyWithinCap, oracle, buckets, gates, levers
<1>4. ASSUME NEW a \in Trades, NEW toTreasury \in BOOLEAN, WithdrawFees(a, toTreasury)
      PROVE  MarketInvariant'
  <2>1. a \in Nat
    BY MarketAssumption
  <2>2. vault' \in Nat /\ treasury' \in Nat
    BY <1>4, <2>1 DEF WithdrawFees, TypeOK
  <2>3. QED
    BY <1>4, <2>2 DEF WithdrawFees, TypeOK, SupplyWithinCap, oracle, buckets, gates, levers
<1>5. QED
  BY <1>1, <1>2, <1>3, <1>4 DEF Operate

LEMMA ConfigureKeepsInvariant == MarketInvariant /\ Configure => MarketInvariant'
<1> SUFFICES ASSUME MarketInvariant, Configure PROVE MarketInvariant'
  OBVIOUS
<1> USE DEF MarketInvariant, balances, oracle, buckets, gates
<1>1. ASSUME NEW enabled \in BOOLEAN, SetFeeRoutingEnabled(enabled) PROVE MarketInvariant'
  BY <1>1 DEF SetFeeRoutingEnabled, TypeOK, SupplyWithinCap
<1>2. ASSUME NEW h \in Holders, RemoveFeeExempt(h) PROVE MarketInvariant'
  <2>1. feeExempt' \in [Holders -> [flags : SUBSET Sides, expires : 0..Horizon]]
    BY <1>2, MarketAssumption DEF RemoveFeeExempt, NoExemption, TypeOK
  <2>2. QED
    BY <1>2, <2>1 DEF RemoveFeeExempt, TypeOK, SupplyWithinCap
<1>3. ASSUME NEW h \in Holders, NEW flags \in ExemptFlags, NEW t \in 1..Horizon,
             SetFeeExempt(h, flags, t)
      PROVE  MarketInvariant'
  <2>1. flags \in SUBSET Sides /\ t \in 0..Horizon
    BY MarketAssumption
  <2>2. feeExempt' \in [Holders -> [flags : SUBSET Sides, expires : 0..Horizon]]
    BY <1>3, <2>1 DEF SetFeeExempt, TypeOK
  <2>3. QED
    BY <1>3, <2>2 DEF SetFeeExempt, TypeOK, SupplyWithinCap
<1>4. ASSUME NEW newMax \in Caps, SetMaxSilvSupply(newMax) PROVE MarketInvariant'
  BY <1>4 DEF SetMaxSilvSupply, TypeOK, SupplyWithinCap
<1>5. ASSUME NEW newMin \in MinOperations, SetMinOperationUsdc(newMin) PROVE MarketInvariant'
  BY <1>5 DEF SetMinOperationUsdc, TypeOK, SupplyWithinCap
<1>6. QED
  BY <1>1, <1>2, <1>3, <1>4, <1>5 DEF Configure

LEMMA MarketInvariantStep == MarketInvariant /\ [Next]_vars => MarketInvariant'
<1> SUFFICES ASSUME MarketInvariant, [Next]_vars PROVE MarketInvariant'
  OBVIOUS
<1>1. CASE Trade
  BY <1>1, TradeIsMintOrRedeem, MintKeepsInvariant, RedeemKeepsInvariant
  DEF MarketInvariant
<1>2. CASE Operate
  BY <1>2, OperateKeepsInvariant
<1>3. CASE Configure
  BY <1>3, ConfigureKeepsInvariant
<1>4. CASE Govern
  <2>1. gate' \in [paused : BOOLEAN, mintOpen : BOOLEAN, redemptionsEnabled : BOOLEAN]
    BY <1>4, MarketAssumption DEF Govern
  <2>2. QED
    BY <1>4, <2>1
    DEF Govern, MarketInvariant, TypeOK, SupplyWithinCap, balances, oracle, buckets, levers
<1>5. CASE Tick
  <2>1. now' \in 1..Horizon
    BY <1>5, MarketAssumption DEF Tick, MarketInvariant, TypeOK
  <2>2. QED
    BY <1>5, <2>1
    DEF Tick, MarketInvariant, TypeOK, SupplyWithinCap, balances, oracle, buckets, gates, levers
<1>6. CASE UNCHANGED vars
  BY <1>6
  DEF vars, MarketInvariant, TypeOK, SupplyWithinCap, balances, oracle, buckets, gates, levers
<1>7. QED
  BY <1>1, <1>2, <1>3, <1>4, <1>5, <1>6 DEF Next

\* Every variable keeps its type: no print outside the sanity band prices a trade
\* or becomes the breaker's reference (lazer_price.rs 147-165).
THEOREM MarketTypes == Spec => []TypeOK
<1>1. MarketInvariant => TypeOK
  BY DEF MarketInvariant
<1>2. QED
  BY <1>1, MarketInvariantInit, MarketInvariantStep, PTL DEF Spec

\* No order of mints, pre-mints, redemptions and cuts of the cap leaves more
\* SILV than the cap (mint_silv.rs 239-249, premint.rs 70-81, caps.rs 90-109).
THEOREM SupplyStaysWithinCap == Spec => []SupplyWithinCap
<1>1. MarketInvariant => SupplyWithinCap
  BY DEF MarketInvariant
<1>2. QED
  BY <1>1, MarketInvariantInit, MarketInvariantStep, PTL DEF Spec

-----------------------------------------------------------------------------
(* What a step may do.                                                      *)

LEMMA InvariantHolds == Spec => []MarketInvariant
BY MarketInvariantInit, MarketInvariantStep, PTL DEF Spec

\* Only a trade moves a wallet's USDC and SILV together.
LEMMA OnlyTradesTrade ==
  ASSUME MarketInvariant, Next, NEW h \in Holders, Traded(h)
  PROVE  Trade
<1>1. CASE Operate
  BY <1>1 DEF Operate, AdminPremint, DepositUsdc, ExecuteWithdrawUsdc, WithdrawFees, Traded
<1>2. CASE Configure
  BY <1>2
  DEF Configure, SetFeeRoutingEnabled, RemoveFeeExempt, SetFeeExempt, SetMaxSilvSupply,
      SetMinOperationUsdc, balances, Traded
<1>3. CASE Govern \/ Tick
  BY <1>3 DEF Govern, Tick, balances, Traded
<1>4. QED
  BY <1>1, <1>2, <1>3 DEF Next

\* One signed print prices one operation, on either side (lazer_price.rs 134-145).
THEOREM PrintsAreSpentOnce == Spec => OnePrintOneTrade
<1> DEFINE Spends == \A h \in Holders : Traded(h) => lastUsed' > lastUsed
<1>1. MarketInvariant /\ [Next]_vars => [Spends]_vars
  <2> SUFFICES ASSUME MarketInvariant, Next, NEW h \in Holders, Traded(h)
               PROVE  lastUsed' > lastUsed
    OBVIOUS
  <2>1. PICK print \in Prints, k \in Holders, a \in Trades, p \in 0..BPS_DENOM :
          /\ ReadSilverPrice(print)
          /\ MintSilv(k, a, print, p) \/ RedeemSilv(k, a, print, p)
    BY OnlyTradesTrade, TradeIsMintOrRedeem
  <2>2. lastUsed' = print.feedTime
    BY <2>1 DEF MintSilv, RedeemSilv, RecordPrice
  <2>3. print.feedTime > lastUsed
    BY <2>1 DEF ReadSilverPrice, PriceFromLazer
  <2>4. QED
    BY <2>2, <2>3
<1>2. QED
  BY <1>1, InvariantHolds, PTL DEF Spec, OnePrintOneTrade

\* The admin takes money only while the program runs and the float is whole
\* (execute.rs 221-232, fee_whitelist.rs 154-168).
THEOREM AdminLeavesTheFloat == Spec => AdminTakesOnlyAboveTheFloat
<1> DEFINE Takes == vault' < vault \/ (treasury' < treasury /\ supply' = supply)
           Leaves == Takes => ~gate.paused /\ treasury' >= minFloat
<1>1. MarketInvariant /\ [Next]_vars => [Leaves]_vars
  <2> SUFFICES ASSUME MarketInvariant, Next PROVE Leaves
    OBVIOUS
  <2>1. /\ treasury \in Nat /\ vault \in Nat /\ supply \in Int
        /\ minFloat \in Nat /\ Trades \subseteq Nat
    BY MarketAssumption DEF MarketInvariant, TypeOK
  <2>2. CASE UNCHANGED << treasury, vault >>
    BY <2>1, <2>2
  <2>3. ASSUME NEW a \in Trades, ExecuteWithdrawUsdc(a) PROVE Leaves
    BY <2>3 DEF ExecuteWithdrawUsdc
  <2>4. ASSUME NEW a \in Trades, NEW toTreasury \in BOOLEAN, WithdrawFees(a, toTreasury)
        PROVE  Leaves
    BY <2>1, <2>4 DEF WithdrawFees
  <2>5. ASSUME Trade PROVE ~Takes
    <3>1. PICK print \in Prints, h \in Holders, a \in Trades, p \in 0..BPS_DENOM :
            /\ ReadSilverPrice(print)
            /\ MintSilv(h, a, print, p) \/ RedeemSilv(h, a, print, p)
      BY <2>5, TradeIsMintOrRedeem
    <3>2. CASE MintSilv(h, a, print, p)
      <4> DEFINE fee == FeeFromAmount(a, p)
      <4>1. /\ a \in Nat /\ fee \in Nat /\ fee < a /\ Routed(fee) \in {0, fee}
        BY <3>1, <3>2, MintAmounts DEF MarketInvariant
      <4>2. treasury' = treasury + (a - Routed(fee)) /\ vault' = vault + Routed(fee)
        BY <3>2 DEF MintSilv, PayIn
      <4> HIDE DEF fee
      <4>3. QED
        BY <2>1, <4>1, <4>2
    <3>3. CASE RedeemSilv(h, a, print, p)
      <4> DEFINE gross == SilvToUsdcAtOracle(a, NormalizedPrice(print))
                 fee == FeeFromAmount(gross, p)
      <4>1. a \in Nat /\ fee \in Nat /\ Routed(fee) \in {0, fee}
        BY <3>1, <3>3, RedeemAmounts DEF MarketInvariant
      <4>2. a > 0 /\ supply' = supply - a /\ vault' = vault + Routed(fee)
        BY <3>3 DEF RedeemSilv, PayOut
      <4> HIDE DEF gross, fee
      <4>3. QED
        BY <2>1, <4>1, <4>2
    <3>4. QED
      BY <3>1, <3>2, <3>3
  <2>6. ASSUME Configure \/ Govern \/ Tick PROVE UNCHANGED << treasury, vault >>
    BY <2>6
    DEF Configure, SetFeeRoutingEnabled, RemoveFeeExempt, SetFeeExempt, SetMaxSilvSupply,
        SetMinOperationUsdc, Govern, Tick, balances
  <2>7. ASSUME NEW a \in Trades, AdminPremint(a) PROVE UNCHANGED << treasury, vault >>
    BY <2>7 DEF AdminPremint
  <2>8. ASSUME NEW a \in Trades, NEW h \in Holders, DepositUsdc(h, a) PROVE ~Takes
    BY <2>1, <2>8 DEF DepositUsdc
  <2>9. QED
    BY <2>2, <2>3, <2>4, <2>5, <2>6, <2>7, <2>8 DEF Next, Operate
<1>2. QED
  BY <1>1, InvariantHolds, PTL DEF Spec, AdminTakesOnlyAboveTheFloat

\* What a trade does to the treasury, at its price, against the SILV it issues or
\* burns: a mint's backing leg is at least its amount less the premium, and a
\* redemption's two legs are at most the worth of what it burns.
LEMMA MintIsBacked ==
  ASSUME MarketInvariant, NEW h \in Holders, NEW a \in Trades, NEW p \in 0..BPS_DENOM,
         NEW print \in Prints, ReadSilverPrice(print), MintSilv(h, a, print, p)
  PROVE  (treasury' - treasury) * PRICE_SCALE_FACTOR >= (supply' - supply) * quoted'
<1> DEFINE fee == FeeFromAmount(a, p)
           price == NormalizedPrice(print)
           out == MintSilvOut(a - fee, price)
<1>1. /\ a \in Nat /\ fee \in Nat /\ out \in Nat /\ Routed(fee) \in {0, fee}
      /\ out * price <= (a - fee) * PRICE_SCALE_FACTOR
  BY MintAmounts DEF MarketInvariant
<1>2. /\ treasury' = treasury + (a - Routed(fee))
      /\ supply' = supply + out /\ quoted' = price
  BY DEF MintSilv, PayIn, RecordPrice
<1>3. price \in Nat /\ PRICE_SCALE_FACTOR \in Nat /\ treasury \in Nat /\ supply \in Int
  BY PrintIsTyped, ScalesArePositive DEF MarketInvariant, TypeOK
<1> HIDE DEF fee, price, out
<1>4. treasury' - treasury \in Int /\ treasury' - treasury >= a - fee /\ supply' - supply = out
  BY <1>1, <1>2, <1>3
<1>5. (treasury' - treasury) * PRICE_SCALE_FACTOR >= (a - fee) * PRICE_SCALE_FACTOR
  BY <1>1, <1>3, <1>4
<1>6. QED
  BY <1>1, <1>2, <1>3, <1>4, <1>5

LEMMA RedeemIsBacked ==
  ASSUME MarketInvariant, NEW h \in Holders, NEW a \in Trades, NEW p \in 0..BPS_DENOM,
         NEW print \in Prints, ReadSilverPrice(print), RedeemSilv(h, a, print, p)
  PROVE  (treasury' - treasury) * PRICE_SCALE_FACTOR >= (supply' - supply) * quoted'
<1> DEFINE price == NormalizedPrice(print)
           gross == SilvToUsdcAtOracle(a, price)
           fee == FeeFromAmount(gross, p)
           paid == gross - fee + Routed(fee)
<1>1. /\ a \in Nat /\ gross \in Nat /\ fee \in Nat /\ Routed(fee) \in {0, fee}
      /\ gross * PRICE_SCALE_FACTOR <= a * price
  BY RedeemAmounts DEF MarketInvariant
<1>2. paid \in Int /\ paid <= gross
  BY <1>1
<1>3. /\ treasury' = treasury - paid
      /\ supply' = supply - a /\ quoted' = price
  BY DEF RedeemSilv, PayOut, RecordPrice
<1>4. price \in Nat /\ PRICE_SCALE_FACTOR \in Nat /\ treasury \in Nat /\ supply \in Int
  BY PrintIsTyped, ScalesArePositive DEF MarketInvariant, TypeOK
<1> HIDE DEF price, gross, fee, paid
<1>5. treasury' - treasury = 0 - paid /\ supply' - supply = 0 - a
  BY <1>1, <1>2, <1>3, <1>4
<1>6. paid * PRICE_SCALE_FACTOR <= gross * PRICE_SCALE_FACTOR
  BY <1>1, <1>2, <1>4
<1>7. /\ (0 - paid) * PRICE_SCALE_FACTOR = 0 - paid * PRICE_SCALE_FACTOR
      /\ (0 - a) * price = 0 - a * price
  BY <1>1, <1>2, <1>4
<1>8. /\ paid * PRICE_SCALE_FACTOR \in Int /\ gross * PRICE_SCALE_FACTOR \in Int
      /\ a * price \in Int
  BY <1>1, <1>2, <1>4
<1>9. QED
  BY <1>1, <1>3, <1>5, <1>6, <1>7, <1>8

\* No trade thins the backing at the price it is made at, whatever premium is
\* charged, exempted or routed (mint_silv.rs 226-264, redeem_silv.rs 178-274).
THEOREM TradesKeepTheBacking == Spec => TradesAreBacked
<1> DEFINE Backed ==
      \A h \in Holders : Traded(h) =>
        (treasury' - treasury) * PRICE_SCALE_FACTOR >= (supply' - supply) * quoted'
<1>1. MarketInvariant /\ [Next]_vars => [Backed]_vars
  <2> SUFFICES ASSUME MarketInvariant, Next, NEW h \in Holders, Traded(h)
      PROVE  (treasury' - treasury) * PRICE_SCALE_FACTOR >= (supply' - supply) * quoted'
    OBVIOUS
  <2>1. PICK print \in Prints, k \in Holders, a \in Trades, p \in 0..BPS_DENOM :
          /\ ReadSilverPrice(print)
          /\ MintSilv(k, a, print, p) \/ RedeemSilv(k, a, print, p)
    BY OnlyTradesTrade, TradeIsMintOrRedeem
  <2>2. QED
    BY <2>1, MintIsBacked, RedeemIsBacked
<1>2. QED
  BY <1>1, InvariantHolds, PTL DEF Spec, TradesAreBacked

\* What a wallet loses on a trade, in USDC at the trade's price times the scale.
Loss(h) ==
  (usdc[h] - usdc'[h]) * PRICE_SCALE_FACTOR + (silv[h] - silv'[h]) * quoted'

\* A mint of `a` costs the premium on `a`, and what rounding takes.
LEMMA MintPays ==
  ASSUME MarketInvariant, NEW h \in Holders, NEW a \in Trades, NEW p \in 0..BPS_DENOM,
         NEW print \in Prints, ReadSilverPrice(print), MintSilv(h, a, print, p)
  PROVE  /\ silv'[h] > silv[h] /\ usdc[h] - usdc'[h] = a
         /\ a >= minOperation
         /\ Loss(h) >= 0
         /\ Loss(h) * BPS_DENOM >= p * a * PRICE_SCALE_FACTOR
<1> DEFINE fee == FeeFromAmount(a, p)
           price == NormalizedPrice(print)
           out == MintSilvOut(a - fee, price)
<1>1. /\ a \in Nat /\ fee \in Nat /\ out \in Nat /\ Routed(fee) \in {0, fee}
      /\ fee * BPS_DENOM >= a * p
      /\ out * price <= (a - fee) * PRICE_SCALE_FACTOR
  BY MintAmounts DEF MarketInvariant
<1>2. /\ out > 0 /\ a >= minOperation
      /\ usdc' = [usdc EXCEPT ![h] = @ - ((a - Routed(fee)) + Routed(fee))]
      /\ silv' = [silv EXCEPT ![h] = @ + out]
      /\ quoted' = price
  BY DEF MintSilv, PayIn, RecordPrice
<1>3. price \in Nat /\ PRICE_SCALE_FACTOR \in Nat /\ BPS_DENOM \in Nat /\ p \in Nat
  BY PrintIsTyped, ScalesArePositive DEF MarketInvariant
<1> HIDE DEF fee, price, out
<1>4. /\ usdc[h] \in Nat /\ usdc'[h] = usdc[h] - a
      /\ silv[h] \in Nat /\ silv'[h] = silv[h] + out
  BY <1>1, <1>2 DEF MarketInvariant, TypeOK
<1>5. /\ usdc[h] - usdc'[h] = a /\ silv[h] - silv'[h] = 0 - out
      /\ silv'[h] > silv[h]
  BY <1>1, <1>2, <1>4
<1>6. Loss(h) = a * PRICE_SCALE_FACTOR - out * price
  <2>1. (0 - out) * price = 0 - out * price
    BY <1>1, <1>3
  <2>2. Loss(h) = a * PRICE_SCALE_FACTOR + (0 - out) * price
    BY <1>2, <1>5 DEF Loss
  <2>3. QED
    BY <1>1, <1>3, <2>1, <2>2
<1>7. Loss(h) \in Int /\ Loss(h) >= fee * PRICE_SCALE_FACTOR
  BY <1>1, <1>3, <1>6
<1>8. fee * PRICE_SCALE_FACTOR \in Nat
  BY <1>1, <1>3
<1>9. Loss(h) * BPS_DENOM >= (fee * PRICE_SCALE_FACTOR) * BPS_DENOM
  BY <1>3, <1>7, <1>8
<1>10. (fee * BPS_DENOM) * PRICE_SCALE_FACTOR >= (a * p) * PRICE_SCALE_FACTOR
  BY <1>1, <1>3
<1>11. /\ (fee * PRICE_SCALE_FACTOR) * BPS_DENOM = (fee * BPS_DENOM) * PRICE_SCALE_FACTOR
       /\ p * a * PRICE_SCALE_FACTOR = (a * p) * PRICE_SCALE_FACTOR
  BY <1>1, <1>3
<1>12. Loss(h) * BPS_DENOM >= p * a * PRICE_SCALE_FACTOR
  BY <1>1, <1>3, <1>7, <1>9, <1>10, <1>11
<1>13. QED
  BY <1>2, <1>5, <1>7, <1>8, <1>12

\* A redemption worth `gross` costs the premium on it, and what rounding takes.
LEMMA RedeemPays ==
  ASSUME MarketInvariant, NEW h \in Holders, NEW a \in Trades, NEW p \in 0..BPS_DENOM,
         NEW print \in Prints, ReadSilverPrice(print), RedeemSilv(h, a, print, p)
  PROVE  LET gross == SilvToUsdcAtOracle(silv[h] - silv'[h], quoted')
         IN  /\ ~(silv'[h] > silv[h])
             /\ gross >= minOperation
             /\ Loss(h) >= 0
             /\ Loss(h) * BPS_DENOM >= p * gross * PRICE_SCALE_FACTOR
<1> DEFINE price == NormalizedPrice(print)
           gross == SilvToUsdcAtOracle(a, price)
           fee == FeeFromAmount(gross, p)
<1>1. /\ a \in Nat /\ gross \in Nat /\ fee \in Nat
      /\ fee * BPS_DENOM >= gross * p
      /\ gross * PRICE_SCALE_FACTOR <= a * price
  BY RedeemAmounts DEF MarketInvariant
<1>2. /\ a > 0 /\ gross >= minOperation
      /\ usdc' = [usdc EXCEPT ![h] = @ + (gross - fee)]
      /\ silv' = [silv EXCEPT ![h] = @ - a]
      /\ quoted' = price
  BY DEF RedeemSilv, PayOut, RecordPrice
<1>3. price \in Nat /\ PRICE_SCALE_FACTOR \in Nat /\ BPS_DENOM \in Nat /\ p \in Nat
  BY PrintIsTyped, ScalesArePositive DEF MarketInvariant
<1>s. gross = SilvToUsdcAtOracle(a, price)
  OBVIOUS
<1> HIDE DEF fee, price, gross
<1>4. /\ usdc[h] \in Nat /\ usdc'[h] = usdc[h] + (gross - fee)
      /\ silv[h] \in Nat /\ silv'[h] = silv[h] - a
  BY <1>2 DEF MarketInvariant, TypeOK
<1>5. /\ usdc[h] - usdc'[h] = fee - gross /\ silv[h] - silv'[h] = a
      /\ ~(silv'[h] > silv[h])
  BY <1>1, <1>2, <1>4
<1>6. Loss(h) = fee * PRICE_SCALE_FACTOR - gross * PRICE_SCALE_FACTOR + a * price
  BY <1>1, <1>2, <1>3, <1>5 DEF Loss
<1>7. Loss(h) \in Int /\ Loss(h) >= fee * PRICE_SCALE_FACTOR
  BY <1>1, <1>3, <1>6
<1>8. fee * PRICE_SCALE_FACTOR \in Nat
  BY <1>1, <1>3
<1>9. Loss(h) * BPS_DENOM >= (fee * PRICE_SCALE_FACTOR) * BPS_DENOM
  BY <1>3, <1>7, <1>8
<1>10. (fee * BPS_DENOM) * PRICE_SCALE_FACTOR >= (gross * p) * PRICE_SCALE_FACTOR
  BY <1>1, <1>3
<1>11. /\ (fee * PRICE_SCALE_FACTOR) * BPS_DENOM = (fee * BPS_DENOM) * PRICE_SCALE_FACTOR
       /\ p * gross * PRICE_SCALE_FACTOR = (gross * p) * PRICE_SCALE_FACTOR
  BY <1>1, <1>3
<1>12. Loss(h) * BPS_DENOM >= p * gross * PRICE_SCALE_FACTOR
  BY <1>1, <1>3, <1>7, <1>9, <1>10, <1>11
<1>13. SilvToUsdcAtOracle(silv[h] - silv'[h], quoted') = gross
  BY <1>2, <1>5, <1>s
<1>14. QED
  BY <1>2, <1>5, <1>7, <1>8, <1>12, <1>13

\* A wallet trades at its own expense: at the trade's price it is poorer by the
\* premium on at least the minimum operation, unless it is exempt then, so no
\* rounding, splitting or round trip pays (math.rs 41-110).
THEOREM NoTradeIsFree == Spec => TradesPayTheirPremium
<1> DEFINE Pays ==
      \A h \in Holders : Traded(h) =>
        LET side == IF silv'[h] > silv[h] THEN "mint" ELSE "redeem"
            size == IF side = "mint" THEN usdc[h] - usdc'[h]
                    ELSE SilvToUsdcAtOracle(silv[h] - silv'[h], quoted')
            bps == IF side = "mint" THEN PremiumMint ELSE PremiumRedeem
            loss == (usdc[h] - usdc'[h]) * PRICE_SCALE_FACTOR
                      + (silv[h] - silv'[h]) * quoted'
        IN  /\ size >= minOperation
            /\ loss >= 0
            /\ ~Exempts(h, side) => loss * BPS_DENOM >= bps * size * PRICE_SCALE_FACTOR
<1>1. MarketInvariant /\ [Next]_vars => [Pays]_vars
  <2> SUFFICES ASSUME MarketInvariant, Next PROVE Pays
    OBVIOUS
  <2> SUFFICES ASSUME NEW h \in Holders, Traded(h)
      PROVE  LET side == IF silv'[h] > silv[h] THEN "mint" ELSE "redeem"
                 size == IF side = "mint" THEN usdc[h] - usdc'[h]
                         ELSE SilvToUsdcAtOracle(silv[h] - silv'[h], quoted')
                 bps == IF side = "mint" THEN PremiumMint ELSE PremiumRedeem
             IN  /\ size >= minOperation
                 /\ Loss(h) >= 0
                 /\ ~Exempts(h, side) => Loss(h) * BPS_DENOM >= bps * size * PRICE_SCALE_FACTOR
    BY DEF Loss
  <2>1. PICK print \in Prints, k \in Holders, a \in Trades, p \in 0..BPS_DENOM :
          /\ ReadSilverPrice(print)
          /\ \/ MintSilv(k, a, print, p) /\ (~Exempts(k, "mint") => p = PremiumMint)
             \/ RedeemSilv(k, a, print, p) /\ (~Exempts(k, "redeem") => p = PremiumRedeem)
    BY OnlyTradesTrade, TradeIsMintOrRedeem
  <2>2. k = h
    BY <2>1 DEF Traded, MintSilv, RedeemSilv, PayIn, PayOut, MarketInvariant, TypeOK
  <2>3. CASE MintSilv(k, a, print, p) /\ (~Exempts(k, "mint") => p = PremiumMint)
    <3>1. /\ silv'[h] > silv[h] /\ usdc[h] - usdc'[h] = a
          /\ a >= minOperation /\ Loss(h) >= 0
          /\ Loss(h) * BPS_DENOM >= p * a * PRICE_SCALE_FACTOR
      BY <2>1, <2>2, <2>3, MintPays
    <3>2. QED
      BY <2>2, <2>3, <3>1
  <2>4. CASE RedeemSilv(k, a, print, p) /\ (~Exempts(k, "redeem") => p = PremiumRedeem)
    <3> DEFINE gross == SilvToUsdcAtOracle(silv[h] - silv'[h], quoted')
    <3>1. /\ ~(silv'[h] > silv[h])
          /\ gross >= minOperation /\ Loss(h) >= 0
          /\ Loss(h) * BPS_DENOM >= p * gross * PRICE_SCALE_FACTOR
      BY <2>1, <2>2, <2>4, RedeemPays
    <3>2. QED
      BY <2>2, <2>4, <3>1
  <2>5. QED
    BY <2>1, <2>3, <2>4
<1>2. QED
  BY <1>1, InvariantHolds, PTL DEF Spec, TradesPayTheirPremium
=============================================================================
