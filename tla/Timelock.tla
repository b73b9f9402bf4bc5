------------------------------ MODULE Timelock ------------------------------
(***************************************************************************)
(* The governance queue of dominion_silver_mint_v2: every setting that can *)
(* put value at risk is proposed into an account of its own, waits out the *)
(* admin timelock, and is then executed by the admin or cancelled by the   *)
(* admin or a guardian.  Three instant levers (close redemptions, close    *)
(* the public mint, tighten the redeem throttles) only move in the safe    *)
(* direction.  Sources: instructions/admin/{propose,execute,timelock,      *)
(* caps}.rs, instructions/emergency/pause.rs, state/{config,timelock}.rs.  *)
(*                                                                         *)
(* Each transaction is atomic on chain, so a handler is one action.  A     *)
(* queue account exists exactly while its nonce is in DOMAIN queue: both   *)
(* execute and cancel close the account.  A check its constant switches    *)
(* off is left out: PREMIUM_BPS_COMBINED_FLOOR, the least sum of the two   *)
(* premiums, is 0.                                                         *)
(***************************************************************************)
EXTENDS Integers, FiniteSets

CONSTANTS
  Kinds,         \* the TimelockActions this instance exercises
  Levels,        \* magnitudes offered as inputs: bps, USDC, seconds, feed ids
  Ceiling,       \* the policy ceiling on a magnitude (each field has its own)
  PublisherFloor,\* MIN_PUBLISHERS_FLOOR_HARD
  MinDelay,      \* ADMIN_TIMELOCK_MIN_SECONDS
  MaxDelay,      \* ADMIN_TIMELOCK_MAX_SECONDS
  MinWindow,     \* INSTANT_WINDOW_MIN_SECONDS
  MaxWindow,     \* INSTANT_WINDOW_MAX_SECONDS
  MaxActive,     \* MAX_ACTIVE_PROPOSALS
  Wallets,       \* inventory wallets, NoWallet (Pubkey::default) among them
  NoWallet,
  OracleInputs,  \* the OracleGuardsArgs offered to propose_set_oracle_guards
  RedeemInputs,  \* the RedeemLimitsArgs offered to the two redeem entry points
  InitConfigs,   \* configurations `initialize` may be asked to write
  MaxTreasury,   \* bound on the treasury balance
  Horizon,       \* bound on the clock
  NonceBound,    \* bound on next_timelock_nonce
  None           \* Option::None

AllKinds ==
  { "SetPremiumMint", "SetPremiumRedeem", "WithdrawUsdc", "SetTreasuryFloat",
    "SetOracleGuards", "UpdateMetadata", "SetComplianceMode", "SetPythFeed",
    "SetAdminTimelock", "SetRedeemLimits", "SetPublicMint",
    "SetInventoryWallet" }

\* oracle.staleness stands for the five guards that have a static range and
\* take part in no cross-field check: staleness, confidence, delta, decay, dust.
OracleGuards == [staleness : Nat, publishers : Nat, minPrice : Nat, maxPrice : Nat]
OracleGuardsArgs ==
  [ staleness : Nat \cup {None}, publishers : Nat \cup {None},
    minPrice : Nat \cup {None}, maxPrice : Nat \cup {None} ]

\* The two DEAD throttles (large_redeem_threshold, redeem_queue_delay) are
\* written but read by nothing, and are left out.
RedeemLimits == [budget : Nat, window : Nat, enabled : BOOLEAN]
RedeemLimitsArgs ==
  [ budget : Nat \cup {None}, window : Nat \cup {None},
    enabled : BOOLEAN \cup {None} ]

Config ==
  [ premiumMint : Nat, premiumRedeem : Nat, float : Nat, metadata : Nat,
    oracle : OracleGuards, compliance : BOOLEAN, feed : Nat, delay : Nat,
    redeem : RedeemLimits, publicMint : BOOLEAN, inventory : Wallets ]

ASSUME TimelockAssumption ==
  /\ Kinds \subseteq AllKinds
  /\ Levels \subseteq Nat
  /\ Ceiling \in Nat /\ PublisherFloor \in Nat
  /\ MinDelay \in Nat \ {0} /\ MaxDelay \in Nat /\ MinDelay <= MaxDelay
  /\ MinWindow \in Nat \ {0} /\ MaxWindow \in Nat
  /\ MaxActive \in Nat
  /\ NoWallet \in Wallets
  /\ None \notin Nat /\ None \notin BOOLEAN
  /\ OracleInputs \subseteq OracleGuardsArgs
  /\ RedeemInputs \subseteq RedeemLimitsArgs
  /\ InitConfigs \subseteq Config
  /\ MaxTreasury \in Nat /\ Horizon \in Nat /\ NonceBound \in Nat

VARIABLES
  now,              \* Clock::unix_timestamp
  paused,           \* config.paused
  cfg,              \* the settings the queue governs
  treasury,         \* balance of the treasury's USDC account
  brake,            \* is there an active guardian other than the admin?
  queue,            \* nonce -> the live TimelockQueueAccount
  pending,          \* kind -> config.pending_<kind>_nonce
  nextNonce,        \* config.next_timelock_nonce
  activeCount,      \* config.active_proposal_count
  mintPausedUntil   \* config.mint_paused_until

vars == << now, paused, cfg, treasury, brake, queue, pending, nextNonce,
           activeCount, mintPausedUntil >>
queueVars == << queue, pending, nextNonce, activeCount >>
envVars == << now, treasury, brake >>

Live == DOMAIN queue

Proposal(kind, data) ==
  [ kind |-> kind, data |-> data, scheduledAt |-> now,
    executableAt |-> now + cfg.delay ]

-----------------------------------------------------------------------------
(* What a proposal's argument must satisfy, and what it does.               *)

Given(arg, current) == IF arg = None THEN current ELSE arg
Within(arg, low, high) == arg # None => arg >= low /\ arg <= high

OracleOverlay(current, args) ==
  [ staleness  |-> Given(args.staleness, current.staleness),
    publishers |-> Given(args.publishers, current.publishers),
    minPrice   |-> Given(args.minPrice, current.minPrice),
    maxPrice   |-> Given(args.maxPrice, current.maxPrice) ]

\* The structural rails of the oracle guards; the last two conjuncts read the
\* EFFECTIVE band, an absent field keeping its current value.
OracleRails(current, args) ==
  /\ Within(args.staleness, 1, Ceiling)
  /\ args.publishers # None => args.publishers >= PublisherFloor
  /\ Within(args.minPrice, 0, Ceiling)
  /\ Within(args.maxPrice, 1, Ceiling)
  /\ LET band == OracleOverlay(current, args)
     IN  band.minPrice = 0 \/ band.minPrice < band.maxPrice

\* Execution asks it of the band that results, even if the top is not given.
HasTop(oracle) == oracle.maxPrice \in 1..Ceiling

RedeemOverlay(current, args) ==
  [ budget  |-> Given(args.budget, current.budget),
    window  |-> Given(args.window, current.window),
    enabled |-> Given(args.enabled, current.enabled) ]

RedeemCeilings(args) ==
  /\ args.budget # None => args.budget <= Ceiling
  /\ Within(args.window, MinWindow, MaxWindow)

\* Bug: the direction of the redemptions switch is not checked.
RedeemNumbersTighten(current, args) ==
  /\ args.budget # None => args.budget <= current.budget
  /\ args.window # None => args.window >= current.window

RedeemAllTighten(current, args) ==
  /\ args.budget # None => args.budget <= current.budget
  /\ args.window # None => args.window >= current.window
  /\ args.enabled # TRUE

\* Bug: cancelling anything disarms whatever the slot of its kind names.
DisarmWhateverIsArmed(slot, nonce) == slot # None /\ nonce # None

ShouldDisarm(slot, nonce) == slot = nonce

\* Bug: the account closes and the count stays.
ForgottenDecrement(n) == n

SaturatingDecrement(n) == IF n = 0 THEN 0 ELSE n - 1

\* What the go-live decision hashes; admin, silv_mint and guardian_count are
\* constant here (they belong to the guardian module).
ReadinessDigest(c) ==
  [ inventory |-> c.inventory, publicMint |-> c.publicMint,
    redemptions |-> c.redeem.enabled, publishers |-> c.oracle.publishers,
    feed |-> c.feed ]

-----------------------------------------------------------------------------
Init ==
  /\ now = 0
  /\ paused = TRUE
  /\ cfg \in { c \in InitConfigs :
                 /\ c.premiumMint <= Ceiling /\ c.premiumRedeem <= Ceiling
                 /\ c.feed # 0
                 /\ HasTop(c.oracle)
                 /\ c.delay >= MinDelay /\ c.delay <= MaxDelay
                 /\ c.inventory # NoWallet
                 /\ c.publicMint /\ c.redeem.enabled
                 /\ c.redeem.window >= MinWindow }
  /\ treasury = 0
  /\ brake = TRUE
  /\ queue = << >>
  /\ pending = [k \in AllKinds |-> None]
  /\ nextNonce = 0
  /\ activeCount = 0
  /\ mintPausedUntil = 0

(* The tail every propose_* handler shares: one armed proposal per kind, a  *)
(* cap on live accounts, a fresh nonce, and the account itself.             *)
Schedule(kind, data) ==
  /\ kind \in Kinds
  /\ pending[kind] = None
  /\ activeCount < MaxActive
  /\ nextNonce < NonceBound
  /\ nextNonce \notin Live
  /\ queue' = [ n \in Live \cup {nextNonce} |->
                  IF n = nextNonce THEN Proposal(kind, data) ELSE queue[n] ]
  /\ nextNonce' = nextNonce + 1
  /\ activeCount' = activeCount + 1
  /\ pending' = [pending EXCEPT ![kind] = nextNonce]
  /\ UNCHANGED << envVars, paused, cfg >>

ProposeSetPremiumMint(bps) ==
  /\ bps <= Ceiling
  /\ bps # cfg.premiumMint
  /\ Schedule("SetPremiumMint", bps)
  /\ mintPausedUntil' = now + cfg.delay

ProposeSetPremiumRedeem(bps) ==
  /\ bps <= Ceiling
  /\ bps # cfg.premiumRedeem
  /\ Schedule("SetPremiumRedeem", bps)
  /\ UNCHANGED mintPausedUntil

ProposeWithdrawUsdc(amount) ==
  /\ amount > 0
  /\ Schedule("WithdrawUsdc", amount)
  /\ UNCHANGED mintPausedUntil

\* Bug: opening an open mint may be proposed.
ProposeOpenMintAnytime ==
  /\ Schedule("SetPublicMint", TRUE)
  /\ UNCHANGED mintPausedUntil

ProposeSetPublicMint ==
  /\ ~cfg.publicMint
  /\ Schedule("SetPublicMint", TRUE)
  /\ UNCHANGED mintPausedUntil

ProposeSetInventoryWallet(wallet) ==
  /\ wallet # NoWallet
  /\ wallet # cfg.inventory
  /\ Schedule("SetInventoryWallet", wallet)
  /\ UNCHANGED mintPausedUntil

ProposeSetComplianceMode(mode) ==
  /\ mode # cfg.compliance
  /\ Schedule("SetComplianceMode", mode)
  /\ UNCHANGED mintPausedUntil

\* Bug: each guard is validated alone, not against the band it leads to.
ProposeOracleGuardsFieldwise(args) ==
  /\ Within(args.staleness, 1, Ceiling)
  /\ OracleOverlay(cfg.oracle, args) # cfg.oracle
  /\ Schedule("SetOracleGuards", args)
  /\ UNCHANGED mintPausedUntil

ProposeSetOracleGuards(args) ==
  /\ OracleRails(cfg.oracle, args)
  /\ OracleOverlay(cfg.oracle, args) # cfg.oracle
  /\ Schedule("SetOracleGuards", args)
  /\ UNCHANGED mintPausedUntil

ProposeSetRedeemLimits(args) ==
  /\ RedeemCeilings(args)
  /\ RedeemOverlay(cfg.redeem, args) # cfg.redeem
  /\ Schedule("SetRedeemLimits", args)
  /\ UNCHANGED mintPausedUntil

ProposeSetTreasuryMinFloat(float) ==
  /\ float <= Ceiling
  /\ float # cfg.float
  /\ Schedule("SetTreasuryFloat", float)
  /\ UNCHANGED mintPausedUntil

ProposeSetAdminTimelock(seconds) ==
  /\ seconds >= MinDelay /\ seconds <= MaxDelay
  /\ seconds # cfg.delay
  /\ Schedule("SetAdminTimelock", seconds)
  /\ UNCHANGED mintPausedUntil

ProposeSetPythFeed(feed) ==
  /\ feed # 0
  /\ feed # cfg.feed
  /\ Schedule("SetPythFeed", feed)
  /\ UNCHANGED mintPausedUntil

\* metadata is the identity of the (name, symbol, uri) triple; 0 is a blank
\* field, which validate_metadata_args refuses.  Proposing the current text is
\* allowed.
ProposeUpdateMetadata(metadata) ==
  /\ metadata # 0
  /\ Schedule("UpdateMetadata", metadata)
  /\ UNCHANGED mintPausedUntil

-----------------------------------------------------------------------------
(* The shared frame of every execute_* handler: the account is live and of  *)
(* this kind, the config's slot still names it, the timelock has elapsed;   *)
(* then the slot, the count and the account go away together.               *)
Consume(n, kind) ==
  /\ n \in Live
  /\ queue[n].kind = kind
  /\ pending[kind] = n
  /\ now >= queue[n].executableAt
  /\ pending' = [pending EXCEPT ![kind] = None]
  /\ activeCount' = SaturatingDecrement(activeCount)
  /\ queue' = [m \in Live \ {n} |-> queue[m]]
  /\ UNCHANGED << now, brake, nextNonce >>

ExecuteSetPremiumMint(n) ==
  /\ Consume(n, "SetPremiumMint")
  /\ queue[n].data <= Ceiling
  /\ cfg' = [cfg EXCEPT !.premiumMint = queue[n].data]
  /\ mintPausedUntil' = 0
  /\ UNCHANGED << paused, treasury >>

ExecuteSetPremiumRedeem(n) ==
  /\ Consume(n, "SetPremiumRedeem")
  /\ queue[n].data <= Ceiling
  /\ cfg' = [cfg EXCEPT !.premiumRedeem = queue[n].data]
  /\ UNCHANGED << paused, treasury, mintPausedUntil >>

ExecuteWithdrawUsdc(n) ==
  /\ Consume(n, "WithdrawUsdc")
  /\ ~paused
  /\ queue[n].data > 0
  /\ treasury >= queue[n].data
  /\ treasury - queue[n].data >= cfg.float
  /\ treasury' = treasury - queue[n].data
  /\ UNCHANGED << paused, cfg, mintPausedUntil >>

ExecuteSetComplianceMode(n) ==
  /\ Consume(n, "SetComplianceMode")
  /\ queue[n].data # cfg.compliance
  /\ cfg' = [cfg EXCEPT !.compliance = queue[n].data]
  /\ paused' = TRUE
  /\ UNCHANGED << treasury, mintPausedUntil >>

ExecuteSetOracleGuards(n) ==
  /\ Consume(n, "SetOracleGuards")
  /\ OracleRails(cfg.oracle, queue[n].data)
  /\ HasTop(OracleOverlay(cfg.oracle, queue[n].data))
  /\ cfg' = [cfg EXCEPT !.oracle = OracleOverlay(cfg.oracle, queue[n].data)]
  /\ paused' = TRUE
  /\ UNCHANGED << treasury, mintPausedUntil >>

\* Bug: matured limits execute while the program is paused.
ExecuteRedeemLimitsWhilePaused(n) ==
  /\ Consume(n, "SetRedeemLimits")
  /\ RedeemCeilings(queue[n].data)
  /\ cfg' = [cfg EXCEPT !.redeem = RedeemOverlay(cfg.redeem, queue[n].data)]
  /\ UNCHANGED << paused, treasury, mintPausedUntil >>

\* Direction is deliberately not checked again: only the ceilings are.
ExecuteSetRedeemLimits(n) ==
  /\ Consume(n, "SetRedeemLimits")
  /\ ~paused
  /\ RedeemCeilings(queue[n].data)
  /\ cfg' = [cfg EXCEPT !.redeem = RedeemOverlay(cfg.redeem, queue[n].data)]
  /\ UNCHANGED << paused, treasury, mintPausedUntil >>

ExecuteSetTreasuryMinFloat(n) ==
  /\ Consume(n, "SetTreasuryFloat")
  /\ queue[n].data <= Ceiling
  /\ cfg' = [cfg EXCEPT !.float = queue[n].data]
  /\ UNCHANGED << paused, treasury, mintPausedUntil >>

ExecuteSetAdminTimelock(n) ==
  /\ Consume(n, "SetAdminTimelock")
  /\ queue[n].data >= MinDelay /\ queue[n].data <= MaxDelay
  /\ cfg' = [cfg EXCEPT !.delay = queue[n].data]
  /\ UNCHANGED << paused, treasury, mintPausedUntil >>

ExecuteSetInventoryWallet(n) ==
  /\ Consume(n, "SetInventoryWallet")
  /\ ~paused
  /\ queue[n].data # NoWallet
  /\ queue[n].data # cfg.inventory
  /\ cfg' = [cfg EXCEPT !.inventory = queue[n].data]
  /\ UNCHANGED << paused, treasury, mintPausedUntil >>

ExecuteSetPublicMint(n) ==
  /\ Consume(n, "SetPublicMint")
  /\ ~paused
  /\ queue[n].data = TRUE
  /\ ~cfg.publicMint
  /\ cfg' = [cfg EXCEPT !.publicMint = TRUE]
  /\ UNCHANGED << paused, treasury, mintPausedUntil >>

\* Bug: a new feed goes live at once.
ExecutePythFeedLive(n) ==
  /\ Consume(n, "SetPythFeed")
  /\ queue[n].data # 0
  /\ cfg' = [cfg EXCEPT !.feed = queue[n].data]
  /\ UNCHANGED << paused, treasury, mintPausedUntil >>

ExecuteSetPythFeed(n) ==
  /\ Consume(n, "SetPythFeed")
  /\ queue[n].data # 0
  /\ cfg' = [cfg EXCEPT !.feed = queue[n].data]
  /\ paused' = TRUE
  /\ UNCHANGED << treasury, mintPausedUntil >>

ExecuteUpdateMetadata(n) ==
  /\ Consume(n, "UpdateMetadata")
  /\ queue[n].data # 0
  /\ cfg' = [cfg EXCEPT !.metadata = queue[n].data]
  /\ UNCHANGED << paused, treasury, mintPausedUntil >>

-----------------------------------------------------------------------------
\* Bug: only cancelling an armed proposal lowers the count.
CancelCountingArmedOnly(n) ==
  /\ n \in Live
  /\ LET kind == queue[n].kind
         mine == ShouldDisarm(pending[kind], n)
     IN  /\ pending' = IF mine THEN [pending EXCEPT ![kind] = None] ELSE pending
         /\ mintPausedUntil' = IF mine /\ kind = "SetPremiumMint"
                                 THEN 0 ELSE mintPausedUntil
         /\ activeCount' = IF mine THEN SaturatingDecrement(activeCount) ELSE activeCount
  /\ queue' = [m \in Live \ {n} |-> queue[m]]
  /\ UNCHANGED << envVars, paused, cfg, nextNonce >>

\* Bug: cancelling the premium change leaves the mint frozen.
CancelLeavingFreeze(n) ==
  /\ n \in Live
  /\ pending' = IF ShouldDisarm(pending[queue[n].kind], n)
                  THEN [pending EXCEPT ![queue[n].kind] = None] ELSE pending
  /\ activeCount' = SaturatingDecrement(activeCount)
  /\ queue' = [m \in Live \ {n} |-> queue[m]]
  /\ UNCHANGED << envVars, paused, cfg, nextNonce, mintPausedUntil >>

(* Cancelling: the admin or a guardian, at any time, for any live account.  *)
(* The slot is cleared only if it still names this nonce, so cancelling an  *)
(* orphan leaves the proposal that replaced it armed.                       *)
CancelTimelocked(n) ==
  /\ n \in Live
  /\ LET kind == queue[n].kind
         mine == ShouldDisarm(pending[kind], n)
     IN  /\ pending' = IF mine THEN [pending EXCEPT ![kind] = None] ELSE pending
         /\ mintPausedUntil' = IF mine /\ kind = "SetPremiumMint"
                                 THEN 0 ELSE mintPausedUntil
  /\ activeCount' = SaturatingDecrement(activeCount)
  /\ queue' = [m \in Live \ {n} |-> queue[m]]
  /\ UNCHANGED << envVars, paused, cfg, nextNonce >>

\* Bug: closing redemptions leaves a pending reopening armed.
CloseWithoutDisarming ==
  /\ cfg.redeem.enabled
  /\ cfg' = [cfg EXCEPT !.redeem.enabled = FALSE]
  /\ UNCHANGED << envVars, paused, queueVars, mintPausedUntil >>

\* Bug: "no proposal" is written as nonce 0.
CloseDisarmingToZero ==
  /\ cfg.redeem.enabled
  /\ cfg' = [cfg EXCEPT !.redeem.enabled = FALSE]
  /\ pending' = [pending EXCEPT !["SetRedeemLimits"] = 0]
  /\ UNCHANGED << envVars, paused, queue, nextNonce, activeCount, mintPausedUntil >>

(* The instant levers.  Closing redemptions disarms a pending redeem-limits *)
(* proposal but leaves its account alive: an orphan, which counts against   *)
(* MaxActive until somebody cancels it.                                     *)
SetRedemptionsEnabled ==
  /\ cfg.redeem.enabled
  /\ cfg' = [cfg EXCEPT !.redeem.enabled = FALSE]
  /\ pending' = [pending EXCEPT !["SetRedeemLimits"] = None]
  /\ UNCHANGED << envVars, paused, queue, nextNonce, activeCount, mintPausedUntil >>

SetPublicMintEnabled ==
  /\ cfg.publicMint
  /\ cfg' = [cfg EXCEPT !.publicMint = FALSE]
  /\ pending' = [pending EXCEPT !["SetPublicMint"] = None]
  /\ UNCHANGED << envVars, paused, queue, nextNonce, activeCount, mintPausedUntil >>

EmergencyTightenRedeemLimits(args) ==
  /\ RedeemCeilings(args)
  /\ RedeemAllTighten(cfg.redeem, args)
  /\ RedeemOverlay(cfg.redeem, args) # cfg.redeem
  /\ cfg' = [cfg EXCEPT !.redeem = RedeemOverlay(cfg.redeem, args)]
  /\ pending' = IF args.enabled # None
                  THEN [pending EXCEPT !["SetRedeemLimits"] = None] ELSE pending
  /\ UNCHANGED << envVars, paused, queue, nextNonce, activeCount, mintPausedUntil >>

Pause ==
  /\ paused' = TRUE
  /\ UNCHANGED << envVars, cfg, queueVars, mintPausedUntil >>

Unpause(expectedDigest) ==
  /\ brake
  /\ expectedDigest = ReadinessDigest(cfg)
  /\ paused' = FALSE
  /\ UNCHANGED << envVars, cfg, queueVars, mintPausedUntil >>

-----------------------------------------------------------------------------
(* The environment: the clock, the guardian set, and the token movements    *)
(* (mint, redeem, deposit, fees, or anybody's transfer) of the treasury.    *)
Tick ==
  /\ now < Horizon
  /\ now' = now + 1
  /\ UNCHANGED << paused, cfg, treasury, brake, queueVars, mintPausedUntil >>

GuardianSetChanges ==
  /\ brake' = ~brake
  /\ UNCHANGED << now, treasury, paused, cfg, queueVars, mintPausedUntil >>

TreasuryFlow ==
  /\ treasury' \in 0..MaxTreasury
  /\ UNCHANGED << now, brake, paused, cfg, queueVars, mintPausedUntil >>

-----------------------------------------------------------------------------
Propose ==
  \/ \E v \in Levels :
       \/ ProposeSetPremiumMint(v)
       \/ ProposeSetPremiumRedeem(v)
       \/ ProposeWithdrawUsdc(v)
       \/ ProposeSetTreasuryMinFloat(v)
       \/ ProposeSetAdminTimelock(v)
       \/ ProposeSetPythFeed(v)
       \/ ProposeUpdateMetadata(v)
  \/ ProposeSetPublicMint
  \/ \E w \in Wallets : ProposeSetInventoryWallet(w)
  \/ \E mode \in BOOLEAN : ProposeSetComplianceMode(mode)
  \/ \E args \in OracleInputs : ProposeSetOracleGuards(args)
  \/ \E args \in RedeemInputs : ProposeSetRedeemLimits(args)

Execute(n) ==
  \/ ExecuteSetPremiumMint(n)
  \/ ExecuteSetPremiumRedeem(n)
  \/ ExecuteWithdrawUsdc(n)
  \/ ExecuteSetComplianceMode(n)
  \/ ExecuteSetOracleGuards(n)
  \/ ExecuteSetRedeemLimits(n)
  \/ ExecuteSetTreasuryMinFloat(n)
  \/ ExecuteSetAdminTimelock(n)
  \/ ExecuteSetInventoryWallet(n)
  \/ ExecuteSetPublicMint(n)
  \/ ExecuteSetPythFeed(n)
  \/ ExecuteUpdateMetadata(n)

Levers ==
  \/ SetRedemptionsEnabled
  \/ SetPublicMintEnabled
  \/ \E args \in RedeemInputs : EmergencyTightenRedeemLimits(args)
  \/ Pause

Environment == Tick \/ GuardianSetChanges \/ TreasuryFlow

QueueNext == Propose \/ \E n \in Live : Execute(n) \/ CancelTimelocked(n)

\* Whoever builds an unpause may read the digest of the moment.
Next == QueueNext \/ Levers \/ Unpause(ReadinessDigest(cfg)) \/ Environment

Spec == Init /\ [][Next]_vars
-----------------------------------------------------------------------------
(* Type correctness.                                                        *)

\* The argument a queued proposal carries has the shape its kind decodes.
DataFits(kind, data) ==
  CASE kind = "SetOracleGuards"    -> data \in OracleGuardsArgs
    [] kind = "SetRedeemLimits"    -> data \in RedeemLimitsArgs
    [] kind = "SetInventoryWallet" -> data \in Wallets
    [] kind \in {"SetComplianceMode", "SetPublicMint"} -> data \in BOOLEAN
    [] OTHER -> data \in Nat

\* Every variable has its type; in particular each stored action_data decodes
\* as the arguments of its own kind (TimelockQueueAccount, ConfigAccount).
TypeOK ==
  /\ now \in Nat
  /\ paused \in BOOLEAN
  /\ cfg \in Config
  /\ treasury \in Nat
  /\ brake \in BOOLEAN
  /\ Live \subseteq Nat
  /\ \A n \in Live :
       /\ queue[n].kind \in Kinds
       /\ DataFits(queue[n].kind, queue[n].data)
       /\ queue[n].scheduledAt \in Nat
       /\ queue[n].executableAt \in Nat
  /\ pending \in [AllKinds -> Nat \cup {None}]
  /\ nextNonce \in Nat
  /\ activeCount \in Nat
  /\ mintPausedUntil \in Nat

-----------------------------------------------------------------------------
(* Safety.                                                                  *)

\* active_proposal_count is exactly the number of live queue accounts, orphans
\* included, so the saturating decrements of execute and cancel never saturate
\* and the cap bounds real accounts (propose.rs, execute.rs, timelock.rs).
CountIsAccounts ==
  /\ activeCount = Cardinality(Live)
  /\ activeCount <= MaxActive

\* A pending_<kind>_nonce slot always names a live account of its own kind: no
\* slot dangles, which would block that kind of proposal for ever, and no slot
\* lets the handler of one kind consume a proposal of another.
SlotsNameLiveProposals ==
  \A kind \in AllKinds : pending[kind] # None =>
    /\ pending[kind] \in Live
    /\ queue[pending[kind]].kind = kind

\* The only live account no slot names is a redeem-limits proposal that an
\* emergency close disarmed (caps.rs 134-157, 339-354); every other lever and
\* cancellation releases slot and account together.
OrphansAreRedeemLimits ==
  \A n \in Live :
    pending[queue[n].kind] # n => queue[n].kind = "SetRedeemLimits"

\* A pending proposal to open the public mint and an open public mint exclude
\* each other, which is why closing never disarms a live open (the claim of the
\* comment at caps.rs 187-196).
PendingOpenMeansMintClosed ==
  pending["SetPublicMint"] # None => ~cfg.publicMint

\* mint_paused_until is the executable time of the armed mint-premium proposal
\* and zero when there is none: nobody mints at the old premium against an
\* announced change, and no cancellation or execution of another proposal lifts
\* or prolongs the freeze (propose.rs 92, execute.rs 81, timelock.rs 100-108).
MintFrozenWhilePremiumPending ==
  mintPausedUntil = IF pending["SetPremiumMint"] = None THEN 0
                    ELSE queue[pending["SetPremiumMint"]].executableAt

\* No armed proposal is doomed: what execute_* validates again at the end of the
\* timelock still holds of every queued argument, whatever was executed,
\* tightened or cancelled in between.  Only a pause, or a treasury too small
\* for a withdrawal, can make the execution of a matured proposal fail.
ArmedStaysExecutable ==
  \A n \in Live : pending[queue[n].kind] = n =>
    LET data == queue[n].data
    IN  CASE queue[n].kind = "SetComplianceMode"  -> data # cfg.compliance
          [] queue[n].kind = "SetInventoryWallet" -> data \notin {NoWallet, cfg.inventory}
          [] queue[n].kind = "SetPublicMint"      -> data = TRUE /\ ~cfg.publicMint
          [] queue[n].kind = "SetOracleGuards"    ->
               OracleRails(cfg.oracle, data) /\ HasTop(OracleOverlay(cfg.oracle, data))
          [] queue[n].kind = "SetRedeemLimits"    -> RedeemCeilings(data)
          [] queue[n].kind = "SetAdminTimelock"   -> data >= MinDelay /\ data <= MaxDelay
          [] queue[n].kind \in {"SetPythFeed", "UpdateMetadata"} -> data # 0
          [] queue[n].kind = "WithdrawUsdc"       -> data > 0
          [] OTHER                                -> data <= Ceiling

\* Every timelock in force, and every queued one, is at least the minimum, and
\* every live proposal waits at least that long from when it was announced
\* (propose.rs 62-90 and 911-971).
NoticeIsGuaranteed ==
  /\ cfg.delay >= MinDelay
  /\ \A n \in Live :
       /\ queue[n].executableAt >= queue[n].scheduledAt + MinDelay
       /\ queue[n].kind = "SetAdminTimelock" => queue[n].data >= MinDelay

\* The inductive invariant behind the theorems of TimelockProofs.  The parts
\* lean on each other: the count is exact only while slots name live accounts,
\* and notice needs every queued timelock to respect the minimum.
QueueInvariant ==
  /\ TypeOK
  /\ IsFiniteSet(Live)
  /\ CountIsAccounts
  /\ SlotsNameLiveProposals
  /\ NoticeIsGuaranteed
  /\ MintFrozenWhilePremiumPending
  /\ PendingOpenMeansMintClosed
  /\ OrphansAreRedeemLimits

-----------------------------------------------------------------------------
(* What a step may never do.                                                *)

Loosens(old, new) ==
  \/ new.budget > old.budget
  \/ new.window < old.window
  \/ new.enabled /\ ~old.enabled

\* The changes the instant levers may make: close the mint, tighten the redeem
\* throttles, and nothing else.
OnlyTightens(old, new) ==
  /\ new = [old EXCEPT !.publicMint = new.publicMint, !.redeem = new.redeem]
  /\ new.publicMint => old.publicMint
  /\ ~Loosens(old.redeem, new.redeem)

Matured(n) ==
  /\ pending[queue[n].kind] = n
  /\ now >= queue[n].scheduledAt + MinDelay

\* A governed setting changes in a direction the instant levers do not allow
\* only by consuming an armed proposal that was announced at least the minimum
\* timelock ago, even when the timelock itself was shortened in between.
NoChangeWithoutNotice ==
  [][ OnlyTightens(cfg, cfg') \/ \E n \in Live \ Live' : Matured(n) ]_vars

\* A proposal that lost its slot never gets it back: nonces are not reused, so a
\* disarmed proposal can only be cancelled (execute.rs 683-692).
DisarmIsFinal ==
  [][ \A n \in Live :
        pending[queue[n].kind] # n => pending'[queue[n].kind] # n ]_vars

\* A slot is only ever emptied, and only together with its own account (execute
\* or cancel) or, for redeem limits, by a lever that leaves redemptions closed and
\* touches no account.  Cancelling an orphan or executing another proposal never
\* wipes the slot of a live one, whether or not redemptions were reopened in
\* between (timelock.rs 84-97).
SlotReleasedByItsOwnFate ==
  [][ \A kind \in AllKinds :
        (pending[kind] # None /\ pending'[kind] # pending[kind]) =>
          /\ pending'[kind] = None
          /\ \/ pending[kind] \notin Live'
             \/ kind = "SetRedeemLimits" /\ Live' = Live /\ ~cfg'.redeem.enabled ]_vars

\* While paused nothing that opens an exposure lands: the inventory wallet, the
\* redeem throttles and the public mint stay as they are or tighten, however
\* long ago their proposals matured (execute.rs 694-697, 982-984, 1042-1046).
PauseHoldsExposure ==
  [][ paused => /\ cfg'.inventory = cfg.inventory
                /\ cfg'.publicMint => cfg.publicMint
                /\ ~Loosens(cfg.redeem, cfg'.redeem) ]_vars

\* A change of what prices are computed from (oracle guards, feed) or of the
\* compliance mode always leaves the program paused (execute.rs 456-465).
PriceInputsLandPaused ==
  [][ \/ paused'
      \/ /\ cfg'.oracle = cfg.oracle
         /\ cfg'.feed = cfg.feed
         /\ cfg'.compliance = cfg.compliance ]_vars

=============================================================================
