# Dominion Silver Mint: formal models

TLA+ models of `programs/dominion_silver_mint_v2`, the Solana program that mints and redeems a
silver-backed token (SILV) against USDC, with the TLC configurations that check them on small
instances and TLAPS proofs that hold for every value of the constants.

Paths below are relative to `programs/dominion_silver_mint_v2/src/` unless they start at the
repository root.

## 1. Inventory

A Solana transaction is atomic: a handler that returns an error leaves no trace, and two
transactions that write the same account are serialized. So one handler is one action, and the
hard behaviours are never inside a handler. They are in what happens *between* transactions: a
decision taken on a state that has moved, two roles acting in an unforeseen order, a clock that
runs on (or back), a counter that drifts, a setting validated a day before it is applied.

| Component | State it keeps | Operations | Talks to | Hard part | What makes it correct |
|---|---|---|---|---|---|
| **Governance queue** `instructions/admin/{propose,execute,timelock}.rs`, `state/timelock.rs` | one account per proposal; in `ConfigAccount` a `pending_*_nonce` slot per kind, `next_timelock_nonce`, `active_proposal_count`, `mint_paused_until` | 12 `propose_*`, 12 `execute_*`, `cancel_timelocked_action` | writes every timelocked setting; reads `paused` | arguments validated at proposal are applied at least a day later; orphans; slots and counts updated by hand in 25 handlers | slots name live accounts of their kind; the count is exact; nothing loosens without notice; a disarmed proposal stays dead |
| **Instant levers** `admin/caps.rs`, `emergency/pause.rs` | `redemptions_enabled`, `public_mint_enabled`, redeem throttles, `paused` | close redemptions, close public mint, tighten throttles, pause, unpause; supply cap and minimum operation | disarm slots of the queue | may only move in the safe direction; leave orphans behind | no lever loosens; a close is not undone by an older decision |
| **Unpause readiness** `state/config.rs` `readiness_digest`, `emergency/pause.rs`, `apps/admin/src/lib/readiness-digest.ts` | the digest inside a multisig proposal | read and build; execute later | the whole config | time between check and use | what goes live was reviewed |
| **Guardians** `admin/guardian.rs`, `state/guardian.rs` | a `GuardianAccount` per key; `guardian_count`, `pending_removal_count` | add, remove (notice), finalize (anybody), cancel (three callers) | cancel proposals, pause; required by unpause | expiry and re-arming, counters moved at four sites, permissionless calls | nobody is evicted without notice; somebody stays; one veto |
| **Admin transfer** `admin/transfer.rs` | `pending_admin`, its eta and expiry | propose, accept, cancel | decides who `admin` is; a guardian may become it | window races, roles merging | only the announced candidate, after the timelock, inside the window |
| **Redemption limiter** `state/redeem_window.rs`, `instructions/redeem_silv.rs` 237-284 | `instant_window_start`, `instant_used_usdc`, `instant_used_prev_usdc`; budget and window | roll and commit on each redemption; limits changed by queue and lever | limits come from the queue | bucket boundaries, clock skew, limits changed under the buckets | a rate is bounded; waiting never hurts; tightening never frees |
| **Mint, redeem, treasury** `instructions/{mint_silv,redeem_silv,deposit_usdc}.rs`, `admin/premint.rs`, `cpi.rs` | SILV supply, treasury and fee vault balances, supply cap, minimum operation | mint, redeem, deposit, pre-mint, withdraw, sweep, lower the cap | limiter, oracle, KYC, fees | two legs, supply cap against concurrent lowering, float | supply within the cap; trades backed at their price; a wallet pays what it signed for; the float binds the admin and never a redeemer |
| **Price policy** `oracle.rs`, `lazer_price.rs` | `last_used_feed_update_timestamp_us`, `last_recorded_price_scaled`, `last_price_update_at` | read price, delta check, record price | Lazer CPI; mint and redeem | one print serves one operation; breaker decay and dust filter | no print is used twice; the reference moves only by a real trade |
| **Arithmetic** `math.rs` | none | fee, conversions | mint, redeem | rounding and width | dust goes to the protocol; no round trip profits |
| **Lazer payload and CPI** `lazer.rs`, `lazer_cpi.rs` | none (a fee payer PDA) | verify, parse | external program | adversarial bytes | fails closed |
| **KYC gate** `state/kyc.rs`, `admin/kyc_admin.rs`, `state/side.rs` | an account per attested wallet; scope flags, count, operator | operator, scope, attest, revoke | mint and redeem; admin transfer | counter against accounts, disarm by ordering, role separation | an armed gate has a roster; count exact |
| **Fees** `state/fee_exempt.rs`, `admin/fee_whitelist.rs` | an account per exempt wallet, routing switch | grant, remove, sweep, routing | mint and redeem; treasury float | expiry, routing flipped between quotes | premium always charged; sweep only above the float |
| **Initialization** `instructions/initialize.rs` | writes everything once | initialize | - | none after it ran | its result is the models' `Init` |
| **Envelope service, submit flow** `apps/public/src/app/api/lazer/route.ts`, `apps/public/src/lib/lazer-execute.ts` | cache, claim mark, token bucket and the call in flight of one server instance | answer a banner, answer a submitter, call upstream, retry | Pyth upstream; a print it hands out is spent on chain | waiters, joins and retries across awaits; failing upstream; claims | one page per print believes it is alone; calls are paid once and due; everybody is answered |
| Admin client, scripts, harnesses (`apps/admin`, `scripts/`, `tools/`) | none that outlives a call, except the readiness digest | build transactions, check releases | the program | - | - |

## 2. Modules

```
Timelock ----- TimelockHistory --- MCTimelockHistory      (queue, levers, pause)
   |  \------- MCTimelock --------- MCReadiness
   |  \------- Readiness ----------/                       (decision to unpause)
   \---------- TimelockProofs ----- ExposureProofs         (TLAPS; all three modules above)
GuardianSet -- GuardianHistory --- MCGuardianSet          (guardians, admin transfer)
                                 \- GuardianProofs         (TLAPS)
RateLimit <=== RedeemWindow ------ RedeemWindowProofs      (limiter refines a rate; TLAPS)
                    | INSTANCE
PricingMath -- OraclePolicy -- Market -- MCMarket          (trades and treasury)
                                 \------ MarketProofs      (TLAPS)
KycGate ------ KycGateProofs                               (roster, scope, attestor; TLAPS)
LazerProxy --- LazerProxyProofs                            (envelope service, off chain; TLAPS)
SumLemmas                                                  (sums over finite sets; for the
                                                            limiter's proofs)
```

### Timelock
The queue with all twelve kinds of proposal, the levers, pause and unpause.

* `queue` maps a nonce to its account; an account exists exactly while its nonce is in the domain,
  because both `execute_*` and `cancel` close it. `pending` is the function from kinds to the
  twelve `pending_*_nonce` fields. `cfg` is the part of `ConfigAccount` the queue governs.
* Each `propose_*` is its own checks and then `Schedule`, the tail that all twelve share line for
  line. Each `execute_*` is `Consume` (account live, kind, slot, elapsed; slot, count and account
  released) and then its own checks, the re-validation of the queued argument included, and writes. `CancelTimelocked` clears the slot only if it still
  names the nonce.
* Abstracted data: magnitudes are members of `Levels` against one `Ceiling` (each field has a
  ceiling of its own in the code); `oracle.staleness` stands for the five guards that have a static
  range and take part in no cross-field check; metadata is an identity; the two throttles marked
  DEAD in `state/config.rs` are left out. The admin's signature is implied by the operation; cancel
  and pause are allowed to admin or guardian, so they are always possible.
* `brake` (an active guardian other than the admin exists) and `treasury` change freely: who the
  guardians are is GuardianSet's subject, and token flows are Market's.

### TimelockHistory, Readiness
TimelockHistory adds when redemptions were last closed, which no action reads, to state that a
reopening is younger than the close. Readiness adds the multisig proposal: `BuildUnpause` reads the
config, any queue and lever action may follow, `ExecuteApprovedUnpause` compares digests. The
ordinary `Unpause` with a digest of the moment is replaced by it.

### GuardianSet, GuardianHistory
Keys are interchangeable. `account[key]` is the guardian PDA, never closed by the code. Times are
absolute and start at 1 because 0 is the code's "unset". `AdminTimelockChanges` is the effect of the
queue on the notice length. GuardianHistory records when notices and candidates were announced and
how often a guardian vetoed.

### RateLimit, RedeemWindow
RateLimit is the promise: any `d` seconds pay at most `Budget + ceil(Budget*(d-1)/Window)`. It knows
nothing of buckets, and its `Allowance` stands for no line of code: it is what the rate in the header of
`redeem_window.rs` comes to when seconds are counted. RedeemWindow is `roll_window` (`Rolled`, `WeightedPrev`, `EffectiveUsed`) and the
commit of `redeem_silv`. `KeepsTheRate` is the refinement, with `now` and the ledger `paid` mapped by
name. Every other check of a redemption can only refuse it, so any outflow within the budget is
offered at every instant. `SteadySpec` is what the promise is about (time, redemptions, the
tightening lever); `Spec` adds timelocked changes and a clock set back.

### PricingMath, OraclePolicy, Market
PricingMath is `math.rs`, OraclePolicy the conditions under which a print prices an operation, both
pure operators. The scale of a mantissa is a power of `EXPONENT_BASE`, ten in the code, and decimals
the program does not keep are cut off. Market is the economy: `MintSilv` and `RedeemSilv` are the
whole handlers (pause and switch, price, fee, cap, limiter, both legs, the mark of the print and the
breaker's reference), with pre-mint, deposits, withdrawals, sweeps, the cap, the minimum operation,
routing and exemptions. The limiter inside a redemption is not written again: `Limiter` instantiates
RedeemWindow, and `PayOut` takes its `Debit`. `PayIn` and `PayOut` are the USDC legs of a mint and of a
redemption: an account moves by the sum of the transfers that name it, as the token program moves it.
A sweep goes to any account, the treasury included (`toTreasury`). A caller submits any print of the feed of any age, and
may leave its exemption account out. `Govern` is what the queue, the levers and the pause do to the
gates and to the float; the premiums and the oracle guards are constants, because a change of either
happens with trades stopped (`PriceInputsLandPaused`, `MintFrozenWhilePremiumPending`), except that
of the redemption premium, which only changes what is owed from then on. `quoted` records the price
of the last trade and no action reads it.

### KycGate
An approval is an account that exists, so `attested` is a set. `RevokeKyc` has the whole resolution:
count, disarm rule, scope and the panel's `enforced` in one step. `AcceptAdminTransfer` stands for
the handover of GuardianSet and may install any key, the attestor's included. `signed` records who
signed the last step and with what consent, for `GateDropsByAdmin`.

### LazerProxy
One server instance in JavaScript's terms: a segment between two awaits is an action. `Handle` runs
from the request to its first await or answer, `ResumeShared` and `ResumeCreated` from the two awaits
on. A promise that settles wakes everybody who waits for it (`ClearInflight`, with the creator's
`.finally`), and who is awake resumes in any order before the clock moves. `Ask`, `Serve` and `Refuse`
include the page's side: `claimEnvelope` sleeps and asks again while its print is contended, and
keeps what it has when a retry fails. The upstream answers, fails or runs into its timeout as it
likes, and may send a print without a usable timestamp.

## 3. What the runs show

| Run | Module, cfg | Question |
|---|---|---|
| `timelock_redeem` | MCTimelockHistory, TimelockRedeem.cfg | the kinds the levers interact with and the timelock itself: bookkeeping, orphans, freeze, notice, closes that stay closed |
| `timelock_rest` | MCTimelock, TimelockRest.cfg | every kind but redeem limits: inductive invariant, no doomed proposal, price inputs land paused |
| `guardian_set` | MCGuardianSet, GuardianSet.cfg | no eviction without fresh notice, no emptied set, one veto, announced handover |
| `redeem_rate` | RedeemWindow, RedeemRate.cfg | the two buckets implement the rate limit |
| `redeem_window` | RedeemWindow, RedeemWindow.cfg | changing limits and a clock set back release nothing |
| `readiness` | MCReadiness, Readiness.cfg | exposure that goes live was reviewed |
| `market` | MCMarket, Market.cfg | cap, the amount signed for, backing, one print per trade, premium, float, under every operation that moves money |
| `kyc` | KycGate, KycGate.cfg | the roster counter, who may drop the gate, an armed gate that admits somebody |
| `proxy` | LazerProxy, LazerProxy.cfg | exclusive claims, paid and due calls, nobody waits for ever, failures heal |
| `readiness_silent`, `breaker_rearm`, `proxy_stale` | see section 5 | three statements of the repository that the code does not satisfy |

Properties worth a word:

* `NoChangeWithoutNotice` compares with the *minimum* timelock and the time of announcement, so it
  covers a timelock shortened in between; `timelock_redeem` starts from either of two
  timelocks and queues changes of it among the others. It also says that the levers only tighten.
* `SlotReleasedByItsOwnFate` and `DisarmIsFinal` together say that cancelling an orphan never touches
  the proposal that replaced it, whether redemptions are open or closed by then, and that no orphan
  comes back. The one other way to lose a slot is a lever, told from a cancel by leaving every account
  alone; that a lever may do it with redemptions closed already is in section 5.
* `ArmedStaysExecutable` is about the gap between proposing and executing, for all twelve kinds: what
  `execute_*` asks again of a queued argument is preserved by everything that may run in between. Only a pause, or a treasury too small for a
  withdrawal, makes the execution of a matured proposal fail.
* `TighteningNeverFrees` is not obvious: a longer window re-reads the same buckets and revives one
  that had expired. It revives usage and never headroom.
* `TradesPayTheirPremium` values a trade at its own price: what the wallet gave up minus what it got
  is at least the premium on at least the minimum operation. Since every rounding is against the
  wallet in each trade, no round trip and no splitting can come out ahead.
* `TradesAreBacked` is the treasury's side of the same trades: whatever part of a premium is routed away,
  waived or kept, a mint leaves in the treasury at least what its SILV is worth at the trade's price, and
  a redemption takes no more than the burned SILV is worth. It is about the trade's own price; what a
  later price does to the backing is the market's.
* `PaysWhatWasSigned` compares the amount of a mint with the sum of its transfers, which `PayIn` debits
  one by one.
* `OnePrintOneTrade` is about both sides sharing one mark: a print spent on a mint is spent for a
  redemption.
* `ArmedGateIsStaffed` and `GateDropsByAdmin` hold although a handover can make admin and attestor one
  key: the first because no revocation empties an armed roster without dropping the gate, the second
  because it asks for the admin's signature and consent and not for two keys.
* `EveryRequestAnswered` is the one that the bounds of `route.ts` are for: waiters restart the call
  for each other, and each has its own counters of passes and failures.
* `CountsOnlyWhatWasPaid` says that the limiter never holds more against a redemption than what
  really left in the last two windows, so it cannot ratchet shut.

### Bounds and why they are enough

* *Timelock*: `Levels` of 1, 2 and 3 with `Ceiling` 2 give two accepted values and a refused one
  (`OracleArgs` and `RedeemArgs` hold refused values too). `MaxActive = 2` is reached with one orphan
  and one armed proposal, which is the case the cap is about. `NonceBound` is 3 in `timelock_redeem`,
  which allows propose, orphan, re-propose, execute and a third; it is 2 in `timelock_rest`, where
  two proposals at once are all that can interfere. `Horizon` allows a full delay of each length
  after an earlier one. Kinds interact only through `cfg`, `pending`, `activeCount` and the pause,
  so `timelock_redeem` keeps to those the levers touch and the timelock, and `timelock_rest` to the
  eleven that produce no orphan; the proofs cover all twelve together.
* *GuardianSet*: three keys are an admin, a candidate or guardian, and another guardian: two notices
  at once, and a guardian who becomes admin. `Horizon` 6 holds a notice, its expiry and a second
  notice. Symmetry over keys is sound: no key is named in the specification or its properties.
* *RedeemWindow*: windows of 3 and 5 seconds with budgets 3 and 4 give every alignment with the
  bucket grid, a division with a remainder, and more than three window lengths of time (Horizon 11).
  A budget of 0, which the code accepts, is in `redeem_window`.
* *Market*: a wallet with three units, a premium of a quarter, prices of 1 and 1.5 units: in units
  this small every division has remainders to round away, and a fee is a whole unit. One wallet is
  enough for what the properties say of trades, as both sides share the mark, the limiter and the
  cap; it is also the inventory wallet. `MCQuotes` has two prices the breaker tells apart, the second
  with a decimal to cut off, and one print for each way to be refused; ages go from the future skew
  to beyond staleness. Horizon 3 holds a decay and the limiter's period is longer, so both a binding
  and a forgotten reference occur. `SupplyWithinCap` meets caps of 2 and 3 against trades of 2 and 3;
  the two minimum operations are none and one that a trade of 2 falls short of.
* *KycGate*: three keys give an admin, an attestor and a successor that is either or neither; three
  wallets let the attestor walk a roster down to one. The state space is finite without bounds.
* *LazerProxy*: one tick is a publish period, the cache lives for two and a page sleeps for two. Two
  submitters contend for a print while a banner refreshes it; two fetches per page are the first and
  a retry, where the code allows two retries that differ in nothing. A bucket of two tokens is
  exhausted by failing calls. `MaxPrint` 2 makes a print claimed, repeated and replaced. With two
  failures a caller has one retry, as in the code.
* `Horizon`, `NonceBound` and `MaxTreasury` are guards of `Tick`, `Schedule` and `TreasuryFlow`, so
  the temporal properties are checked without a state constraint (`MaxPrint` bounds what `Tick` may
  publish in the same way). Only `redeem_rate` really stops
  (at the horizon with the budget used up), and its cfg says so.

### Fairness
None is assumed of the program on chain: its properties are safety properties, and nothing obliges
anybody to send a transaction. Whether an eviction can be refused for ever is answered by the safety
property `OneVetoPerAppointment`.

The envelope service makes promises of progress, and LazerProxy assumes what its runtime gives:
weak fairness of a callback that is ready (`ClearInflight`, `Resume`), of the upstream call ending,
which its three-second abort guarantees (`Upstream`, which may always be the failing half), of time
(`Tick`), of a banner's polling and of a page waking from its sleep. No page has to start a flow and
no call has to succeed: `EveryRequestAnswered` is checked with an upstream that may fail for ever, and
`ServiceRecovers` takes the end of failures as its hypothesis.

## 4. What is proved

All proofs are checked by TLAPS and hold for every value of the constants that satisfies the named
assumptions.

### The queue: TimelockProofs, under `TimelockAssumption`

| Theorem | States |
|---|---|
| `TypeCorrect` | `TypeOK` |
| `QueueCorrect` | `QueueInvariant`, the inductive invariant |
| `CountIsExact`, `SlotsAreSound`, `FreezeIsExact`, `OrphansAreKnown` | its parts |
| `NoticePrecedesChange`, `DisarmedForGood`, `SlotsEndWithTheirAccounts` | the action properties of the same name in section 3 |

The argument. `TypeOK` is inductive by itself, and it is needed everywhere: that a queued argument
has the shape of its kind is what lets `execute_*` type-check. Exactness of the count is not
inductive alone: it needs that the proposals consumed and cancelled are live (the slots are sound),
that the domain of the queue is finite, and that a nonce in use is below `nextNonce`
(which `Schedule` guards). The freeze needs that the slot of the mint premium names its own account.
`NoChangeWithoutNotice` needs `NoticeIsGuaranteed`: every delay, in force or queued, is at least the
minimum. The shape of the proof is one lemma per group of actions (scheduling, releasing by execute
or cancel, levers), each giving the conjuncts that the group can disturb (`ScheduleConsistent`,
`ReleaseConsistent`, `LeversConsistent`), joined by `StepShapes`, which says that every step of
`Next` is of one of these shapes. `DisarmIsFinal` and `SlotReleasedByItsOwnFate` reuse the shapes.

`TimelockAssumption` is typing of the constants, a positive minimum timelock and that `None` is no
number and no Boolean. `Horizon` and `NonceBound` are arbitrary naturals, so they bound nothing that
matters.

### What an execution may write: ExposureProofs, under `TimelockAssumption`

| Theorem | States |
|---|---|
| `PauseIsAHold`, `NewInputsWait` | `PauseHoldsExposure`, `PriceInputsLandPaused` |
| `ArmedIsExecutable` | `ArmedStaysExecutable` |
| `ReopeningIsFresh` | `ReopenIsFresh` of TimelockHistory |
| `ReviewedGoesLive` | `ReviewedExposureGoesLive` of Readiness |

`StepWrites` reduces a step to three shapes: the config stays, one proposal is consumed and writes the
settings of its kind alone (`Writes`), or a lever tightens. The first two theorems follow from it. Each
of the others has an inductive invariant of its own, on top of `QueueInvariant`:

* `ArmedFits`: every armed argument passes what its execution asks, and the price band in force has a
  usable top. The second part is needed because a proposal that names no top keeps the one in force,
  and the code checks the band that results. Kind by kind, the argument is that the slot is exclusive:
  the setting an argument was validated against is written by its own kind only; the levers can only
  close the mint, which is what a queued opening asks.
* `CloseIsRemembered`: while redemptions are closed, an armed redeem-limits proposal was queued after
  the close. It needs that whatever closes them disarms (`ClosingDisarms`), and that a slot takes
  only nonces never used before (`SlotsTakeNewNonces`).
* `DecisionIsHeld`: since a decision taken in this pause, the pause has held and the throttles have
  only tightened. What the digest covers is compared at the unpause; the throttles, which it does not
  cover, are held by the pause.

### Guardians: GuardianProofs, under `GuardianAssumption`

| Theorem | States |
|---|---|
| `GuardiansCorrect` | the invariant: `TypeOK`, `CountersAreExact`, `SomebodyStaysToReact` |
| `GuardianTypes`, `CountersExact`, `FloorHolds` | its parts, as the run checks them |
| `SomebodyUnnoticed` | some active guardian is not under notice |
| `OneVeto` | `OneVetoPerAppointment` |
| `RemovalIsAnnounced`, `HandoverAnnounced` | `RemovalHasFreshNotice`, `HandoverIsAnnounced` |

The counters and the floor are inductive only together: the floor is about counters, no checked
subtraction may go under zero, and what they count are sets. One lemma says that a step changes
one guardian's account, so each set gains or loses one element; the cases are whether a notice was
standing (an expired one is re-armed without counting). `SomebodyUnnoticed` draws the conclusion
about guardians from the one about counters. For GuardianHistory, `HistoryInvariant` says
that the etas in the accounts and of the candidate are those of the recorded announcements, and that
a veto used is remembered in the account; a notice's eta and the timelock of its day, which may
have changed since, give the two bounds of `RemovalHasFreshNotice`.

### The redemption limiter: RedeemWindowProofs, under `WindowsArePositive`

| Theorem | Of | States |
|---|---|---|
| `WindowTypes`, `SteadyWindowTypes` | `Spec`, `SteadySpec` | `TypeOK` |
| `TighteningFreesNothing`, `SkewRefundsNothing`, `WaitingIsSafe` | `Spec` | `TighteningNeverFrees`, `ClockSkewNeverRefunds`, `WaitingNeverHurts` |
| `NothingIsInvented` | `SteadySpec` | `CountsOnlyWhatWasPaid` |
| `RateIsKept` | `SteadySpec` | `KeepsTheRate`, the refinement of RateLimit |

`EffectiveUsed` is a floor of a product and depends on three regions of time (inside the bucket, inside
the next, later); `EffectiveFalls` and `EffectiveGrows` say how it moves with time and with the window's
length, and give the three action properties.

The refinement rests on `WindowInvariant`: `BucketsHoldPayments` says that the current bucket is what
was paid since it was opened and that the previous one holds at least what was paid in the
shortest (the launch) window before it, and at most what was paid in the one in force (they differ after
a tightening), `BucketIsOpen` that nothing
was paid past the end of the bucket, `LimitsOnlyTighten` that the limits in force promise no more than
those at launch. A redemption is then allowed by RateLimit in two cases: a stretch of `d` seconds inside
the current bucket pays at most `used`; one that reaches back into the previous bucket pays at most what
that bucket held, less what has already decayed, and `DecayIsReleased` bounds the released part by the
promise's `ceil(Budget * (d - 1) / Window)`. Steps other than redemptions are ticks or stutters of
RateLimit.

### The market: MarketProofs, under `MarketAssumption`, `GuardsAreNaturals`, `ScalesArePositive`

| Theorem | States |
|---|---|
| `MarketTypes` | `TypeOK` |
| `SupplyStaysWithinCap` | `SupplyWithinCap` |
| `TradesKeepTheBacking` | `TradesAreBacked` |
| `PrintsAreSpentOnce`, `AdminLeavesTheFloat`, `NoTradeIsFree` | `OnePrintOneTrade`, `AdminTakesOnlyAboveTheFloat`, `TradesPayTheirPremium` |

`TypeOK` with the cap is inductive. The work is in the arithmetic: `Division` says what floor division
gives, and `FeeCoversPremium`, `MintRoundsDown` and `RedeemRoundsDown` turn it into the three rounding
facts of `math.rs`, for amounts, prices and scales of any size. `MintAmounts` and `RedeemAmounts`
collect what a trade moves, and `MintPays` and `RedeemPays` add up the wallet's loss: what rounding
takes is never negative, so what remains is the fee, which is at least the premium.
`OnlyTradesTrade` says that nothing else moves both of a wallet's balances. That the fee never exceeds
the amount is the code's checked subtraction, a guard of the trade. `MintIsBacked` and `RedeemIsBacked`
put the same facts on the treasury's side: a routed fee leaves a mint's backing leg at the net amount,
which is what its SILV was computed from, and both legs of a redemption are at most its gross value.

### The KYC gate: KycGateProofs, under `KycAssumption`

| Theorem | States |
|---|---|
| `RosterCountIsExact`, `ArmedGateHasItsPeople` | `CountIsRoster`, `ArmedGateIsStaffed` |
| `GateIsLoweredByItsAdmin` | `GateDropsByAdmin` |

The invariant is that a non-empty scope comes with an attestor and a positive counter. Arming checks
it once; that every later call keeps it is the disarm rule of a revocation and the refusal to clear
the attestor. The handover needs no hypothesis on the new admin's key.

### The envelope service: LazerProxyProofs, under `ProxyAssumption`

| Theorem | States |
|---|---|
| `ProxyTypes`, `ClaimsAreExclusive` | `TypeOK`, `ClaimIsExclusive` |
| `EnvelopesAreKept`, `CallsArePaid` | `EnvelopeIsKept`, `CallsArePaidAndDue` |

They hold for any number of pages and banners. `SegmentHasOutcome` says that whatever a caller does
between two awaits ends in one of three ways: it waits (having started a call or not), is served, or is
refused. Exclusive claims need `ClaimsAreMarked` (the claim mark is at or past every print a page
believes to be its own) and `CacheIsStamped` (a usable timestamp is its print's: a print without one is
never claimed). Keeping an envelope needs `HoldersOnlyRetry` and `FlowsAreCounted`: who holds one and
asks again is past its first fetch, and that is where a failure costs nothing. `ProxyAssumption` makes
the periods and limits positive, as the constants of `route.ts` and `lazer-execute.ts` are.

### Sums: SumLemmas

What `SumFunctionOnSet` is, for functions to the integers on finite sets: a sum is an integer, it does
not depend on the order of taking elements, it splits over disjoint sets and follows the change of one
value. The induction is done with sets: `LeastNatural`, `NaturalInduction` and `SubsetInduction` have a
set where the library's induction theorems have an operator, which the provers here cannot instantiate.

### What stays with TLC

Every invariant and action property of a passing run is stated by a theorem or is a part of one
(`TypeOK` and `PendingOpenMeansMintClosed` of Timelock in `QueueInvariant`). Left to TLC are the two
liveness properties of the envelope service, `EveryRequestAnswered` and `ServiceRecovers`, because
liveness under fairness and `ENABLED` are out of the prover's reach, and `PaysWhatWasSigned`, an addition
of two legs that needs no invariant. `ArmedStaysExecutable` proves that the
checks of an execution pass, not that its action is enabled. The three runs of section 5 show a
violation, and there is nothing to prove.

## 5. Where comments and code differ

Three runs check one sentence of the repository each that the code does not satisfy. `PROJECT.json`
quotes them in full.

* `readiness_silent`: a weakened oracle guard "must never go live silently" (`admin/execute.rs`
  456-458). The digest covers none of them except the publisher floor.
* `breaker_rearm`: a decayed reference "re-arms on next accepted tx" (`oracle.rs` 102). A trade under
  the dust threshold is accepted, at any price in the band, and does not re-arm it.
* `proxy_stale`: the service "never serves a submitter an envelope aged past the publish period"
  (`lazer-route.test.ts` 365). A submitter that joined a call which failed is served the aged cache,
  marked contended.

Others met while modelling, which need no run to see:

* `state/config.rs` 9 calls the timelock "Raise-only within these bounds"; it can be shortened down to
  the minimum, by the queue and with notice.
* `admin/caps.rs` 342, "this branch is always a CLOSE and disarming is unconditionally correct", and
  `admin/execute.rs` 607-608, "`Some(false)` while already disabled is a harmless no-op tighten": with
  redemptions closed already, a tighten that repeats the switch beside a smaller budget takes a queued
  reopening its slot, which then costs a new notice. The dedicated setter refuses a repeated close for
  this very reason (`admin/caps.rs` 125-127).
* `initialize.rs` 403-404, "the state `unpause` rejects can never be reached at all": a guardian may
  become the admin by transfer, and then no longer counts as an independent brake.
* `state/guardian.rs` 12, "re-add requires now > cooldown_until": it requires `>=`.
* `admin/kyc_admin.rs` 192, "`set_kyc_operator` refuses to make the two keys equal, so this is real":
  `accept_admin_transfer` can make the attestor the admin. The gate's properties hold regardless.
* `route.ts` 106 and 112 bound an instance to one call per print. That is the cadence of successful
  calls: while the upstream fails the cache stays old, and every request may call again, up to the
  token bucket. `CallsArePaidAndDue` says what holds.
* `route.ts` 13-14, "the high-water mark accepts one timestamp across mints": since the mark became
  strict, it accepts it once.

## 6. Not modelled, and why

* The payload parser and the verification CPI (`lazer.rs`, `lazer_cpi.rs`), serialization, PDA
  derivation and account validation: input checks with no state across transactions, which can only
  refuse. The parser's grammar is unit tested for every truncation.
* Integer widths: the amounts in the modelled parts are at most 10^14 by the ceilings the setters
  enforce, and times fit 64 bits; the checked operations cannot fail in the modelled ranges.
* The floor under the sum of the two premiums (`PREMIUM_BPS_COMBINED_FLOOR`, checked when a premium is
  proposed and when it is executed) is 0 in this build, so the check never refuses.
* The multisig, the token programs, the Lazer program and the Solana clock are environment.
* The envelope service's cold starts and parallel instances, which share nothing; the fall-through of
  a banner whose shared call succeeded and aged out before it resumed, which takes a stalled event
  loop (callbacks run before the clock moves here); building, signing and sending the transaction.
* The admin client, scripts and harnesses, except the readiness digest: presentation and one-shot
  checks. Probes, assertions, events and error codes keep no protocol state.

## 7. Plan

What is left, the most valuable first:

1. `Governance`: Timelock with GuardianSet, `brake` mapped to an independent active guardian; a
   guardian's cancellation always arrives before its removal.
2. `GuardianEviction`: an eviction the admin insists on completes within two windows, under fairness
   of the admin and of finalization.
3. `ChangeControl`: an abstract specification (announce, wait, apply or withdraw) that Timelock
   implements, as a refinement run and a step-simulation theorem.
4. The payload grammar of `lazer.rs` as a parser over bounded inputs against its encoder.
