----------------------------- MODULE RedeemWindow -----------------------------
(***************************************************************************)
(* The redemption rate limiter: a sliding counter over two buckets, the    *)
(* only hard brake between a bad price and the treasury.  Sources:         *)
(* state/redeem_window.rs, steps 6 to 8 of instructions/redeem_silv.rs,    *)
(* and the writers of the budget and the window length.                    *)
(*                                                                         *)
(* Every other check of a redemption can only refuse it, so redemptions of *)
(* any outflow within the budget are offered at every instant.  The window *)
(* length is never 0 (WindowsArePositive), which makes roll_window's       *)
(* degenerate branch unreachable.                                          *)
(***************************************************************************)
EXTENDS Integers, Functions

CONSTANTS
  Budgets,       \* values instant_redeem_budget_usdc may be given
  Windows,       \* values instant_redeem_window_seconds may be given
  LaunchBudget,  \* the budget `initialize` writes
  LaunchWindow,  \* the window `initialize` writes
  Horizon        \* bound on the clock

ASSUME WindowsArePositive ==
  /\ Budgets \subseteq Nat /\ LaunchBudget \in Budgets
  /\ Windows \subseteq Nat \ {0} /\ LaunchWindow \in Windows
  /\ Horizon \in Nat \ {0}

VARIABLES
  now,       \* Clock::unix_timestamp; 0 is the code's "never started"
  start,     \* config.instant_window_start
  used,      \* config.instant_used_usdc
  usedPrev,  \* config.instant_used_prev_usdc
  budget,    \* config.instant_redeem_budget_usdc
  window,    \* config.instant_redeem_window_seconds
  paid       \* history: second -> USDC paid out in that second

buckets == << start, used, usedPrev >>
limits == << budget, window >>
vars == << now, buckets, limits, paid >>

-----------------------------------------------------------------------------
(* roll_window: where the two buckets stand at this instant.                *)

Elapsed == IF now < start THEN 0 ELSE now - start

\* Bug: a fixed window, which forgets the bucket it leaves.
RolledFixedWindow ==
  IF start = 0 \/ Elapsed >= window
    THEN [start |-> now, current |-> 0, prev |-> 0]
    ELSE [start |-> start, current |-> used, prev |-> usedPrev]

\* Bug: a window start in the future resets the counter.
RolledResetBySkew ==
  IF now < start \/ Elapsed >= 2 * window
    THEN [start |-> now, current |-> 0, prev |-> 0]
    ELSE IF Elapsed >= window
      THEN [start |-> start + window, current |-> 0, prev |-> used]
      ELSE [start |-> start, current |-> used, prev |-> usedPrev]

\* Bug: one boundary is assumed however long nobody redeemed.
RolledOneBoundary ==
  IF start # 0 /\ Elapsed >= window
    THEN [start |-> IF Elapsed >= 2 * window THEN now ELSE start + window,
          current |-> 0, prev |-> used]
    ELSE [start |-> IF start = 0 THEN now ELSE start,
          current |-> used, prev |-> usedPrev]

\* Bug: the first window is anchored a full window back.
RolledAnchoredBack ==
  [start |-> IF start = 0 THEN now - window ELSE start, current |-> used, prev |-> usedPrev]

Rolled ==
  CASE start = 0 ->
         [start |-> now, current |-> used, prev |-> usedPrev]
    [] start # 0 /\ Elapsed >= 2 * window ->
         [start |-> now, current |-> 0, prev |-> 0]
    [] start # 0 /\ Elapsed >= window /\ Elapsed < 2 * window ->
         [start |-> start + window, current |-> 0, prev |-> used]
    [] OTHER ->
         [start |-> start, current |-> used, prev |-> usedPrev]

\* The previous bucket counts by the fraction of it still in the trailing window.
WeightedPrev(bucket) ==
  LET into == CASE now < bucket.start          -> 0
                [] now > bucket.start + window -> window
                [] OTHER                       -> now - bucket.start
  IN  (bucket.prev * (window - into)) \div window

EffectiveUsed == Rolled.current + WeightedPrev(Rolled)

-----------------------------------------------------------------------------
Init ==
  /\ now = 1
  /\ start = 0 /\ used = 0 /\ usedPrev = 0
  /\ budget = LaunchBudget /\ window = LaunchWindow
  /\ paid = [t \in 1..Horizon |-> 0]

\* Bug: the decaying share of the previous bucket is made permanent.
DebitCommittingEffective(totalOut) ==
  /\ EffectiveUsed + totalOut <= budget
  /\ start' = Rolled.start
  /\ usedPrev' = Rolled.prev
  /\ used' = EffectiveUsed + totalOut

\* The current bucket takes the outflow on top of what it held, not on top of
\* the decaying effective usage.
Debit(totalOut) ==
  /\ EffectiveUsed + totalOut <= budget
  /\ start' = Rolled.start
  /\ usedPrev' = Rolled.prev
  /\ used' = Rolled.current + totalOut

\* The rest of the redemption is in module Market.
Redeem(totalOut) ==
  /\ Debit(totalOut)
  /\ paid' = [paid EXCEPT ![now] = @ + totalOut]
  /\ UNCHANGED << now, limits >>

\* A matured proposal (module Timelock) may move both limits either way.
ExecuteSetRedeemLimits(newBudget, newWindow) ==
  /\ budget' = newBudget
  /\ window' = newWindow
  /\ UNCHANGED << now, buckets, paid >>

\* Bug: changing the window restarts it.
TightenRestartingWindow(newBudget, newWindow) ==
  /\ newBudget <= budget
  /\ newWindow >= window
  /\ newBudget # budget \/ newWindow # window
  /\ budget' = newBudget
  /\ window' = newWindow
  /\ start' = 0 /\ used' = 0 /\ usedPrev' = 0
  /\ UNCHANGED << now, paid >>

\* The instant lever takes a smaller budget or a longer window only.
EmergencyTightenRedeemLimits(newBudget, newWindow) ==
  /\ newBudget <= budget
  /\ newWindow >= window
  /\ newBudget # budget \/ newWindow # window
  /\ budget' = newBudget
  /\ window' = newWindow
  /\ UNCHANGED << now, buckets, paid >>

Tick ==
  /\ now < Horizon
  /\ now' = now + 1
  /\ UNCHANGED << buckets, limits, paid >>

\* The validators' clock may be set back.
ClockSkew ==
  /\ now' \in 1..(now - 1)
  /\ UNCHANGED << buckets, limits, paid >>

Redemption == \E totalOut \in 1..budget : Redeem(totalOut)

Tightening ==
  \E b \in Budgets, w \in Windows : EmergencyTightenRedeemLimits(b, w)

Loosening ==
  \E b \in Budgets, w \in Windows : ExecuteSetRedeemLimits(b, w)

\* Until a timelocked change of the limits executes, and while the clock does
\* not slip.
SteadyNext == Tick \/ Redemption \/ Tightening
Next == SteadyNext \/ Loosening \/ ClockSkew

SteadySpec == Init /\ [][SteadyNext]_vars
Spec == Init /\ [][Next]_vars

-----------------------------------------------------------------------------
\* Every variable has its type (config.rs 165-172, 235).
TypeOK ==
  /\ now \in 1..Horizon
  /\ start \in Nat /\ used \in Nat /\ usedPrev \in Nat
  /\ budget \in Budgets /\ window \in Windows
  /\ paid \in [1..Horizon -> Nat]

Headroom == IF EffectiveUsed < budget THEN budget - EffectiveUsed ELSE 0

Promise == INSTANCE RateLimit WITH Budget <- LaunchBudget, Window <- LaunchWindow

\* The two-bucket counter implements the rate limit: whatever the alignment of
\* redemptions with the bucket grid, any d seconds pay out at most
\* budget + ceil(budget * (d-1) / window) (redeem_window.rs 1-9: "what the
\* sliding counter buys is the RATE").
KeepsTheRate == Promise!Spec

\* The counter never ratchets shut: what it holds against a redemption was
\* really paid out within the last two windows (redeem_silv.rs 276-278).
CountsOnlyWhatWasPaid ==
  EffectiveUsed <= Promise!Outflow(paid, now - 2 * window + 1, now)

\* Shrinking the budget and lengthening the window, which need no timelock,
\* never leave more to redeem at once than before, even though a longer window
\* re-reads the same buckets and can revive one that had expired (caps.rs
\* 278-365, redeem_window.rs 29-79).
TighteningNeverFrees ==
  [][ (now' = now /\ budget' <= budget /\ window' >= window)
        => Headroom' <= Headroom ]_vars

\* Only the passing of time gives budget back: a clock set back never does, not
\* even to before the start of the current bucket (redeem_window.rs 49-51).
ClockSkewNeverRefunds ==
  [][ now' < now => Headroom' <= Headroom ]_vars

\* Limits and buckets aside, waiting never takes headroom away, so a refused
\* redemption may be retried later in full (redeem_silv.rs 262-263).
WaitingNeverHurts ==
  [][ now' > now => Headroom' >= Headroom ]_vars
=============================================================================
