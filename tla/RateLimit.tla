------------------------------ MODULE RateLimit ------------------------------
(***************************************************************************)
(* What the redemption limiter promises while its limits stand (the header *)
(* of state/redeem_window.rs): it bounds a RATE.  Any d seconds in a row   *)
(* pay out at most the budget plus the share of a second budget that d-1   *)
(* seconds release, hence never more than twice the budget in a window.    *)
(***************************************************************************)
EXTENDS Integers, Functions

CONSTANTS
  Budget,   \* the most one window should pay out, USDC
  Window,   \* seconds in a window
  Horizon   \* bound on the clock

VARIABLES
  now,      \* the clock
  paid      \* second -> USDC paid out in that second

CeilDiv(a, b) == (a + b - 1) \div b

Outflow(ledger, first, last) ==
  SumFunctionOnSet(ledger, first..last \cap DOMAIN ledger)

Allowance(d) == Budget + CeilDiv(Budget * (d - 1), Window)

Init ==
  /\ now = 1
  /\ paid = [t \in 1..Horizon |-> 0]

Pay(amount) ==
  /\ paid' = [paid EXCEPT ![now] = @ + amount]
  /\ \A d \in 1..Window : Outflow(paid', now - d + 1, now) <= Allowance(d)
  /\ UNCHANGED now

Pass ==
  /\ now < Horizon
  /\ now' = now + 1
  /\ UNCHANGED paid

Next == Pass \/ \E amount \in 1..Budget : Pay(amount)

Spec == Init /\ [][Next]_<< now, paid >>
=============================================================================
