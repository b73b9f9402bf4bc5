--------------------------- MODULE TimelockHistory ---------------------------
(***************************************************************************)
(* Timelock with one history variable, which no action reads: the nonce    *)
(* counter at the moment redemptions were last closed.  It lets a property *)
(* say that a proposal is older than a close.                              *)
(***************************************************************************)
EXTENDS Timelock

VARIABLE closedAt   \* nextNonce when redemptions were last closed

historyVars == << vars, closedAt >>

HInit == Init /\ closedAt = 0

HNext ==
  /\ Next
  /\ closedAt' = IF cfg.redeem.enabled /\ ~cfg'.redeem.enabled
                   THEN nextNonce ELSE closedAt

HSpec == HInit /\ [][HNext]_historyVars

\* Redemptions reopen only through a proposal queued after the last close: an
\* emergency close is never undone by a decision taken before it
\* (caps.rs 134-157, execute.rs 684-697).
ReopenIsFresh ==
  [][ (~cfg.redeem.enabled /\ cfg'.redeem.enabled) =>
        \E n \in Live \ Live' : n >= closedAt /\ Matured(n) ]_historyVars
=============================================================================
