------------------------------ MODULE Readiness ------------------------------
(***************************************************************************)
(* The gap between deciding to unpause and unpausing.  The decision reads  *)
(* the config and puts its digest into a multisig proposal; the proposal   *)
(* is executed later, whatever the governance queue did in between.        *)
(* Sources: instructions/emergency/pause.rs, readiness_digest of           *)
(* state/config.rs, and the builder in apps/admin/src/lib.                 *)
(***************************************************************************)
EXTENDS Timelock

VARIABLE
  approved   \* the config the last approved unpause was decided on, or None,
             \* and whether the program stayed paused since the decision

rvars == << vars, approved >>

NoDecision == [config |-> None, samePause |-> FALSE]

RInit == Init /\ approved = NoDecision

\* readinessDigestFromConfig: the instruction carries the digest of what was read.
BuildUnpause ==
  /\ approved' = [config |-> cfg, samePause |-> paused]
  /\ UNCHANGED vars

ExecuteApprovedUnpause ==
  /\ approved.config # None
  /\ Unpause(ReadinessDigest(approved.config))
  /\ approved' = NoDecision

RNext ==
  \/ BuildUnpause
  \/ ExecuteApprovedUnpause
  \/ /\ QueueNext \/ Levers \/ Environment
     /\ UNCHANGED approved

RSpec == RInit /\ [][RNext]_rvars
-----------------------------------------------------------------------------
GoesLive == paused /\ ~paused'

\* What a decision taken during this pause reviewed is what goes live, as far as
\* value at risk goes: the same inventory wallet, feed, publisher floor and
\* switches, and redeem throttles no looser than the reviewed ones, although the
\* digest does not cover the throttles (pause.rs 78-95, execute.rs 694-697).
ReviewedExposureGoesLive ==
  [][ GoesLive /\ approved.samePause =>
        /\ cfg.inventory = approved.config.inventory
        /\ cfg.feed = approved.config.feed
        /\ cfg.oracle.publishers = approved.config.oracle.publishers
        /\ cfg.publicMint = approved.config.publicMint
        /\ ~Loosens(approved.config.redeem, cfg.redeem) ]_rvars

\* "a weakened staleness / confidence / delta / price band ... must never go live
\* silently after the 24h window. The admin re-validates against live data, then
\* unpauses" (execute.rs 456-458): the oracle guards that go live are the ones
\* the decision to unpause looked at.
OracleGuardsNeverGoLiveSilently ==
  [][ GoesLive => cfg.oracle = approved.config.oracle ]_rvars
=============================================================================
