---------------------------- MODULE ExposureProofs ----------------------------
(***************************************************************************)
(* Proofs about what an execution may write, for every value of the        *)
(* constants: armed proposals stay executable, a pause holds the exposure, *)
(* price inputs land paused, closed redemptions reopen only by a newer     *)
(* proposal (TimelockHistory), and what a decision to unpause reviewed is  *)
(* what goes live (Readiness).                                             *)
(***************************************************************************)
EXTENDS TimelockHistory, Readiness, TimelockProofs

\* What execute_* asks once more of the argument of a proposal, kind by kind.
Executable(c, kind, data) ==
  /\ kind = "SetComplianceMode" => data # c.compliance
  /\ kind = "SetInventoryWallet" => data # NoWallet /\ data # c.inventory
  /\ kind = "SetPublicMint" => data = TRUE /\ ~c.publicMint
  /\ kind = "SetOracleGuards" => OracleRails(c.oracle, data) /\ HasTop(OracleOverlay(c.oracle, data))
  /\ kind = "SetRedeemLimits" => RedeemCeilings(data)
  /\ kind = "SetAdminTimelock" => data >= MinDelay /\ data <= MaxDelay
  /\ kind \in {"SetPythFeed", "UpdateMetadata"} => data # 0
  /\ kind = "WithdrawUsdc" => data > 0
  /\ kind \in {"SetPremiumMint", "SetPremiumRedeem", "SetTreasuryFloat"} => data <= Ceiling

\* Executing a proposal writes the settings of its kind alone, some only while
\* the program is live, some leaving it paused; it never unpauses.
Writes(kind) ==
  /\ paused => paused'
  /\ kind # "SetOracleGuards" => cfg'.oracle = cfg.oracle
  /\ kind = "SetOracleGuards" => HasTop(cfg'.oracle)
  /\ kind # "SetPythFeed" => cfg'.feed = cfg.feed
  /\ kind # "SetComplianceMode" => cfg'.compliance = cfg.compliance
  /\ kind \in {"SetOracleGuards", "SetPythFeed", "SetComplianceMode"} => paused'
  /\ kind # "SetInventoryWallet" => cfg'.inventory = cfg.inventory
  /\ kind # "SetRedeemLimits" => cfg'.redeem = cfg.redeem
  /\ kind # "SetPublicMint" => cfg'.publicMint = cfg.publicMint
  /\ kind \in {"SetInventoryWallet", "SetRedeemLimits", "SetPublicMint"} => ~paused

LEMMA ExecuteWrites ==
  ASSUME TypeOK, NEW n, Execute(n)
  PROVE  \E kind : Consume(n, kind) /\ Writes(kind)
<1> USE DEF Config, Writes
<1>0. cfg \in Config
  BY DEF TypeOK
<1>1. CASE ExecuteSetPremiumMint(n)
  BY <1>0, <1>1 DEF ExecuteSetPremiumMint
<1>2. CASE ExecuteSetPremiumRedeem(n)
  BY <1>0, <1>2 DEF ExecuteSetPremiumRedeem
<1>3. CASE ExecuteWithdrawUsdc(n)
  BY <1>0, <1>3 DEF ExecuteWithdrawUsdc
<1>4. CASE ExecuteSetComplianceMode(n)
  BY <1>0, <1>4 DEF ExecuteSetComplianceMode
<1>5. CASE ExecuteSetOracleGuards(n)
  BY <1>0, <1>5 DEF ExecuteSetOracleGuards
<1>6. CASE ExecuteSetRedeemLimits(n)
  BY <1>0, <1>6 DEF ExecuteSetRedeemLimits
<1>7. CASE ExecuteSetTreasuryMinFloat(n)
  BY <1>0, <1>7 DEF ExecuteSetTreasuryMinFloat
<1>8. CASE ExecuteSetAdminTimelock(n)
  BY <1>0, <1>8 DEF ExecuteSetAdminTimelock
<1>9. CASE ExecuteSetInventoryWallet(n)
  BY <1>0, <1>9 DEF ExecuteSetInventoryWallet
<1>10. CASE ExecuteSetPublicMint(n)
  BY <1>0, <1>10 DEF ExecuteSetPublicMint
<1>11. CASE ExecuteSetPythFeed(n)
  BY <1>0, <1>11 DEF ExecuteSetPythFeed
<1>12. CASE ExecuteUpdateMetadata(n)
  BY <1>0, <1>12 DEF ExecuteUpdateMetadata
<1>13. QED
  BY <1>1, <1>2, <1>3, <1>4, <1>5, <1>6, <1>7, <1>8, <1>9, <1>10, <1>11, <1>12
  DEF Execute

\* What the instant levers keep.
LEMMA TighteningKeeps ==
  ASSUME TypeOK, OnlyTightens(cfg, cfg')
  PROVE  /\ cfg'.oracle = cfg.oracle /\ cfg'.feed = cfg.feed
         /\ cfg'.compliance = cfg.compliance /\ cfg'.inventory = cfg.inventory
         /\ cfg'.publicMint => cfg.publicMint
         /\ ~Loosens(cfg.redeem, cfg'.redeem)
BY DEF OnlyTightens, TypeOK, Config

\* Every step, as far as the config and the pause are concerned.
LEMMA StepWrites ==
  ASSUME TypeOK, Consistent, [Next]_vars
  PROVE  \/ cfg' = cfg
         \/ \E n \in Live : \E kind : Consume(n, kind) /\ Writes(kind)
         \/ Levers /\ OnlyTightens(cfg, cfg')
<1>1. CASE Propose
  <2>1. PICK kind, data : Schedule(kind, data)
    BY <1>1, ProposeSchedules
  <2>2. QED
    BY <2>1 DEF Schedule
<1>2. CASE \E n \in Live : Execute(n)
  BY <1>2, ExecuteWrites
<1>3. CASE \E n \in Live : CancelTimelocked(n)
  BY <1>3 DEF CancelTimelocked
<1>4. CASE Levers
  BY <1>4, LeversRelease
<1>5. QED
  BY <1>1, <1>2, <1>3, <1>4, StepShapes

-----------------------------------------------------------------------------
(* A pause holds the exposure, and price inputs land paused.                *)

LEMMA PauseHolds ==
  ASSUME TypeOK, Consistent, [Next]_vars, paused
  PROVE  /\ cfg'.inventory = cfg.inventory
         /\ cfg'.publicMint => cfg.publicMint
         /\ ~Loosens(cfg.redeem, cfg'.redeem)
<1>1. ~Loosens(cfg.redeem, cfg.redeem)
  BY NothingLoosens DEF TypeOK, Config
<1>2. CASE cfg' = cfg
  BY <1>1, <1>2
<1>3. CASE \E n \in Live : \E kind : Consume(n, kind) /\ Writes(kind)
  <2>1. PICK kind : Writes(kind)
    BY <1>3
  <2>2. /\ kind # "SetInventoryWallet" /\ kind # "SetRedeemLimits"
        /\ kind # "SetPublicMint"
    BY <2>1 DEF Writes
  <2>3. QED
    BY <1>1, <2>1, <2>2 DEF Writes
<1>4. CASE OnlyTightens(cfg, cfg')
  BY <1>4, TighteningKeeps
<1>5. QED
  BY <1>2, <1>3, <1>4, StepWrites

\* While the program is paused no inventory wallet, redeem throttle or public
\* mint that opens an exposure lands (execute.rs 694-697, 982-984, 1042-1046).
THEOREM PauseIsAHold == Spec => PauseHoldsExposure
<1>1. QueueInvariant <=> TypeOK /\ Consistent
  BY DEF QueueInvariant, Consistent
<1>2. QueueInvariant /\ [Next]_vars =>
        [ paused => /\ cfg'.inventory = cfg.inventory
                    /\ cfg'.publicMint => cfg.publicMint
                    /\ ~Loosens(cfg.redeem, cfg'.redeem) ]_vars
  BY <1>1, PauseHolds
<1>3. QED
  BY <1>2, QueueCorrect, PTL DEF Spec, PauseHoldsExposure

\* A change of the oracle guards, the feed or the compliance mode leaves the
\* program paused (execute.rs 456-465).
THEOREM NewInputsWait == Spec => PriceInputsLandPaused
<1> DEFINE Step == \/ paused'
                   \/ /\ cfg'.oracle = cfg.oracle
                      /\ cfg'.feed = cfg.feed
                      /\ cfg'.compliance = cfg.compliance
<1>1. QueueInvariant /\ [Next]_vars => [Step]_vars
  <2> SUFFICES ASSUME TypeOK, Consistent, [Next]_vars PROVE Step
    BY DEF QueueInvariant, Consistent
  <2>1. CASE \E n \in Live : \E kind : Consume(n, kind) /\ Writes(kind)
    BY <2>1 DEF Writes
  <2>2. CASE OnlyTightens(cfg, cfg')
    BY <2>2, TighteningKeeps
  <2>3. QED
    BY <2>1, <2>2, StepWrites
<1>2. QED
  BY <1>1, QueueCorrect, PTL DEF Spec, PriceInputsLandPaused

-----------------------------------------------------------------------------
(* No armed proposal is doomed.                                             *)

\* The invariant, with the price band in force as its second part: a proposal
\* that names no top keeps the one in force.
ArmedFits ==
  /\ \A n \in Live :
       pending[queue[n].kind] = n => Executable(cfg, queue[n].kind, queue[n].data)
  /\ HasTop(cfg.oracle)

LEMMA ArmedForm == ArmedFits /\ TypeOK => ArmedStaysExecutable
<1> SUFFICES ASSUME ArmedFits, TypeOK, NEW n \in Live, pending[queue[n].kind] = n,
                    NEW kind, kind = queue[n].kind, NEW data, data = queue[n].data
             PROVE  CASE kind = "SetComplianceMode"  -> data # cfg.compliance
                      [] kind = "SetInventoryWallet" -> data \notin {NoWallet, cfg.inventory}
                      [] kind = "SetPublicMint"      -> data = TRUE /\ ~cfg.publicMint
                      [] kind = "SetOracleGuards"    ->
                           OracleRails(cfg.oracle, data) /\ HasTop(OracleOverlay(cfg.oracle, data))
                      [] kind = "SetRedeemLimits"    -> RedeemCeilings(data)
                      [] kind = "SetAdminTimelock"   -> data >= MinDelay /\ data <= MaxDelay
                      [] kind \in {"SetPythFeed", "UpdateMetadata"} -> data # 0
                      [] kind = "WithdrawUsdc"       -> data > 0
                      [] OTHER                       -> data <= Ceiling
  BY DEF ArmedStaysExecutable
<1>1. Executable(cfg, kind, data)
  BY DEF ArmedFits
<1>2. kind \in AllKinds
  BY TimelockAssumption DEF TypeOK, TimelockAssumption
<1>3. QED
  BY <1>1, <1>2 DEF Executable, AllKinds

\* A propose_* handler has already asked what execute_* will ask.
LEMMA ProposeFits ==
  ASSUME TypeOK, HasTop(cfg.oracle), Propose
  PROVE  \E kind, data : Schedule(kind, data) /\ Executable(cfg, kind, data)
<1> USE DEF Executable
<1>1. CASE \E v \in Levels :
             \/ ProposeSetPremiumMint(v)
             \/ ProposeSetPremiumRedeem(v)
             \/ ProposeWithdrawUsdc(v)
             \/ ProposeSetTreasuryMinFloat(v)
             \/ ProposeSetAdminTimelock(v)
             \/ ProposeSetPythFeed(v)
             \/ ProposeUpdateMetadata(v)
  BY <1>1
  DEF ProposeSetPremiumMint, ProposeSetPremiumRedeem, ProposeWithdrawUsdc,
      ProposeSetTreasuryMinFloat, ProposeSetAdminTimelock, ProposeSetPythFeed,
      ProposeUpdateMetadata
<1>2. CASE ProposeSetPublicMint
  <2>1. Executable(cfg, "SetPublicMint", TRUE)
    BY <1>2 DEF ProposeSetPublicMint
  <2>2. Schedule("SetPublicMint", TRUE)
    BY <1>2 DEF ProposeSetPublicMint
  <2> HIDE DEF Executable
  <2>3. QED
    BY <2>1, <2>2, Zenon
<1>3. CASE \E w \in Wallets : ProposeSetInventoryWallet(w)
  BY <1>3 DEF ProposeSetInventoryWallet
<1>4. CASE \E mode \in BOOLEAN : ProposeSetComplianceMode(mode)
  BY <1>4 DEF ProposeSetComplianceMode
<1>5. CASE \E args \in OracleInputs : ProposeSetOracleGuards(args)
  <2>1. PICK args \in OracleInputs : ProposeSetOracleGuards(args)
    BY <1>5
  <2>2. OracleRails(cfg.oracle, args) /\ Schedule("SetOracleGuards", args)
    BY <2>1 DEF ProposeSetOracleGuards
  <2>3. args \in OracleGuardsArgs
    BY TimelockAssumption DEF TimelockAssumption
  <2>4. HasTop(OracleOverlay(cfg.oracle, args))
    BY <2>2, <2>3, TimelockAssumption
    DEF HasTop, OracleOverlay, Given, OracleRails, Within, OracleGuardsArgs, TimelockAssumption
  <2>5. QED
    BY <2>2, <2>4
<1>6. CASE \E args \in RedeemInputs : ProposeSetRedeemLimits(args)
  BY <1>6 DEF ProposeSetRedeemLimits
<1>7. QED
  BY <1>1, <1>2, <1>3, <1>4, <1>5, <1>6 DEF Propose

LEMMA InitFits == Init => ArmedFits
BY DEF Init, ArmedFits, Live, HasTop

LEMMA ScheduleFits ==
  ASSUME TypeOK, Consistent, ArmedFits, NEW kind, NEW data,
         Schedule(kind, data), Executable(cfg, kind, data)
  PROVE  ArmedFits'
<1>0. HasTop(cfg'.oracle)
  BY DEF ArmedFits, Schedule
<1> SUFFICES ASSUME NEW n \in Live', pending'[queue'[n].kind] = n
             PROVE  Executable(cfg', queue'[n].kind, queue'[n].data)
  BY <1>0 DEF ArmedFits
<1>1. /\ Live' = Live \cup {nextNonce} /\ nextNonce \notin Live /\ cfg' = cfg
      /\ queue'[nextNonce] = Proposal(kind, data)
      /\ \A m \in Live : queue'[m] = queue[m]
  BY DEF Schedule, Live
<1>2. CASE n = nextNonce
  BY <1>1, <1>2 DEF Proposal
<1>3. CASE n \in Live
  <2>1. queue[n].kind \in AllKinds /\ queue'[n] = queue[n] /\ n # nextNonce
    BY <1>1, <1>3, TimelockAssumption DEF TypeOK, TimelockAssumption
  <2>2. pending[queue[n].kind] = n
    BY <2>1 DEF Schedule, TypeOK
  <2>3. QED
    BY <1>1, <1>3, <2>1, <2>2 DEF ArmedFits
<1>4. QED
  BY <1>1, <1>2, <1>3

\* What is still armed after an execution or a cancellation was armed before, and
\* its own kind is not the one that was consumed.
LEMMA ReleaseFits ==
  ASSUME TypeOK, Consistent, Consistent', ArmedFits, NEW r, Releases(r),
         cfg' = cfg \/ \E kind : Consume(r, kind) /\ Writes(kind)
  PROVE  ArmedFits'
<1>0. HasTop(cfg'.oracle)
  BY DEF ArmedFits, Writes
<1> SUFFICES ASSUME NEW n \in Live', pending'[queue'[n].kind] = n
             PROVE  Executable(cfg', queue'[n].kind, queue'[n].data)
  BY <1>0 DEF ArmedFits
<1>1. n \in Live /\ n # r /\ queue'[n] = queue[n] /\ n # None
  BY TimelockAssumption DEF Releases, TypeOK, TimelockAssumption
<1>2. queue[n].kind \in AllKinds
  BY <1>1, TimelockAssumption DEF TypeOK, TimelockAssumption
<1>3. pending[queue[n].kind] = n
  BY <1>1, <1>2 DEF Releases
<1>4. Executable(cfg, queue[n].kind, queue[n].data)
  BY <1>1, <1>3 DEF ArmedFits
<1>5. CASE cfg' = cfg
  BY <1>1, <1>4, <1>5
<1>6. CASE \E kind : Consume(r, kind) /\ Writes(kind)
  <2>1. PICK kind : Consume(r, kind) /\ Writes(kind)
    BY <1>6
  <2>2. queue[n].kind # kind
    BY <1>1, <1>3, <2>1 DEF Consume
  <2>3. queue[n].kind = "SetPublicMint" => ~cfg'.publicMint
    BY <1>1 DEF Consistent, PendingOpenMeansMintClosed
  <2>4. QED
    BY <1>1, <1>4, <2>1, <2>2, <2>3 DEF Executable, Writes
<1>7. QED
  BY <1>5, <1>6

LEMMA LeversFit ==
  ASSUME TypeOK, Consistent, Consistent', ArmedFits, Levers
  PROVE  ArmedFits'
<1>0. HasTop(cfg'.oracle)
  BY LeversRelease, TighteningKeeps DEF ArmedFits
<1> SUFFICES ASSUME NEW n \in Live', pending'[queue'[n].kind] = n
             PROVE  Executable(cfg', queue'[n].kind, queue'[n].data)
  BY <1>0 DEF ArmedFits
<1>1. n \in Live /\ queue' = queue /\ OnlyTightens(cfg, cfg')
  BY LeversRelease DEF Live
<1>2. queue[n].kind \in AllKinds /\ n # None
  BY <1>1, TimelockAssumption DEF TypeOK, TimelockAssumption
<1>3. pending[queue[n].kind] = n
  BY <1>1, <1>2, LeversRelease
<1>4. Executable(cfg, queue[n].kind, queue[n].data)
  BY <1>1, <1>3 DEF ArmedFits
<1>5. /\ cfg'.oracle = cfg.oracle /\ cfg'.compliance = cfg.compliance
      /\ cfg'.inventory = cfg.inventory
      /\ cfg'.publicMint => cfg.publicMint
  BY <1>1, TighteningKeeps
<1>6. queue'[n] = queue[n]
  BY <1>1
<1>7. Executable(cfg', queue[n].kind, queue[n].data)
  BY <1>4, <1>5 DEF Executable
<1>8. QED
  BY <1>6, <1>7

LEMMA NextFits ==
  ASSUME TypeOK, Consistent, Consistent', ArmedFits, [Next]_vars
  PROVE  ArmedFits'
<1>1. CASE Propose
  <2>1. PICK kind, data : Schedule(kind, data) /\ Executable(cfg, kind, data)
    BY <1>1, ProposeFits DEF ArmedFits
  <2>2. QED
    BY <2>1, ScheduleFits
<1>2. CASE \E n \in Live : Execute(n)
  <2>1. PICK n \in Live : Execute(n)
    BY <1>2
  <2>2. PICK kind : Consume(n, kind) /\ Writes(kind)
    BY <2>1, ExecuteWrites
  <2>3. QED
    BY <2>1, <2>2, ExecuteReleases, ReleaseFits
<1>3. CASE \E n \in Live : CancelTimelocked(n)
  <2>1. PICK n \in Live : CancelTimelocked(n)
    BY <1>3
  <2>2. cfg' = cfg
    BY <2>1 DEF CancelTimelocked
  <2>3. QED
    BY <2>1, <2>2, CancelReleases, ReleaseFits
<1>4. CASE Levers
  BY <1>4, LeversFit
<1>5. CASE UNCHANGED << queueVars, cfg, mintPausedUntil >>
  BY <1>5 DEF queueVars, ArmedFits, Live
<1>6. QED
  BY <1>1, <1>2, <1>3, <1>4, <1>5, StepShapes

\* No armed proposal is doomed: what execute_* validates again at the end of the
\* timelock still holds of every queued argument (execute.rs 486-530, 684-700).
THEOREM ArmedIsExecutable == Spec => []ArmedStaysExecutable
<1>1. QueueInvariant <=> TypeOK /\ Consistent
  BY DEF QueueInvariant, Consistent
<1>2. QueueInvariant /\ QueueInvariant' /\ ArmedFits /\ [Next]_vars => ArmedFits'
  BY NextFits DEF QueueInvariant, Consistent
<1>3. QED
  <2>1. QueueInvariant /\ ArmedFits => ArmedStaysExecutable
    BY ArmedForm DEF QueueInvariant
  <2>2. QED
    BY <1>2, <2>1, InitFits, QueueCorrect, PTL DEF Spec

-----------------------------------------------------------------------------
(* Closed redemptions reopen by a decision taken after the close.           *)

\* The inductive invariant of the history: while redemptions are closed, the
\* armed redeem-limits proposal, if any, was queued after the close.
CloseIsRemembered ==
  /\ closedAt \in Nat /\ closedAt <= nextNonce
  /\ ~cfg.redeem.enabled /\ pending["SetRedeemLimits"] # None
       => pending["SetRedeemLimits"] >= closedAt

\* Whatever closes redemptions leaves no redeem-limits proposal armed.
LEMMA ClosingDisarms ==
  ASSUME TypeOK, Consistent, [Next]_vars, cfg.redeem.enabled, ~cfg'.redeem.enabled
  PROVE  pending'["SetRedeemLimits"] = None
<1>1. "SetRedeemLimits" \in AllKinds /\ pending \in [AllKinds -> Nat \cup {None}]
  BY DEF AllKinds, TypeOK
<1>2. cfg \in Config /\ cfg.redeem \in RedeemLimits
  BY DEF TypeOK, Config
<1>3. CASE \E n \in Live : \E kind : Consume(n, kind) /\ Writes(kind)
  <2>0. PICK n \in Live : \E kind : Consume(n, kind) /\ Writes(kind)
    BY <1>3
  <2>1. PICK kind : Consume(n, kind) /\ Writes(kind)
    BY <2>0
  <2>2. kind = "SetRedeemLimits"
    BY <2>1 DEF Writes
  <2>3. QED
    BY <1>1, <2>1, <2>2 DEF Consume
<1>4. CASE Levers
  <2>1. CASE SetRedemptionsEnabled
    BY <1>1, <2>1 DEF SetRedemptionsEnabled
  <2>2. CASE SetPublicMintEnabled
    <3>1. cfg'.redeem = cfg.redeem
      BY <1>2, <2>2 DEF SetPublicMintEnabled, Config
    <3>2. QED
      BY <3>1
  <2>3. CASE \E args \in RedeemInputs : EmergencyTightenRedeemLimits(args)
    <3>1. PICK args \in RedeemInputs : EmergencyTightenRedeemLimits(args)
      BY <2>3
    <3>2. cfg'.redeem = RedeemOverlay(cfg.redeem, args)
      BY <1>2, <3>1 DEF EmergencyTightenRedeemLimits, Config
    <3>3. args.enabled # None
      BY <3>2 DEF RedeemOverlay, Given
    <3>4. QED
      BY <1>1, <3>1, <3>3 DEF EmergencyTightenRedeemLimits
  <2>4. CASE Pause
    BY <2>4 DEF Pause
  <2>5. QED
    BY <1>4, <2>1, <2>2, <2>3, <2>4 DEF Levers
<1>5. QED
  BY <1>3, <1>4, StepWrites

\* A slot is kept, emptied, or given the next nonce; nonces are never reused.
LEMMA SlotsTakeNewNonces ==
  ASSUME TypeOK, Consistent, [Next]_vars
  PROVE  /\ nextNonce' >= nextNonce
         /\ pending'["SetRedeemLimits"] \in {pending["SetRedeemLimits"], None, nextNonce}
<1>1. /\ "SetRedeemLimits" \in AllKinds /\ pending \in [AllKinds -> Nat \cup {None}]
      /\ nextNonce \in Nat
  BY DEF AllKinds, TypeOK
<1>2. CASE Propose
  <2>1. PICK kind, data : Schedule(kind, data)
    BY <1>2, ProposeSchedules
  <2>2. QED
    BY <1>1, <2>1 DEF Schedule
<1>3. CASE \E n \in Live : Execute(n)
  <2>1. PICK n \in Live : Execute(n)
    BY <1>3
  <2>2. PICK kind : Consume(n, kind)
    BY <2>1, ExecuteWrites
  <2>3. QED
    BY <1>1, <2>2 DEF Consume
<1>4. CASE \E n \in Live : CancelTimelocked(n)
  <2>1. PICK n \in Live : CancelTimelocked(n)
    BY <1>4
  <2>2. Releases(n) /\ nextNonce' = nextNonce
    BY <2>1, CancelReleases DEF CancelTimelocked
  <2>3. QED
    BY <1>1, <2>2 DEF Releases
<1>5. CASE Levers
  BY <1>1, <1>5, LeversRelease
<1>6. CASE UNCHANGED << queueVars, cfg, mintPausedUntil >>
  BY <1>1, <1>6 DEF queueVars
<1>7. QED
  BY <1>2, <1>3, <1>4, <1>5, <1>6, StepShapes

LEMMA CloseStaysRemembered ==
  ASSUME TypeOK, TypeOK', Consistent, CloseIsRemembered, HNext
  PROVE  CloseIsRemembered'
<1>1. /\ nextNonce \in Nat /\ nextNonce' \in Nat /\ None \notin Nat
      /\ "SetRedeemLimits" \in AllKinds
      /\ pending["SetRedeemLimits"] \in Nat \cup {None}
  BY TimelockAssumption DEF TypeOK, AllKinds, TimelockAssumption
<1>2. /\ nextNonce' >= nextNonce
      /\ pending'["SetRedeemLimits"] \in {pending["SetRedeemLimits"], None, nextNonce}
  BY SlotsTakeNewNonces DEF HNext
<1>3. CASE cfg.redeem.enabled /\ ~cfg'.redeem.enabled
  <2>1. pending'["SetRedeemLimits"] = None /\ closedAt' = nextNonce
    BY <1>3, ClosingDisarms DEF HNext
  <2>2. QED
    BY <1>1, <1>2, <2>1 DEF CloseIsRemembered
<1>4. CASE ~(cfg.redeem.enabled /\ ~cfg'.redeem.enabled)
  <2>1. closedAt' = closedAt
    BY <1>4 DEF HNext
  <2>2. /\ closedAt \in Nat /\ closedAt <= nextNonce
        /\ ~cfg.redeem.enabled /\ pending["SetRedeemLimits"] # None
             => pending["SetRedeemLimits"] >= closedAt
    BY DEF CloseIsRemembered
  <2>3. closedAt' \in Nat /\ closedAt' <= nextNonce'
    BY <1>1, <1>2, <2>1, <2>2
  <2>4. ~cfg'.redeem.enabled /\ pending'["SetRedeemLimits"] # None
          => pending'["SetRedeemLimits"] >= closedAt'
    BY <1>1, <1>2, <1>4, <2>1, <2>2
  <2>5. QED
    BY <2>3, <2>4 DEF CloseIsRemembered
<1>5. QED
  BY <1>3, <1>4

LEMMA HistoryIsRun == HSpec => Spec
<1>1. [HNext]_historyVars => [Next]_vars
  BY DEF HNext, historyVars
<1>2. QED
  BY <1>1, PTL DEF HSpec, HInit, Spec

LEMMA CloseIsKept == HSpec => []CloseIsRemembered
<1>1. HInit => CloseIsRemembered
  BY DEF HInit, Init, CloseIsRemembered
<1>2. QueueInvariant /\ QueueInvariant' /\ CloseIsRemembered /\ [HNext]_historyVars
        => CloseIsRemembered'
  <2> SUFFICES ASSUME TypeOK, TypeOK', Consistent, CloseIsRemembered, [HNext]_historyVars
               PROVE  CloseIsRemembered'
    BY DEF QueueInvariant, Consistent
  <2>1. CASE HNext
    BY <2>1, CloseStaysRemembered
  <2>2. CASE UNCHANGED historyVars
    BY <2>2 DEF historyVars, vars, CloseIsRemembered
  <2>3. QED
    BY <2>1, <2>2
<1>3. QED
  BY <1>1, <1>2, HistoryIsRun, QueueCorrect, PTL DEF HSpec

\* An emergency close is never undone by a decision taken before it: what reopens
\* redemptions is a matured proposal that was queued since (caps.rs 134-157,
\* execute.rs 684-697).
THEOREM ReopeningIsFresh == HSpec => ReopenIsFresh
<1> DEFINE Step == (~cfg.redeem.enabled /\ cfg'.redeem.enabled) =>
                     \E n \in Live \ Live' : n >= closedAt /\ Matured(n)
<1>1. QueueInvariant /\ CloseIsRemembered /\ [HNext]_historyVars => [Step]_historyVars
  <2> SUFFICES ASSUME TypeOK, Consistent, CloseIsRemembered, [HNext]_historyVars,
                      ~cfg.redeem.enabled, cfg'.redeem.enabled
               PROVE  \E n \in Live \ Live' : n >= closedAt /\ Matured(n)
    BY DEF QueueInvariant, Consistent
  <2>1. [Next]_vars
    BY DEF HNext, historyVars
  <2>2. CASE \E n \in Live : \E kind : Consume(n, kind) /\ Writes(kind)
    <3>0. PICK n \in Live : \E kind : Consume(n, kind) /\ Writes(kind)
      BY <2>2
    <3>1. PICK kind : Consume(n, kind) /\ Writes(kind)
      BY <3>0
    <3>2. kind = "SetRedeemLimits"
      BY <3>1 DEF Writes
    <3>3. pending["SetRedeemLimits"] = n /\ n # None
      BY <3>1, <3>2, TimelockAssumption DEF Consume, TypeOK, TimelockAssumption
    <3>4. n >= closedAt
      BY <3>3 DEF CloseIsRemembered
    <3>5. n \in Live \ Live' /\ Matured(n)
      BY <3>1, ConsumedIsMatured DEF Consistent
    <3>6. QED
      BY <3>4, <3>5
  <2>3. CASE OnlyTightens(cfg, cfg')
    <3>1. ~Loosens(cfg.redeem, cfg'.redeem)
      BY <2>3, TighteningKeeps
    <3>2. QED
      BY <3>1 DEF Loosens
  <2>4. QED
    BY <2>1, <2>2, <2>3, StepWrites
<1>2. QED
  BY <1>1, HistoryIsRun, QueueCorrect, CloseIsKept, PTL DEF HSpec, ReopenIsFresh

-----------------------------------------------------------------------------
(* What a decision to unpause reviewed is what goes live.                   *)

\* The inductive invariant: since a decision taken during this pause, the pause
\* has held and the throttles have at most tightened.
DecisionIsHeld ==
  approved.samePause =>
    /\ paused
    /\ approved.config \in Config
    /\ ~Loosens(approved.config.redeem, cfg.redeem)

LEMMA LooseningIsTransitive ==
  ASSUME NEW a \in RedeemLimits, NEW b \in RedeemLimits, NEW c \in RedeemLimits,
         ~Loosens(a, b), ~Loosens(b, c)
  PROVE  ~Loosens(a, c)
BY DEF Loosens, RedeemLimits

\* Only an unpause ends a pause.
LEMMA PauseStays ==
  ASSUME TypeOK, paused, QueueNext \/ Levers \/ Environment
  PROVE  paused'
<1>1. CASE Propose
  <2>1. PICK kind, data : Schedule(kind, data)
    BY <1>1, ProposeSchedules
  <2>2. QED
    BY <2>1 DEF Schedule
<1>2. CASE \E n \in Live : Execute(n)
  <2>1. PICK kind : Writes(kind)
    BY <1>2, ExecuteWrites
  <2>2. QED
    BY <2>1 DEF Writes
<1>3. CASE \E n \in Live : CancelTimelocked(n)
  BY <1>3 DEF CancelTimelocked
<1>4. CASE Levers
  BY <1>4 DEF Levers, SetRedemptionsEnabled, SetPublicMintEnabled, Pause,
              EmergencyTightenRedeemLimits
<1>5. CASE Environment
  BY <1>5 DEF Environment, Tick, GuardianSetChanges, TreasuryFlow
<1>6. QED
  BY <1>1, <1>2, <1>3, <1>4, <1>5 DEF QueueNext

\* The digest an approved unpause carries is that of the config it meets.
LEMMA ReadinessIsRun == RSpec => Spec
<1>1. [RNext]_rvars => [Next]_vars
  <2> SUFFICES ASSUME [RNext]_rvars PROVE [Next]_vars
    OBVIOUS
  <2>1. CASE ExecuteApprovedUnpause
    <3>1. ReadinessDigest(approved.config) = ReadinessDigest(cfg)
      BY <2>1 DEF ExecuteApprovedUnpause, Unpause
    <3>2. Unpause(ReadinessDigest(cfg))
      BY <2>1, <3>1 DEF ExecuteApprovedUnpause
    <3>3. QED
      BY <3>2 DEF Next
  <2>2. CASE BuildUnpause \/ UNCHANGED rvars
    BY <2>2 DEF BuildUnpause, rvars
  <2>3. CASE QueueNext \/ Levers \/ Environment
    BY <2>3 DEF Next
  <2>4. QED
    BY <2>1, <2>2, <2>3 DEF RNext
<1>2. QED
  BY <1>1, PTL DEF RSpec, RInit, Spec

LEMMA DecisionStaysHeld ==
  ASSUME TypeOK, TypeOK', Consistent, DecisionIsHeld, [RNext]_rvars
  PROVE  DecisionIsHeld'
<1>1. cfg \in Config /\ cfg' \in Config
  BY DEF TypeOK
<1>2. cfg.redeem \in RedeemLimits /\ cfg'.redeem \in RedeemLimits
  BY <1>1 DEF Config
<1>3. CASE BuildUnpause
  <2>1. approved'.config = cfg /\ approved'.samePause = paused /\ cfg' = cfg /\ paused' = paused
    BY <1>3 DEF BuildUnpause, vars
  <2>2. QED
    BY <1>1, <1>2, <2>1, NothingLoosens DEF DecisionIsHeld
<1>4. CASE ExecuteApprovedUnpause
  BY <1>4 DEF ExecuteApprovedUnpause, NoDecision, DecisionIsHeld
<1>5. CASE (QueueNext \/ Levers \/ Environment) /\ UNCHANGED approved
  <2> SUFFICES ASSUME approved'.samePause
               PROVE  /\ paused'
                      /\ approved'.config \in Config
                      /\ ~Loosens(approved'.config.redeem, cfg'.redeem)
    BY DEF DecisionIsHeld
  <2>1. /\ paused /\ approved.config \in Config /\ approved' = approved
        /\ ~Loosens(approved.config.redeem, cfg.redeem)
    BY <1>5 DEF DecisionIsHeld
  <2>2. paused'
    BY <1>5, <2>1, PauseStays
  <2>3. [Next]_vars
    BY <1>5 DEF Next
  <2>4. ~Loosens(cfg.redeem, cfg'.redeem)
    BY <2>1, <2>3, PauseHolds
  <2>5. approved.config.redeem \in RedeemLimits
    BY <2>1 DEF Config
  <2>6. QED
    BY <1>2, <2>1, <2>2, <2>4, <2>5, LooseningIsTransitive
<1>6. CASE UNCHANGED rvars
  BY <1>6 DEF rvars, vars, DecisionIsHeld
<1>7. QED
  BY <1>3, <1>4, <1>5, <1>6 DEF RNext

LEMMA DecisionHolds == RSpec => []DecisionIsHeld
<1>1. RInit => DecisionIsHeld
  BY DEF RInit, NoDecision, DecisionIsHeld
<1>2. QueueInvariant /\ QueueInvariant' /\ DecisionIsHeld /\ [RNext]_rvars => DecisionIsHeld'
  BY DecisionStaysHeld DEF QueueInvariant, Consistent
<1>3. QED
  BY <1>1, <1>2, ReadinessIsRun, QueueCorrect, PTL DEF RSpec

\* What goes live has the wallet, the feed, the publisher floor and the switches
\* that the decision reviewed, and throttles no looser (pause.rs 78-95,
\* execute.rs 694-697).
THEOREM ReviewedGoesLive == RSpec => ReviewedExposureGoesLive
<1> DEFINE Step == GoesLive /\ approved.samePause =>
                     /\ cfg.inventory = approved.config.inventory
                     /\ cfg.feed = approved.config.feed
                     /\ cfg.oracle.publishers = approved.config.oracle.publishers
                     /\ cfg.publicMint = approved.config.publicMint
                     /\ ~Loosens(approved.config.redeem, cfg.redeem)
<1>1. QueueInvariant /\ DecisionIsHeld /\ [RNext]_rvars => [Step]_rvars
  <2> SUFFICES ASSUME TypeOK, DecisionIsHeld, [RNext]_rvars, GoesLive, approved.samePause
               PROVE  Step
    BY DEF QueueInvariant
  <2>1. ~(QueueNext \/ Levers \/ Environment)
    BY PauseStays DEF GoesLive
  <2>2. ~BuildUnpause /\ ~UNCHANGED rvars
    BY DEF BuildUnpause, GoesLive, rvars, vars
  <2>3. ExecuteApprovedUnpause
    BY <2>1, <2>2 DEF RNext
  <2>4. ReadinessDigest(approved.config) = ReadinessDigest(cfg)
    BY <2>3 DEF ExecuteApprovedUnpause, Unpause
  <2>5. /\ cfg.inventory = approved.config.inventory
        /\ cfg.feed = approved.config.feed
        /\ cfg.oracle.publishers = approved.config.oracle.publishers
        /\ cfg.publicMint = approved.config.publicMint
    BY <2>4 DEF ReadinessDigest
  <2>6. QED
    BY <2>5 DEF DecisionIsHeld
<1>2. QED
  BY <1>1, ReadinessIsRun, QueueCorrect, DecisionHolds, PTL DEF RSpec, ReviewedExposureGoesLive
=============================================================================
