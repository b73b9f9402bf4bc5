---------------------------- MODULE TimelockProofs ----------------------------
(***************************************************************************)
(* Proofs about module Timelock, for every value of its constants.         *)
(***************************************************************************)
EXTENDS Timelock, FiniteSetTheorems, TLAPS

\* The part of TypeOK that speaks of the queue, its slots and its counters.
QueueTyped ==
  /\ Live \subseteq Nat
  /\ \A n \in Live :
       /\ queue[n].kind \in Kinds
       /\ DataFits(queue[n].kind, queue[n].data)
       /\ queue[n].scheduledAt \in Nat
       /\ queue[n].executableAt \in Nat
  /\ pending \in [AllKinds -> Nat \cup {None}]
  /\ nextNonce \in Nat
  /\ activeCount \in Nat

LEMMA InitTyped == Init => TypeOK
<1> SUFFICES ASSUME Init PROVE TypeOK
  OBVIOUS
<1>1. cfg \in Config
  BY TimelockAssumption DEF Init, TimelockAssumption
<1>2. Live = {}
  BY DEF Init, Live
<1>3. pending \in [AllKinds -> Nat \cup {None}]
  BY DEF Init
<1> QED
  BY <1>1, <1>2, <1>3 DEF Init, TypeOK

\* Every propose_* handler: the new account has the type of its kind.
LEMMA ScheduleTyped ==
  ASSUME TypeOK, NEW kind, NEW data, DataFits(kind, data), Schedule(kind, data)
  PROVE  QueueTyped'
<1>1. Live' = Live \cup {nextNonce}
  BY DEF Schedule, Live
<1>2. cfg.delay \in Nat /\ now \in Nat /\ nextNonce \in Nat
  BY DEF TypeOK, Config
<1>3. ASSUME NEW n \in Live'
      PROVE  /\ queue'[n].kind \in Kinds
             /\ DataFits(queue'[n].kind, queue'[n].data)
             /\ queue'[n].scheduledAt \in Nat
             /\ queue'[n].executableAt \in Nat
  <2>1. CASE n = nextNonce
    <3>1. queue'[n] = Proposal(kind, data)
      BY <1>1, <2>1 DEF Schedule, Live
    <3>2. kind \in Kinds
      BY DEF Schedule
    <3> QED
      BY <1>2, <3>1, <3>2 DEF Proposal
  <2>2. CASE n # nextNonce
    <3>1. n \in Live /\ queue'[n] = queue[n]
      BY <1>1, <2>2 DEF Schedule, Live
    <3> QED
      BY <3>1 DEF TypeOK
  <2> QED
    BY <2>1, <2>2
<1>4. pending' \in [AllKinds -> Nat \cup {None}]
  BY <1>2 DEF Schedule, TypeOK
<1>5. nextNonce' \in Nat /\ activeCount' \in Nat
  BY DEF Schedule, TypeOK
<1> QED
  BY <1>1, <1>2, <1>3, <1>4, <1>5 DEF QueueTyped, TypeOK

\* Every execute_* handler: what it consumes decodes as its kind, and what it
\* leaves behind keeps its type.
LEMMA ConsumeTyped ==
  ASSUME TypeOK, NEW n, NEW kind, Consume(n, kind)
  PROVE  kind \in Kinds /\ DataFits(kind, queue[n].data) /\ QueueTyped'
<1>1. n \in Live /\ queue[n].kind = kind
  BY DEF Consume
<1>2. kind \in Kinds /\ DataFits(kind, queue[n].data)
  BY <1>1 DEF TypeOK
<1>3. Live' = Live \ {n} /\ \A m \in Live' : queue'[m] = queue[m]
  BY DEF Consume, Live
<1>4. pending' \in [AllKinds -> Nat \cup {None}]
  BY DEF Consume, TypeOK
<1>5. nextNonce' \in Nat /\ activeCount' \in Nat
  BY DEF Consume, TypeOK, SaturatingDecrement
<1> QED
  BY <1>2, <1>3, <1>4, <1>5 DEF QueueTyped, TypeOK

LEMMA CancelTyped ==
  ASSUME TypeOK, NEW n, CancelTimelocked(n)
  PROVE  QueueTyped' /\ mintPausedUntil' \in Nat
<1>1. Live' = Live \ {n} /\ \A m \in Live' : queue'[m] = queue[m]
  BY DEF CancelTimelocked, Live
<1>2. pending' \in [AllKinds -> Nat \cup {None}]
  BY DEF CancelTimelocked, TypeOK
<1>3. nextNonce' \in Nat /\ activeCount' \in Nat /\ mintPausedUntil' \in Nat
  BY DEF CancelTimelocked, TypeOK, SaturatingDecrement
<1> QED
  BY <1>1, <1>2, <1>3 DEF QueueTyped, TypeOK

\* The overlays of optional arguments stay within the types of what they change.
LEMMA OverlaysTyped ==
  ASSUME TimelockAssumption
  PROVE  /\ \A current \in OracleGuards, args \in OracleGuardsArgs :
              OracleOverlay(current, args) \in OracleGuards
         /\ \A current \in RedeemLimits, args \in RedeemLimitsArgs :
              RedeemOverlay(current, args) \in RedeemLimits
  BY DEF OracleOverlay, OracleGuards, OracleGuardsArgs, RedeemOverlay, RedeemLimits,
         RedeemLimitsArgs, Given

\* Which arguments fit which kind, one fact per shape.
LEMMA DataShapes ==
  ASSUME NEW data
  PROVE  /\ DataFits("SetOracleGuards", data) <=> data \in OracleGuardsArgs
         /\ DataFits("SetRedeemLimits", data) <=> data \in RedeemLimitsArgs
         /\ DataFits("SetInventoryWallet", data) <=> data \in Wallets
         /\ \A kind \in {"SetComplianceMode", "SetPublicMint"} :
              DataFits(kind, data) <=> data \in BOOLEAN
         /\ \A kind \in { "SetPremiumMint", "SetPremiumRedeem", "WithdrawUsdc",
                          "SetTreasuryFloat", "UpdateMetadata", "SetPythFeed",
                          "SetAdminTimelock" } :
              DataFits(kind, data) <=> data \in Nat
  BY DEF DataFits

\* A propose_* handler schedules one proposal that fits its kind; only a mint
\* premium moves the freeze, and only for a closed mint is an opening proposed.
LEMMA ProposeSchedules ==
  ASSUME TypeOK, Propose
  PROVE  \E kind, data :
           /\ DataFits(kind, data)
           /\ Schedule(kind, data)
           /\ mintPausedUntil' =
                IF kind = "SetPremiumMint" THEN now + cfg.delay ELSE mintPausedUntil
           /\ kind = "SetPublicMint" => ~cfg.publicMint
           /\ kind = "SetAdminTimelock" => data >= MinDelay
<1>1. CASE \E v \in Levels :
             \/ ProposeSetPremiumMint(v)
             \/ ProposeSetPremiumRedeem(v)
             \/ ProposeWithdrawUsdc(v)
             \/ ProposeSetTreasuryMinFloat(v)
             \/ ProposeSetAdminTimelock(v)
             \/ ProposeSetPythFeed(v)
             \/ ProposeUpdateMetadata(v)
  <2>1. PICK v \in Levels :
             \/ ProposeSetPremiumMint(v)
             \/ ProposeSetPremiumRedeem(v)
             \/ ProposeWithdrawUsdc(v)
             \/ ProposeSetTreasuryMinFloat(v)
             \/ ProposeSetAdminTimelock(v)
             \/ ProposeSetPythFeed(v)
             \/ ProposeUpdateMetadata(v)
    BY <1>1
  <2>2. v \in Nat
    BY TimelockAssumption DEF TimelockAssumption
  <2>3. CASE ProposeSetPremiumMint(v)
    BY <2>2, <2>3, DataShapes DEF ProposeSetPremiumMint
  <2>4. CASE ProposeSetPremiumRedeem(v)
    BY <2>2, <2>4, DataShapes DEF ProposeSetPremiumRedeem
  <2>5. CASE ProposeWithdrawUsdc(v)
    BY <2>2, <2>5, DataShapes DEF ProposeWithdrawUsdc
  <2>6. CASE ProposeSetTreasuryMinFloat(v)
    BY <2>2, <2>6, DataShapes DEF ProposeSetTreasuryMinFloat
  <2>7. CASE ProposeSetAdminTimelock(v)
    BY <2>2, <2>7, DataShapes DEF ProposeSetAdminTimelock
  <2>8. CASE ProposeSetPythFeed(v)
    BY <2>2, <2>8, DataShapes DEF ProposeSetPythFeed
  <2>9. CASE ProposeUpdateMetadata(v)
    BY <2>2, <2>9, DataShapes DEF ProposeUpdateMetadata
  <2> QED
    BY <2>1, <2>3, <2>4, <2>5, <2>6, <2>7, <2>8, <2>9
<1>2. CASE ProposeSetPublicMint
  <2>1. DataFits("SetPublicMint", TRUE)
    BY DataShapes
  <2>2. Schedule("SetPublicMint", TRUE) /\ ~cfg.publicMint /\ UNCHANGED mintPausedUntil
    BY <1>2 DEF ProposeSetPublicMint
  <2> QED
    BY <2>1, <2>2, "SetPublicMint" # "SetPremiumMint", "SetPublicMint" # "SetAdminTimelock"
<1>3. CASE \E w \in Wallets : ProposeSetInventoryWallet(w)
  BY <1>3, DataShapes DEF ProposeSetInventoryWallet
<1>4. CASE \E mode \in BOOLEAN : ProposeSetComplianceMode(mode)
  BY <1>4, DataShapes DEF ProposeSetComplianceMode
<1>5. CASE \E args \in OracleInputs : ProposeSetOracleGuards(args)
  BY <1>5, DataShapes, TimelockAssumption
  DEF ProposeSetOracleGuards, TimelockAssumption
<1>6. CASE \E args \in RedeemInputs : ProposeSetRedeemLimits(args)
  BY <1>6, DataShapes, TimelockAssumption
  DEF ProposeSetRedeemLimits, TimelockAssumption
<1> QED
  BY <1>1, <1>2, <1>3, <1>4, <1>5, <1>6 DEF Propose

LEMMA ProposeTyped == TypeOK /\ Propose => TypeOK'
<1> SUFFICES ASSUME TypeOK, Propose PROVE TypeOK'
  OBVIOUS
<1>1. PICK kind, data :
        /\ DataFits(kind, data)
        /\ Schedule(kind, data)
        /\ mintPausedUntil' =
             IF kind = "SetPremiumMint" THEN now + cfg.delay ELSE mintPausedUntil
  BY ProposeSchedules
<1>2. QueueTyped'
  BY <1>1, ScheduleTyped
<1>3. UNCHANGED << envVars, paused, cfg >>
  BY <1>1 DEF Schedule
<1>4. mintPausedUntil' \in Nat
  BY <1>1 DEF TypeOK, Config
<1> QED
  BY <1>2, <1>3, <1>4 DEF TypeOK, QueueTyped, envVars

\* What an execution writes into the config and the treasury has their type.
LEMMA ExecuteTyped == ASSUME TypeOK, NEW n, Execute(n) PROVE TypeOK'
<1> DEFINE Rest == /\ cfg' \in Config
                   /\ treasury' \in Nat
                   /\ paused' \in BOOLEAN
                   /\ mintPausedUntil' \in Nat
<1>1. PICK kind : Consume(n, kind)
  BY DEF Execute, ExecuteSetPremiumMint, ExecuteSetPremiumRedeem, ExecuteWithdrawUsdc,
         ExecuteSetComplianceMode, ExecuteSetOracleGuards, ExecuteSetRedeemLimits,
         ExecuteSetTreasuryMinFloat, ExecuteSetAdminTimelock, ExecuteSetInventoryWallet,
         ExecuteSetPublicMint, ExecuteSetPythFeed, ExecuteUpdateMetadata
<1>2. QueueTyped' /\ UNCHANGED << now, brake >>
  BY <1>1, ConsumeTyped DEF Consume
<1>3. Rest
  <2> DEFINE data == queue[n].data
  <2> USE DEF TypeOK
  <2>1. CASE ExecuteSetPremiumMint(n)
    <3>1. data \in Nat
      BY <2>1, ConsumeTyped, DataShapes DEF ExecuteSetPremiumMint
    <3> QED
      BY <2>1, <3>1 DEF ExecuteSetPremiumMint, Config
  <2>2. CASE ExecuteSetPremiumRedeem(n)
    <3>1. data \in Nat
      BY <2>2, ConsumeTyped, DataShapes DEF ExecuteSetPremiumRedeem
    <3> QED
      BY <2>2, <3>1 DEF ExecuteSetPremiumRedeem, Config
  <2>3. CASE ExecuteWithdrawUsdc(n)
    <3>1. data \in Nat
      BY <2>3, ConsumeTyped, DataShapes DEF ExecuteWithdrawUsdc
    <3> QED
      BY <2>3, <3>1 DEF ExecuteWithdrawUsdc
  <2>4. CASE ExecuteSetComplianceMode(n)
    <3>1. data \in BOOLEAN
      BY <2>4, ConsumeTyped, DataShapes DEF ExecuteSetComplianceMode
    <3> QED
      BY <2>4, <3>1 DEF ExecuteSetComplianceMode, Config
  <2>5. CASE ExecuteSetOracleGuards(n)
    <3>1. data \in OracleGuardsArgs
      BY <2>5, ConsumeTyped, DataShapes DEF ExecuteSetOracleGuards
    <3>2. OracleOverlay(cfg.oracle, data) \in OracleGuards
      BY <3>1, OverlaysTyped, TimelockAssumption DEF Config
    <3> QED
      BY <2>5, <3>2 DEF ExecuteSetOracleGuards, Config
  <2>6. CASE ExecuteSetRedeemLimits(n)
    <3>1. data \in RedeemLimitsArgs
      BY <2>6, ConsumeTyped, DataShapes DEF ExecuteSetRedeemLimits
    <3>2. RedeemOverlay(cfg.redeem, data) \in RedeemLimits
      BY <3>1, OverlaysTyped, TimelockAssumption DEF Config
    <3> QED
      BY <2>6, <3>2 DEF ExecuteSetRedeemLimits, Config
  <2>7. CASE ExecuteSetTreasuryMinFloat(n)
    <3>1. data \in Nat
      BY <2>7, ConsumeTyped, DataShapes DEF ExecuteSetTreasuryMinFloat
    <3> QED
      BY <2>7, <3>1 DEF ExecuteSetTreasuryMinFloat, Config
  <2>8. CASE ExecuteSetAdminTimelock(n)
    <3>1. data \in Nat
      BY <2>8, ConsumeTyped, DataShapes DEF ExecuteSetAdminTimelock
    <3> QED
      BY <2>8, <3>1 DEF ExecuteSetAdminTimelock, Config
  <2>9. CASE ExecuteSetInventoryWallet(n)
    <3>1. data \in Wallets
      BY <2>9, ConsumeTyped, DataShapes DEF ExecuteSetInventoryWallet
    <3> QED
      BY <2>9, <3>1 DEF ExecuteSetInventoryWallet, Config
  <2>10. CASE ExecuteSetPublicMint(n)
    BY <2>10 DEF ExecuteSetPublicMint, Config
  <2>11. CASE ExecuteSetPythFeed(n)
    <3>1. data \in Nat
      BY <2>11, ConsumeTyped, DataShapes DEF ExecuteSetPythFeed
    <3> QED
      BY <2>11, <3>1 DEF ExecuteSetPythFeed, Config
  <2>12. CASE ExecuteUpdateMetadata(n)
    <3>1. data \in Nat
      BY <2>12, ConsumeTyped, DataShapes DEF ExecuteUpdateMetadata
    <3> QED
      BY <2>12, <3>1 DEF ExecuteUpdateMetadata, Config
  <2> QED
    BY <2>1, <2>2, <2>3, <2>4, <2>5, <2>6, <2>7, <2>8, <2>9, <2>10, <2>11, <2>12
    DEF Execute
<1> QED
  BY <1>2, <1>3 DEF TypeOK, QueueTyped

LEMMA LeversTyped == TypeOK /\ Levers => TypeOK'
<1> SUFFICES ASSUME TypeOK, Levers PROVE TypeOK'
  OBVIOUS
<1>1. CASE SetRedemptionsEnabled
  <2>1. cfg' \in Config
    BY <1>1 DEF SetRedemptionsEnabled, TypeOK, Config, RedeemLimits
  <2> QED
    BY <1>1, <2>1 DEF SetRedemptionsEnabled, TypeOK, envVars, Live
<1>2. CASE SetPublicMintEnabled
  <2>1. cfg' \in Config
    BY <1>2 DEF SetPublicMintEnabled, TypeOK, Config
  <2> QED
    BY <1>2, <2>1 DEF SetPublicMintEnabled, TypeOK, envVars, Live
<1>3. CASE \E args \in RedeemInputs : EmergencyTightenRedeemLimits(args)
  <2>1. PICK args \in RedeemInputs : EmergencyTightenRedeemLimits(args)
    BY <1>3
  <2>2. RedeemOverlay(cfg.redeem, args) \in RedeemLimits
    BY OverlaysTyped, TimelockAssumption DEF TypeOK, Config, TimelockAssumption
  <2>3. cfg' \in Config
    BY <2>1, <2>2 DEF EmergencyTightenRedeemLimits, TypeOK, Config
  <2> QED
    BY <2>1, <2>3 DEF EmergencyTightenRedeemLimits, TypeOK, envVars, Live
<1>4. CASE Pause
  BY <1>4 DEF Pause, TypeOK, envVars, queueVars, Live
<1> QED
  BY <1>1, <1>2, <1>3, <1>4 DEF Levers

LEMMA NextTyped == TypeOK /\ [Next]_vars => TypeOK'
<1> SUFFICES ASSUME TypeOK, [Next]_vars PROVE TypeOK'
  OBVIOUS
<1>1. CASE Propose
  BY <1>1, ProposeTyped
<1>2. CASE \E n \in Live : Execute(n) \/ CancelTimelocked(n)
  <2>1. PICK n \in Live : Execute(n) \/ CancelTimelocked(n)
    BY <1>2
  <2>2. CASE Execute(n)
    BY <2>2, ExecuteTyped
  <2>3. CASE CancelTimelocked(n)
    <3>1. UNCHANGED << envVars, paused, cfg >>
      BY <2>3 DEF CancelTimelocked
    <3> QED
      BY <2>3, <3>1, CancelTyped DEF TypeOK, QueueTyped, envVars
  <2> QED
    BY <2>1, <2>2, <2>3
<1>3. CASE Levers
  BY <1>3, LeversTyped
<1>4. CASE Unpause(ReadinessDigest(cfg))
  BY <1>4 DEF Unpause, TypeOK, envVars, queueVars, Live
<1>5. CASE Tick
  BY <1>5 DEF Tick, TypeOK, queueVars, Live
<1>6. CASE GuardianSetChanges
  BY <1>6 DEF GuardianSetChanges, TypeOK, queueVars, Live
<1>7. CASE TreasuryFlow
  BY <1>7, TimelockAssumption DEF TreasuryFlow, TypeOK, queueVars, Live, TimelockAssumption
<1>8. CASE UNCHANGED vars
  BY <1>8 DEF vars, TypeOK, Live
<1> QED
  BY <1>1, <1>2, <1>3, <1>4, <1>5, <1>6, <1>7, <1>8
  DEF Next, QueueNext, Environment

\* Every variable keeps its type for ever; in particular the bytes of every
\* queue account decode as the arguments of the handler that will consume it.
THEOREM TypeCorrect == Spec => []TypeOK
<1> QED
  BY InitTyped, NextTyped, PTL DEF Spec

-----------------------------------------------------------------------------
(* The inductive invariant.                                                 *)

\* What the invariant says of the accounts and the slots, without the types.
Consistent ==
  /\ IsFiniteSet(Live)
  /\ CountIsAccounts
  /\ SlotsNameLiveProposals
  /\ NoticeIsGuaranteed
  /\ MintFrozenWhilePremiumPending
  /\ PendingOpenMeansMintClosed
  /\ OrphansAreRedeemLimits

LEMMA InitConsistent == Init => Consistent
<1> SUFFICES ASSUME Init PROVE Consistent
  OBVIOUS
<1>1. Live = {}
  BY DEF Init, Live
<1>2. IsFiniteSet(Live) /\ Cardinality(Live) = 0
  BY <1>1, FS_EmptySet
<1>3. CountIsAccounts
  BY <1>2, TimelockAssumption DEF Init, CountIsAccounts, TimelockAssumption
<1>4. \A kind \in AllKinds : pending[kind] = None
  BY DEF Init
<1>5. SlotsNameLiveProposals /\ OrphansAreRedeemLimits
  BY <1>1, <1>4 DEF SlotsNameLiveProposals, OrphansAreRedeemLimits
<1>6. NoticeIsGuaranteed
  BY <1>1 DEF Init, NoticeIsGuaranteed
<1>7. MintFrozenWhilePremiumPending /\ PendingOpenMeansMintClosed
  BY <1>4 DEF Init, MintFrozenWhilePremiumPending, PendingOpenMeansMintClosed, AllKinds
<1> QED
  BY <1>2, <1>3, <1>5, <1>6, <1>7 DEF Consistent

LEMMA ScheduleConsistent ==
  ASSUME TypeOK, Consistent, NEW kind, NEW data, Schedule(kind, data),
         mintPausedUntil' =
           IF kind = "SetPremiumMint" THEN now + cfg.delay ELSE mintPausedUntil,
         kind = "SetPublicMint" => ~cfg.publicMint,
         kind = "SetAdminTimelock" => data >= MinDelay
  PROVE  Consistent'
<1> USE TimelockAssumption DEF TimelockAssumption
<1>1. /\ kind \in AllKinds
      /\ nextNonce \notin Live
      /\ nextNonce \in Nat
      /\ cfg' = cfg
  BY DEF Schedule, TypeOK
<1>2. Live' = Live \cup {nextNonce}
  BY DEF Schedule, Live
<1>3. queue'[nextNonce] = Proposal(kind, data)
  BY DEF Schedule
<1>4. \A n \in Live : queue'[n] = queue[n]
  BY <1>1 DEF Schedule
<1>5. \A k \in AllKinds : pending'[k] = IF k = kind THEN nextNonce ELSE pending[k]
  BY DEF Schedule, TypeOK
<1>6. IsFiniteSet(Live') /\ Cardinality(Live') = Cardinality(Live) + 1
  BY <1>1, <1>2, FS_AddElement DEF Consistent
<1>7. CountIsAccounts'
  BY <1>6, FS_CardinalityType DEF Consistent, CountIsAccounts, Schedule, TypeOK
<1>8. SlotsNameLiveProposals'
  BY <1>2, <1>3, <1>4, <1>5 DEF Consistent, SlotsNameLiveProposals, Proposal
<1>9. NoticeIsGuaranteed'
  <2>1. cfg'.delay >= MinDelay
    BY <1>1 DEF Consistent, NoticeIsGuaranteed
  <2>2. now \in Nat /\ cfg.delay \in Nat /\ cfg.delay >= MinDelay
    BY DEF Consistent, NoticeIsGuaranteed, TypeOK, Config
  <2>3. /\ queue'[nextNonce].executableAt >= queue'[nextNonce].scheduledAt + MinDelay
        /\ queue'[nextNonce].kind = kind
        /\ queue'[nextNonce].data = data
    BY <1>3, <2>2 DEF Proposal
  <2>4. \A n \in Live :
          /\ queue'[n].executableAt >= queue'[n].scheduledAt + MinDelay
          /\ queue'[n].kind = "SetAdminTimelock" => queue'[n].data >= MinDelay
    BY <1>4 DEF Consistent, NoticeIsGuaranteed
  <2> QED
    BY <1>2, <2>1, <2>3, <2>4 DEF NoticeIsGuaranteed
<1>10. MintFrozenWhilePremiumPending'
  <2>1. CASE kind = "SetPremiumMint"
    <3>1. pending'["SetPremiumMint"] = nextNonce
      BY <1>5, <2>1 DEF AllKinds
    <3> QED
      BY <1>1, <1>3, <2>1, <3>1 DEF MintFrozenWhilePremiumPending, Proposal
  <2>2. CASE kind # "SetPremiumMint"
    <3>1. pending'["SetPremiumMint"] = pending["SetPremiumMint"]
      BY <1>5, <2>2 DEF AllKinds
    <3> QED
      BY <1>4, <2>2, <3>1
      DEF Consistent, MintFrozenWhilePremiumPending, SlotsNameLiveProposals, AllKinds
  <2> QED
    BY <2>1, <2>2
<1>11. PendingOpenMeansMintClosed'
  BY <1>1, <1>5 DEF Consistent, PendingOpenMeansMintClosed, AllKinds
<1>12. OrphansAreRedeemLimits'
  <2> SUFFICES ASSUME NEW n \in Live', queue'[n].kind # "SetRedeemLimits"
               PROVE  pending'[queue'[n].kind] = n
    BY DEF OrphansAreRedeemLimits
  <2>1. CASE n = nextNonce
    BY <1>1, <1>3, <1>5, <2>1 DEF Proposal
  <2>2. CASE n \in Live
    <3>1. pending[queue[n].kind] = n /\ queue[n].kind \in AllKinds
      BY <1>4, <2>2 DEF Consistent, OrphansAreRedeemLimits, TypeOK
    <3>2. queue[n].kind # kind
      BY <2>2, <3>1 DEF Schedule, TypeOK
    <3> QED
      BY <1>4, <1>5, <2>2, <3>1, <3>2
  <2> QED
    BY <1>2, <2>1, <2>2
<1> QED
  BY <1>6, <1>7, <1>8, <1>9, <1>10, <1>11, <1>12 DEF Consistent

\* Execute and cancel have one shape: account n goes away, with the slot that
\* names it (if one does) and with the freeze if that slot is the mint premium's.
Releases(n) ==
  /\ n \in Live
  /\ Live' = Live \ {n}
  /\ \A m \in Live' : queue'[m] = queue[m]
  /\ activeCount' = SaturatingDecrement(activeCount)
  /\ \A kind \in AllKinds :
       pending'[kind] = IF pending[kind] = n THEN None ELSE pending[kind]
  /\ mintPausedUntil' = IF pending["SetPremiumMint"] = n THEN 0 ELSE mintPausedUntil
  /\ cfg'.delay >= MinDelay
  /\ cfg'.publicMint => cfg.publicMint \/ pending["SetPublicMint"] = n

LEMMA ReleaseConsistent ==
  ASSUME TypeOK, Consistent, NEW n, Releases(n)
  PROVE  Consistent'
<1> USE DEF Releases
<1>1. n # None /\ n \in Nat
  BY TimelockAssumption DEF TypeOK, TimelockAssumption
<1>2. IsFiniteSet(Live') /\ Cardinality(Live') = Cardinality(Live) - 1
  BY FS_RemoveElement DEF Consistent
<1>3. Cardinality(Live) \in Nat /\ Cardinality(Live') \in Nat
  BY <1>2, FS_CardinalityType DEF Consistent
<1>4. CountIsAccounts'
  BY <1>2, <1>3, TimelockAssumption
  DEF Consistent, CountIsAccounts, SaturatingDecrement, TimelockAssumption
<1>5. SlotsNameLiveProposals'
  BY DEF Consistent, SlotsNameLiveProposals
<1>6. NoticeIsGuaranteed'
  BY DEF Consistent, NoticeIsGuaranteed
<1>7. MintFrozenWhilePremiumPending'
  <2>1. "SetPremiumMint" \in AllKinds
    BY DEF AllKinds
  <2>2. CASE pending["SetPremiumMint"] = n
    BY <2>1, <2>2 DEF MintFrozenWhilePremiumPending
  <2>3. CASE pending["SetPremiumMint"] # n
    BY <2>1, <2>3
    DEF Consistent, MintFrozenWhilePremiumPending, SlotsNameLiveProposals
  <2> QED
    BY <2>2, <2>3
<1>8. PendingOpenMeansMintClosed'
  BY <1>1 DEF Consistent, PendingOpenMeansMintClosed, AllKinds
<1>9. OrphansAreRedeemLimits'
  BY TimelockAssumption
  DEF Consistent, OrphansAreRedeemLimits, TypeOK, TimelockAssumption
<1> QED
  BY <1>2, <1>4, <1>5, <1>6, <1>7, <1>8, <1>9 DEF Consistent

\* A slot that names n is the slot of n's own kind.
LEMMA SlotOfItsKind ==
  ASSUME TypeOK, SlotsNameLiveProposals, NEW n \in Live, NEW kind \in AllKinds,
         pending[kind] = n
  PROVE  kind = queue[n].kind
  BY TimelockAssumption DEF TypeOK, SlotsNameLiveProposals, TimelockAssumption

LEMMA CancelReleases ==
  ASSUME TypeOK, Consistent, NEW n, CancelTimelocked(n)
  PROVE  Releases(n)
<1>1. n \in Live /\ queue[n].kind \in AllKinds
  BY TimelockAssumption DEF CancelTimelocked, TypeOK, TimelockAssumption
<1>2. Live' = Live \ {n} /\ \A m \in Live' : queue'[m] = queue[m]
  BY DEF CancelTimelocked, Live
<1>3. \A kind \in AllKinds : pending[kind] = n => kind = queue[n].kind
  BY <1>1, SlotOfItsKind DEF Consistent
<1>4. \A kind \in AllKinds :
        pending'[kind] = IF pending[kind] = n THEN None ELSE pending[kind]
  BY <1>1, <1>3 DEF CancelTimelocked, ShouldDisarm, TypeOK
<1>5. mintPausedUntil' = IF pending["SetPremiumMint"] = n THEN 0 ELSE mintPausedUntil
  BY <1>1, <1>3 DEF CancelTimelocked, ShouldDisarm, AllKinds
<1>6. cfg' = cfg /\ cfg.delay >= MinDelay
  BY DEF CancelTimelocked, Consistent, NoticeIsGuaranteed
<1> QED
  BY <1>1, <1>2, <1>4, <1>5, <1>6 DEF Releases, CancelTimelocked

\* What execute_* does to the freeze, the timelock and the mint switch.
LEMMA ExecuteConsumes ==
  ASSUME TypeOK, Consistent, NEW n, Execute(n)
  PROVE  \E kind :
           /\ Consume(n, kind)
           /\ mintPausedUntil' = IF kind = "SetPremiumMint" THEN 0 ELSE mintPausedUntil
           /\ cfg'.delay >= MinDelay
           /\ cfg'.publicMint => cfg.publicMint \/ kind = "SetPublicMint"
<1> USE DEF TypeOK
<1>1. cfg.delay >= MinDelay
  BY DEF Consistent, NoticeIsGuaranteed
<1>2. CASE ExecuteSetPremiumMint(n)
  BY <1>1, <1>2 DEF ExecuteSetPremiumMint, Config
<1>3. CASE ExecuteSetPremiumRedeem(n)
  BY <1>1, <1>3 DEF ExecuteSetPremiumRedeem, Config
<1>4. CASE ExecuteWithdrawUsdc(n)
  BY <1>1, <1>4 DEF ExecuteWithdrawUsdc
<1>5. CASE ExecuteSetComplianceMode(n)
  BY <1>1, <1>5 DEF ExecuteSetComplianceMode, Config
<1>6. CASE ExecuteSetOracleGuards(n)
  BY <1>1, <1>6 DEF ExecuteSetOracleGuards, Config
<1>7. CASE ExecuteSetRedeemLimits(n)
  BY <1>1, <1>7 DEF ExecuteSetRedeemLimits, Config
<1>8. CASE ExecuteSetTreasuryMinFloat(n)
  BY <1>1, <1>8 DEF ExecuteSetTreasuryMinFloat, Config
<1>9. CASE ExecuteSetAdminTimelock(n)
  <2>1. queue[n].data >= MinDelay
    BY <1>9 DEF ExecuteSetAdminTimelock, Consume, Consistent, NoticeIsGuaranteed
  <2> QED
    BY <1>9, <2>1 DEF ExecuteSetAdminTimelock, Config
<1>10. CASE ExecuteSetInventoryWallet(n)
  BY <1>1, <1>10 DEF ExecuteSetInventoryWallet, Config
<1>11. CASE ExecuteSetPublicMint(n)
  BY <1>1, <1>11 DEF ExecuteSetPublicMint, Config
<1>12. CASE ExecuteSetPythFeed(n)
  BY <1>1, <1>12 DEF ExecuteSetPythFeed, Config
<1>13. CASE ExecuteUpdateMetadata(n)
  BY <1>1, <1>13 DEF ExecuteUpdateMetadata, Config
<1> QED
  BY <1>2, <1>3, <1>4, <1>5, <1>6, <1>7, <1>8, <1>9, <1>10, <1>11, <1>12, <1>13
  DEF Execute

LEMMA ExecuteReleases ==
  ASSUME TypeOK, Consistent, NEW n, Execute(n)
  PROVE  Releases(n)
<1>1. PICK kind :
        /\ Consume(n, kind)
        /\ mintPausedUntil' = IF kind = "SetPremiumMint" THEN 0 ELSE mintPausedUntil
        /\ cfg'.delay >= MinDelay
        /\ cfg'.publicMint => cfg.publicMint \/ kind = "SetPublicMint"
  BY ExecuteConsumes
<1>2. n \in Live /\ kind \in AllKinds /\ pending[kind] = n
  BY <1>1, TimelockAssumption DEF Consume, TypeOK, TimelockAssumption
<1>3. Live' = Live \ {n} /\ \A m \in Live' : queue'[m] = queue[m]
  BY <1>1 DEF Consume, Live
<1>4. \A k \in AllKinds : pending[k] = n => k = kind
  BY <1>1, <1>2, SlotOfItsKind DEF Consistent, Consume
<1>5. \A k \in AllKinds : pending'[k] = IF pending[k] = n THEN None ELSE pending[k]
  BY <1>1, <1>2, <1>4 DEF Consume, TypeOK
<1>6. mintPausedUntil' = IF pending["SetPremiumMint"] = n THEN 0 ELSE mintPausedUntil
  BY <1>1, <1>2, <1>4 DEF AllKinds
<1> QED
  BY <1>1, <1>2, <1>3, <1>5, <1>6 DEF Releases, Consume

\* Arguments that all tighten loosen nothing once laid over the current limits.
LEMMA TightArgsTighten ==
  ASSUME NEW current \in RedeemLimits, NEW args \in RedeemLimitsArgs,
         RedeemAllTighten(current, args), TimelockAssumption
  PROVE  ~Loosens(current, RedeemOverlay(current, args))
<1> DEFINE new == RedeemOverlay(current, args)
<1> USE DEF RedeemAllTighten, RedeemOverlay, Given, RedeemLimits, RedeemLimitsArgs,
            TimelockAssumption
<1>1. ~(new.budget > current.budget)
  OBVIOUS
<1>2. ~(new.window < current.window)
  OBVIOUS
<1>3. ~(new.enabled /\ ~current.enabled)
  OBVIOUS
<1> QED
  BY <1>1, <1>2, <1>3 DEF Loosens

LEMMA NothingLoosens == ASSUME NEW r \in RedeemLimits PROVE ~Loosens(r, r)
  BY DEF Loosens, RedeemLimits

LEMMA TighteningLimits ==
  ASSUME NEW c \in Config, NEW r \in RedeemLimits, ~Loosens(c.redeem, r)
  PROVE  OnlyTightens(c, [c EXCEPT !.redeem = r])
<1> DEFINE d == [c EXCEPT !.redeem = r]
<1>1. d.redeem = r /\ d.publicMint = c.publicMint
  BY DEF Config
<1>2. d = [c EXCEPT !.publicMint = c.publicMint, !.redeem = r]
  BY DEF Config
<1>3. d = [c EXCEPT !.publicMint = d.publicMint, !.redeem = d.redeem]
  BY <1>1, <1>2
<1> QED
  BY <1>1, <1>3 DEF OnlyTightens

LEMMA ClosingTheMint ==
  ASSUME NEW c \in Config
  PROVE  OnlyTightens(c, [c EXCEPT !.publicMint = FALSE])
<1> DEFINE d == [c EXCEPT !.publicMint = FALSE]
<1>1. d.redeem = c.redeem /\ ~d.publicMint
  BY DEF Config
<1>2. d = [c EXCEPT !.publicMint = FALSE, !.redeem = c.redeem]
  BY DEF Config
<1>3. d = [c EXCEPT !.publicMint = d.publicMint, !.redeem = d.redeem]
  BY <1>1, <1>2
<1>4. ~Loosens(c.redeem, d.redeem)
  BY <1>1, NothingLoosens DEF Config
<1> QED
  BY <1>1, <1>3, <1>4 DEF OnlyTightens

LEMMA KeepingTheConfig == ASSUME NEW c \in Config PROVE OnlyTightens(c, c)
<1>1. c = [c EXCEPT !.publicMint = c.publicMint, !.redeem = c.redeem]
  BY DEF Config
<1> QED
  BY <1>1, NothingLoosens DEF OnlyTightens, Config

\* The instant levers leave accounts and freeze alone, release at most the slot
\* of redeem limits, and only tighten.
LEMMA LeversRelease ==
  ASSUME TypeOK, Consistent, Levers
  PROVE  /\ UNCHANGED << queue, nextNonce, activeCount, mintPausedUntil >>
         /\ \A kind \in AllKinds :
              \/ pending'[kind] = pending[kind]
              \/ /\ kind = "SetRedeemLimits"
                 /\ pending'[kind] = None
                 /\ ~cfg'.redeem.enabled
         /\ OnlyTightens(cfg, cfg')
<1> USE DEF TypeOK
<1>1. CASE SetRedemptionsEnabled
  <2> DEFINE r == [cfg.redeem EXCEPT !.enabled = FALSE]
  <2>1. cfg.redeem \in RedeemLimits /\ r \in RedeemLimits /\ ~r.enabled
    BY DEF Config, RedeemLimits
  <2>2. ~Loosens(cfg.redeem, r)
    BY <2>1 DEF Loosens, RedeemLimits
  <2>3. cfg' = [cfg EXCEPT !.redeem = r] /\ cfg'.redeem = r
    BY <1>1, <2>1 DEF SetRedemptionsEnabled, Config
  <2>4. OnlyTightens(cfg, cfg')
    BY <2>1, <2>2, <2>3, TighteningLimits
  <2> QED
    BY <1>1, <2>1, <2>3, <2>4 DEF SetRedemptionsEnabled
<1>2. CASE SetPublicMintEnabled
  <2>1. pending' = pending
    BY <1>2 DEF SetPublicMintEnabled, Consistent, PendingOpenMeansMintClosed, AllKinds
  <2>2. OnlyTightens(cfg, cfg')
    BY <1>2, ClosingTheMint DEF SetPublicMintEnabled
  <2> QED
    BY <1>2, <2>1, <2>2 DEF SetPublicMintEnabled
<1>3. CASE \E args \in RedeemInputs : EmergencyTightenRedeemLimits(args)
  <2>1. PICK args \in RedeemInputs : EmergencyTightenRedeemLimits(args)
    BY <1>3
  <2> DEFINE r == RedeemOverlay(cfg.redeem, args)
  <2>2. args \in RedeemLimitsArgs /\ cfg.redeem \in RedeemLimits
    BY TimelockAssumption DEF TimelockAssumption, Config
  <2>3. r \in RedeemLimits
    BY <2>2, OverlaysTyped, TimelockAssumption
  <2>4. RedeemAllTighten(cfg.redeem, args)
    BY <2>1 DEF EmergencyTightenRedeemLimits
  <2>5. ~Loosens(cfg.redeem, r)
    BY <2>2, <2>4, TightArgsTighten, TimelockAssumption
  <2>6. cfg' = [cfg EXCEPT !.redeem = r] /\ cfg'.redeem = r
    BY <2>1, <2>3 DEF EmergencyTightenRedeemLimits, Config
  <2>7. OnlyTightens(cfg, cfg')
    BY <2>3, <2>5, <2>6, TighteningLimits
  <2>8. args.enabled # None => ~r.enabled
    BY <2>2, <2>4 DEF RedeemAllTighten, RedeemOverlay, Given, RedeemLimitsArgs
  <2> QED
    BY <2>1, <2>6, <2>7, <2>8 DEF EmergencyTightenRedeemLimits
<1>4. CASE Pause
  BY <1>4, KeepingTheConfig DEF Pause, queueVars
<1> QED
  BY <1>1, <1>2, <1>3, <1>4 DEF Levers

LEMMA LeversConsistent ==
  ASSUME TypeOK, Consistent, Levers
  PROVE  Consistent'
<1>1. /\ UNCHANGED << queue, nextNonce, activeCount, mintPausedUntil >>
      /\ \A kind \in AllKinds :
           \/ pending'[kind] = pending[kind]
           \/ /\ kind = "SetRedeemLimits"
              /\ pending'[kind] = None
      /\ OnlyTightens(cfg, cfg')
  BY LeversRelease
<1>2. cfg'.delay = cfg.delay /\ (cfg'.publicMint => cfg.publicMint)
  BY <1>1 DEF OnlyTightens, TypeOK, Config
<1>3. pending'["SetPublicMint"] = pending["SetPublicMint"]
  BY <1>1 DEF AllKinds
<1>4. pending'["SetPremiumMint"] = pending["SetPremiumMint"]
  BY <1>1 DEF AllKinds
<1>5. Live' = Live
  BY <1>1 DEF Live
<1>6. (IsFiniteSet(Live) /\ CountIsAccounts /\ NoticeIsGuaranteed)'
  BY <1>1, <1>2, <1>5 DEF Consistent, CountIsAccounts, NoticeIsGuaranteed
<1>7. SlotsNameLiveProposals'
  BY <1>1, <1>5 DEF Consistent, SlotsNameLiveProposals
<1>8. MintFrozenWhilePremiumPending' /\ PendingOpenMeansMintClosed'
  BY <1>1, <1>2, <1>3, <1>4
  DEF Consistent, MintFrozenWhilePremiumPending, PendingOpenMeansMintClosed
<1>9. OrphansAreRedeemLimits'
  BY <1>1, <1>5, TimelockAssumption
  DEF Consistent, OrphansAreRedeemLimits, TypeOK, TimelockAssumption
<1> QED
  BY <1>6, <1>7, <1>8, <1>9 DEF Consistent

\* What a step of the whole program may do to the queue and the config.
LEMMA StepShapes ==
  ASSUME TypeOK, Consistent, [Next]_vars
  PROVE  \/ Propose
         \/ \E n \in Live : Execute(n)
         \/ \E n \in Live : CancelTimelocked(n)
         \/ Levers
         \/ UNCHANGED << queueVars, cfg, mintPausedUntil >>
<1>1. Unpause(ReadinessDigest(cfg)) => UNCHANGED << queueVars, cfg, mintPausedUntil >>
  BY DEF Unpause
<1>2. Environment => UNCHANGED << queueVars, cfg, mintPausedUntil >>
  BY DEF Environment, Tick, GuardianSetChanges, TreasuryFlow
<1>3. UNCHANGED vars => UNCHANGED << queueVars, cfg, mintPausedUntil >>
  BY DEF vars, queueVars
<1> QED
  BY <1>1, <1>2, <1>3 DEF Next, QueueNext

LEMMA NextConsistent == TypeOK /\ Consistent /\ [Next]_vars => Consistent'
<1> SUFFICES ASSUME TypeOK, Consistent, [Next]_vars PROVE Consistent'
  OBVIOUS
<1>1. CASE Propose
  BY <1>1, ProposeSchedules, ScheduleConsistent
<1>2. CASE \E n \in Live : Execute(n)
  BY <1>2, ExecuteReleases, ReleaseConsistent
<1>3. CASE \E n \in Live : CancelTimelocked(n)
  BY <1>3, CancelReleases, ReleaseConsistent
<1>4. CASE Levers
  BY <1>4, LeversConsistent
<1>5. CASE UNCHANGED << queueVars, cfg, mintPausedUntil >>
  BY <1>5
  DEF queueVars, Consistent, Live, CountIsAccounts, SlotsNameLiveProposals,
      NoticeIsGuaranteed, MintFrozenWhilePremiumPending, PendingOpenMeansMintClosed,
      OrphansAreRedeemLimits
<1> QED
  BY <1>1, <1>2, <1>3, <1>4, <1>5, StepShapes

\* The inductive invariant of the queue holds in every reachable state.
THEOREM QueueCorrect == Spec => []QueueInvariant
<1>1. QueueInvariant <=> TypeOK /\ Consistent
  BY DEF QueueInvariant, Consistent
<1>2. Init => QueueInvariant
  BY <1>1, InitTyped, InitConsistent
<1>3. QueueInvariant /\ [Next]_vars => QueueInvariant'
  <2> SUFFICES ASSUME TypeOK, Consistent, [Next]_vars PROVE TypeOK' /\ Consistent'
    BY DEF QueueInvariant, Consistent
  <2> QED
    BY NextTyped, NextConsistent
<1> QED
  BY <1>2, <1>3, PTL DEF Spec

\* active_proposal_count counts the live accounts exactly and respects the cap.
THEOREM CountIsExact == Spec => []CountIsAccounts
<1>1. QueueInvariant => CountIsAccounts
  BY DEF QueueInvariant
<1> QED
  BY <1>1, QueueCorrect, PTL

\* No pending slot of the config ever dangles or names another kind's proposal.
THEOREM SlotsAreSound == Spec => []SlotsNameLiveProposals
<1>1. QueueInvariant => SlotsNameLiveProposals
  BY DEF QueueInvariant
<1> QED
  BY <1>1, QueueCorrect, PTL

\* The mint is frozen exactly until the armed premium change may execute.
THEOREM FreezeIsExact == Spec => []MintFrozenWhilePremiumPending
<1>1. QueueInvariant => MintFrozenWhilePremiumPending
  BY DEF QueueInvariant
<1> QED
  BY <1>1, QueueCorrect, PTL

\* Only redeem-limits proposals are ever orphaned.
THEOREM OrphansAreKnown == Spec => []OrphansAreRedeemLimits
<1>1. QueueInvariant => OrphansAreRedeemLimits
  BY DEF QueueInvariant
<1> QED
  BY <1>1, QueueCorrect, PTL

-----------------------------------------------------------------------------
(* What a step may never do.                                                *)

LEMMA ConsumedIsMatured ==
  ASSUME TypeOK, NoticeIsGuaranteed, NEW n, NEW kind, Consume(n, kind)
  PROVE  n \in Live \ Live' /\ Matured(n)
<1>1. n \in Live /\ queue[n].kind = kind /\ Live' = Live \ {n}
  BY DEF Consume, Live
<1>2. /\ queue[n].executableAt \in Nat
      /\ queue[n].scheduledAt \in Nat
      /\ queue[n].executableAt >= queue[n].scheduledAt + MinDelay
      /\ now >= queue[n].executableAt
      /\ now \in Nat /\ MinDelay \in Nat
  BY <1>1, TimelockAssumption
  DEF TypeOK, NoticeIsGuaranteed, Consume, TimelockAssumption
<1>3. now >= queue[n].scheduledAt + MinDelay
  BY <1>2
<1> QED
  BY <1>1, <1>3 DEF Matured, Consume

\* Nothing an instant lever may not do happens to a governed setting without an
\* armed proposal that was public for at least the minimum timelock.
THEOREM NoticePrecedesChange == Spec => NoChangeWithoutNotice
<1> DEFINE Step == OnlyTightens(cfg, cfg') \/ \E n \in Live \ Live' : Matured(n)
<1>1. QueueInvariant /\ [Next]_vars => [Step]_vars
  <2> SUFFICES ASSUME TypeOK, Consistent, [Next]_vars PROVE Step
    BY DEF QueueInvariant, Consistent
  <2>1. CASE cfg' = cfg
    BY <2>1, KeepingTheConfig DEF TypeOK
  <2>2. CASE Propose
    BY <2>1, <2>2, ProposeSchedules DEF Schedule
  <2>3. CASE \E n \in Live : Execute(n)
    <3>1. PICK n \in Live : Execute(n)
      BY <2>3
    <3>2. PICK kind : Consume(n, kind)
      BY <3>1, ExecuteConsumes
    <3>3. n \in Live \ Live' /\ Matured(n)
      BY <3>2, ConsumedIsMatured DEF Consistent
    <3> QED
      BY <3>3
  <2>4. CASE \E n \in Live : CancelTimelocked(n)
    BY <2>1, <2>4 DEF CancelTimelocked
  <2>5. CASE Levers
    BY <2>5, LeversRelease
  <2> QED
    BY <2>1, <2>2, <2>3, <2>4, <2>5, StepShapes
<1> QED
  BY <1>1, QueueCorrect, PTL DEF Spec, NoChangeWithoutNotice

\* A proposal that lost its slot is never armed again.
THEOREM DisarmedForGood == Spec => DisarmIsFinal
<1> DEFINE Step == \A n \in Live :
                     pending[queue[n].kind] # n => pending'[queue[n].kind] # n
<1>1. QueueInvariant /\ [Next]_vars => [Step]_vars
  <2> SUFFICES ASSUME TypeOK, Consistent, [Next]_vars,
                      NEW n \in Live, pending[queue[n].kind] # n
               PROVE  pending'[queue[n].kind] # n
    BY DEF QueueInvariant, Consistent
  <2>1. n # None /\ queue[n].kind \in AllKinds
    BY TimelockAssumption DEF TypeOK, TimelockAssumption
  <2>2. CASE Propose
    <3>1. PICK kind, data : Schedule(kind, data)
      BY <2>2, ProposeSchedules
    <3> QED
      BY <2>1, <3>1 DEF Schedule, TypeOK
  <2>3. CASE \E m \in Live : Execute(m) \/ CancelTimelocked(m)
    <3>1. PICK m : Releases(m)
      BY <2>3, ExecuteReleases, CancelReleases
    <3> QED
      BY <2>1, <3>1 DEF Releases
  <2>4. CASE Levers
    BY <2>1, <2>4, LeversRelease
  <2>5. CASE UNCHANGED << queueVars, cfg, mintPausedUntil >>
    BY <2>5 DEF queueVars
  <2> QED
    BY <2>2, <2>3, <2>4, <2>5, StepShapes
<1> QED
  BY <1>1, QueueCorrect, PTL DEF Spec, DisarmIsFinal

\* A slot is emptied with its own account, or by a lever that leaves redemptions
\* closed and every account alone.
THEOREM SlotsEndWithTheirAccounts == Spec => SlotReleasedByItsOwnFate
<1> DEFINE Emptied(kind) ==
             /\ pending'[kind] = None
             /\ \/ pending[kind] \notin Live'
                \/ kind = "SetRedeemLimits" /\ Live' = Live /\ ~cfg'.redeem.enabled
           Step == \A kind \in AllKinds :
                     (pending[kind] # None /\ pending'[kind] # pending[kind]) => Emptied(kind)
<1>1. QueueInvariant /\ [Next]_vars => [Step]_vars
  <2> SUFFICES ASSUME TypeOK, Consistent, [Next]_vars, NEW kind \in AllKinds,
                      pending[kind] # None, pending'[kind] # pending[kind]
               PROVE  Emptied(kind)
    BY DEF QueueInvariant, Consistent
  <2>1. CASE Propose
    <3>1. PICK k, data : Schedule(k, data)
      BY <2>1, ProposeSchedules
    <3> QED
      BY <3>1 DEF Schedule, TypeOK
  <2>2. CASE \E m \in Live : Execute(m) \/ CancelTimelocked(m)
    <3>1. PICK m : Releases(m)
      BY <2>2, ExecuteReleases, CancelReleases
    <3> QED
      BY <3>1 DEF Releases
  <2>3. CASE Levers
    BY <2>3, LeversRelease DEF Live
  <2>4. CASE UNCHANGED << queueVars, cfg, mintPausedUntil >>
    BY <2>4 DEF queueVars
  <2> QED
    BY <2>1, <2>2, <2>3, <2>4, StepShapes
<1> QED
  BY <1>1, QueueCorrect, PTL DEF Spec, SlotReleasedByItsOwnFate
=============================================================================
