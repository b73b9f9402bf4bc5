---------------------------- MODULE KycGateProofs ----------------------------
(***************************************************************************)
(* Proofs about KycGate, for every set of keys and every finite set of     *)
(* wallets.                                                                *)
(***************************************************************************)
EXTENDS KycGate, FiniteSetTheorems, TLAPS

\* Arming checks the attestor and the counter once; that both outlive every
\* other call is what an armed gate rests on.
GateInvariant ==
  /\ TypeOK
  /\ CountIsRoster
  /\ enforced = (scope # {})
  /\ scope # {} => operator # NoKey /\ count > 0

\* The roster is finite, whatever it holds.
LEMMA RosterIsFinite ==
  ASSUME TypeOK
  PROVE  /\ IsFiniteSet(attested) /\ Cardinality(attested) \in Nat
         /\ Cardinality(attested) > 0 => attested # {}
<1>1. IsFiniteSet(attested)
  BY KycAssumption, FS_Subset DEF TypeOK
<1>2. QED
  BY <1>1, FS_CardinalityType, FS_EmptySet

LEMMA GateInvariantInit == Init => GateInvariant
<1> SUFFICES ASSUME Init PROVE GateInvariant
  OBVIOUS
<1>1. Cardinality({}) = 0
  BY FS_EmptySet
<1>2. QED
  BY <1>1 DEF Init, GateInvariant, TypeOK, CountIsRoster, Sides

LEMMA GateInvariantStep == GateInvariant /\ [Next]_vars => GateInvariant'
<1> SUFFICES ASSUME GateInvariant, [Next]_vars PROVE GateInvariant'
  OBVIOUS
<1> USE DEF GateInvariant
<1>f. IsFiniteSet(attested) /\ Cardinality(attested) \in Nat
  BY RosterIsFinite
<1>1. ASSUME NEW key \in Keys \cup {NoKey}, SetKycOperator(key)
      PROVE  GateInvariant'
  BY <1>1 DEF SetKycOperator, SignedBy, gate, roster, TypeOK, CountIsRoster
<1>2. ASSUME NEW flags \in SUBSET Sides, SetKycScope(flags)
      PROVE  GateInvariant'
  BY <1>2 DEF SetKycScope, SignedBy, roles, roster, TypeOK, CountIsRoster
<1>3. ASSUME NEW wallet \in Wallets, AttestKyc(wallet)
      PROVE  GateInvariant'
  <2>1. Cardinality(attested \cup {wallet})
          = IF wallet \in attested THEN Cardinality(attested) ELSE Cardinality(attested) + 1
    BY <1>f, FS_AddElement
  <2>2. TypeOK'
    BY <1>3 DEF AttestKyc, SignedBy, roles, gate, TypeOK
  <2>3. CountIsRoster'
    BY <1>3, <2>1 DEF AttestKyc, CountIsRoster
  <2>4. QED
    BY <1>3, <2>2, <2>3 DEF AttestKyc, roles, gate, TypeOK
<1>4. ASSUME NEW wallet \in Wallets, NEW key \in Keys, NEW allowDisarm \in BOOLEAN,
             RevokeKyc(key, wallet, allowDisarm)
      PROVE  GateInvariant'
  <2>1. Cardinality(attested \ {wallet}) = Cardinality(attested) - 1
    BY <1>4, <1>f, FS_RemoveElement DEF RevokeKyc
  <2>2. TypeOK'
    BY <1>4 DEF RevokeKyc, roles, TypeOK
  <2>3. CountIsRoster'
    BY <1>4, <2>1 DEF RevokeKyc, CountIsRoster
  <2>4. scope' # {} => operator' # NoKey /\ count' > 0
    BY <1>4 DEF RevokeKyc, RevocationDisarms, roles, TypeOK
  <2>5. QED
    BY <1>4, <2>2, <2>3, <2>4 DEF RevokeKyc
<1>5. ASSUME NEW key \in Keys, AcceptAdminTransfer(key)
      PROVE  GateInvariant'
  BY <1>5 DEF AcceptAdminTransfer, SignedBy, gate, roster, TypeOK, CountIsRoster
<1>6. CASE UNCHANGED vars
  BY <1>6 DEF vars, roles, gate, roster, TypeOK, CountIsRoster
<1>7. QED
  BY <1>1, <1>2, <1>3, <1>4, <1>5, <1>6 DEF Next, Configure, Review

-----------------------------------------------------------------------------
\* Every reachable state satisfies the invariant above.
THEOREM GateIsSound == Spec => []GateInvariant
<1>1. QED
  BY GateInvariantInit, GateInvariantStep, PTL DEF Spec

\* The attestation counter of the config is the number of approvals
\* (kyc_admin.rs 129-142, 171-208).
THEOREM RosterCountIsExact == Spec => []CountIsRoster
<1>1. GateInvariant => CountIsRoster
  BY DEF GateInvariant
<1>2. QED
  BY <1>1, GateIsSound, PTL

\* An armed gate has an attestor and admits somebody, and the panel's flag says
\* what the gate does (kyc.rs 75-88, 111-121, 166-184).
THEOREM ArmedGateHasItsPeople == Spec => []ArmedGateIsStaffed
<1>1. GateInvariant => ArmedGateIsStaffed
  <2> SUFFICES ASSUME GateInvariant PROVE ArmedGateIsStaffed
    OBVIOUS
  <2>1. ASSUME scope # {} PROVE attested # {}
    BY <2>1, RosterIsFinite DEF GateInvariant, CountIsRoster
  <2>2. ASSUME scope # {}
        PROVE  \E wallet \in attested : \A side \in Sides : EnforceKyc(side, wallet)
    BY <2>1, <2>2 DEF EnforceKyc
  <2>3. QED
    BY <2>2 DEF GateInvariant, ArmedGateIsStaffed
<1>2. QED
  BY <1>1, GateIsSound, PTL

\* The gate is lowered on any side by the admin alone, and by a revocation only
\* with its consent (kyc.rs 123-158).
THEOREM GateIsLoweredByItsAdmin == Spec => GateDropsByAdmin
<1> DEFINE Lowered ==
      ~(scope \subseteq scope') =>
         /\ signed'.by = admin
         /\ attested' # attested => signed'.consent
<1>1. GateInvariant /\ [Next]_vars => [Lowered]_vars
  <2> SUFFICES ASSUME GateInvariant, Next PROVE Lowered
    OBVIOUS
  <2>1. ASSUME NEW key \in Keys \cup {NoKey}, SetKycOperator(key) PROVE Lowered
    BY <2>1 DEF SetKycOperator, gate
  <2>2. ASSUME NEW flags \in SUBSET Sides, SetKycScope(flags) PROVE Lowered
    BY <2>2 DEF SetKycScope, SignedBy, roster
  <2>3. ASSUME NEW wallet \in Wallets, AttestKyc(wallet) PROVE Lowered
    BY <2>3 DEF AttestKyc, gate
  <2>4. ASSUME NEW wallet \in Wallets, NEW key \in Keys, NEW allowDisarm \in BOOLEAN,
               RevokeKyc(key, wallet, allowDisarm)
        PROVE  Lowered
    <3>1. CASE RevocationDisarms
      BY <2>4, <3>1 DEF RevokeKyc
    <3>2. CASE ~RevocationDisarms
      BY <2>4, <3>2 DEF RevokeKyc
    <3>3. QED
      BY <3>1, <3>2
  <2>5. ASSUME NEW key \in Keys, AcceptAdminTransfer(key) PROVE Lowered
    BY <2>5 DEF AcceptAdminTransfer, gate
  <2>6. QED
    BY <2>1, <2>2, <2>3, <2>4, <2>5 DEF Next, Configure, Review
<1>2. QED
  BY <1>1, GateIsSound, PTL DEF Spec, GateDropsByAdmin
=============================================================================
