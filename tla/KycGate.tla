-------------------------------- MODULE KycGate --------------------------------
(***************************************************************************)
(* The KYC gate: who may arm it, who keeps its roster and what an admin    *)
(* handover does to the split between the two.  Sources: state/kyc.rs,     *)
(* kyc_admin.rs, side.rs; the handover is admin/transfer.rs, modelled in   *)
(* full in module GuardianSet and here by its effect.                      *)
(*                                                                         *)
(* An approval is an account that exists: `attested` is the set of wallets *)
(* that have one.  Who attested it and when is forensic and left out.      *)
(***************************************************************************)
EXTENDS FiniteSets, Integers

CONSTANTS
  Keys,     \* keys that may be admin or attestor
  Wallets,  \* wallets that may be attested, never Pubkey::default
  NoKey     \* Pubkey::default

Sides == {"mint", "redeem"}

ASSUME KycAssumption == IsFiniteSet(Wallets) /\ NoKey \notin Keys

VARIABLES
  admin,     \* config.admin
  operator,  \* config.kyc_operator, the attestor
  scope,     \* config.kyc_scope_flags
  enforced,  \* config.kyc_enforced
  count,     \* config.kyc_attestation_count
  attested,  \* wallets with a KycAccount
  signed     \* history: who signed the last step, and with what consent

roles == << admin, operator >>
gate == << scope, enforced >>
roster == << count, attested >>
vars == << roles, gate, roster, signed >>

SignedBy(key) == signed' = [by |-> key, consent |-> FALSE]

\* What mint and redeem ask on their side, before any price is read.
EnforceKyc(side, wallet) == side \in scope => wallet \in attested

Init ==
  /\ admin \in Keys
  /\ operator = NoKey /\ scope = {} /\ enforced = FALSE
  /\ count = 0 /\ attested = {}
  /\ signed = [by |-> admin, consent |-> FALSE]

-----------------------------------------------------------------------------
\* Bug: the attestor may be decommissioned while the gate is armed.
SetKycOperatorAnytime(key) ==
  /\ key # admin
  /\ operator' = key
  /\ SignedBy(admin)
  /\ UNCHANGED << admin, gate, roster >>

SetKycOperator(key) ==
  /\ key # admin
  /\ key = NoKey => scope = {}
  /\ operator' = key
  /\ SignedBy(admin)
  /\ UNCHANGED << admin, gate, roster >>

\* Arming needs an attestor and somebody already through; disarming nothing.
SetKycScope(flags) ==
  /\ flags # scope
  /\ flags # {} => operator # NoKey /\ count > 0
  /\ scope' = flags
  /\ enforced' = (flags # {})
  /\ SignedBy(admin)
  /\ UNCHANGED << roles, roster >>

\* Bug: a replayed attestation counts again.
AttestCountingReplays(wallet) ==
  /\ operator # NoKey
  /\ attested' = attested \cup {wallet}
  /\ count <= Cardinality(Wallets)
  /\ count' = count + 1
  /\ SignedBy(operator)
  /\ UNCHANGED << roles, gate >>

\* A replayed attestation refreshes the account and counts nothing.
AttestKyc(wallet) ==
  /\ operator # NoKey
  /\ attested' = attested \cup {wallet}
  /\ count' = IF wallet \in attested THEN count ELSE count + 1
  /\ SignedBy(operator)
  /\ UNCHANGED << roles, gate >>

\* A revocation that would leave an armed gate with nobody behind it drops the
\* gate, which takes the admin and its consent.
RevocationDisarms == scope # {} /\ count - 1 = 0

\* Bug: the attestor's last revocation drops the gate too.
RevokeDisarmingForAnyone(key, wallet, allowDisarm) ==
  /\ key \in {admin, operator} \ {NoKey}
  /\ wallet \in attested /\ count > 0
  /\ attested' = attested \ {wallet}
  /\ count' = count - 1
  /\ scope' = IF RevocationDisarms THEN {} ELSE scope
  /\ enforced' = (scope' # {})
  /\ signed' = [by |-> key, consent |-> allowDisarm]
  /\ UNCHANGED roles

RevokeKyc(key, wallet, allowDisarm) ==
  /\ key \in {admin, operator} \ {NoKey}
  /\ wallet \in attested
  /\ count > 0
  /\ RevocationDisarms => key = admin /\ allowDisarm
  /\ attested' = attested \ {wallet}
  /\ count' = count - 1
  /\ scope' = IF RevocationDisarms THEN {} ELSE scope
  /\ enforced' = (scope' # {})
  /\ signed' = [by |-> key, consent |-> allowDisarm]
  /\ UNCHANGED roles

\* A handover completes, to any key: it does not look at the attestor.
AcceptAdminTransfer(key) ==
  /\ key # admin
  /\ admin' = key
  /\ SignedBy(key)
  /\ UNCHANGED << operator, gate, roster >>

Configure ==
  \/ \E key \in Keys \cup {NoKey} : SetKycOperator(key)
  \/ \E flags \in SUBSET Sides : SetKycScope(flags)

Review ==
  \E wallet \in Wallets :
    \/ AttestKyc(wallet)
    \/ \E key \in Keys, allowDisarm \in BOOLEAN : RevokeKyc(key, wallet, allowDisarm)

Next == Configure \/ Review \/ \E key \in Keys : AcceptAdminTransfer(key)

Spec == Init /\ [][Next]_vars

-----------------------------------------------------------------------------
\* Every variable has its type.
TypeOK ==
  /\ admin \in Keys /\ operator \in Keys \cup {NoKey}
  /\ scope \in SUBSET Sides /\ enforced \in BOOLEAN
  /\ count \in Nat /\ attested \in SUBSET Wallets
  /\ signed \in [by : Keys, consent : BOOLEAN]

\* The counter that arming relies on is the number of accounts, through replayed
\* attestations and revocations by either role (kyc_admin.rs 129-142, 171-208):
\* so the checked subtraction of a revocation is never what refuses it.
CountIsRoster == count = Cardinality(attested)

\* An armed gate, on whichever side, admits somebody and has an attestor who can
\* admit more; what panels read as `enforced` says the same as the flags
\* (kyc.rs 75-88, 111-121, 166-184).
ArmedGateIsStaffed ==
  /\ enforced = (scope # {})
  /\ enforced => /\ operator # NoKey
                 /\ \E wallet \in attested : \A side \in Sides : EnforceKyc(side, wallet)

\* The gate opens on no side without the admin, and by a revocation only with
\* its consent to that, however the attestor walked the roster down
\* (kyc.rs 123-158).
GateDropsByAdmin ==
  [][ ~(scope \subseteq scope') =>
        /\ signed'.by = admin
        /\ attested' # attested => signed'.consent ]_vars
=============================================================================
