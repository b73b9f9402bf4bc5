----------------------------- MODULE GuardianSet -----------------------------
(***************************************************************************)
(* Who may brake and who may steer: the registered guardians, the notice a *)
(* guardian's removal needs, its one self-veto, and the two-step transfer  *)
(* of the admin role.  Sources: instructions/admin/{guardian,transfer}.rs, *)
(* state/guardian.rs.                                                      *)
(*                                                                         *)
(* Times are absolute and start at 1, so that 0 is the code's "unset".  An *)
(* account that was never appointed reads as NoAccount.                    *)
(***************************************************************************)
EXTENDS Integers, FiniteSets

CONSTANTS
  Keys,          \* public keys: the admin, guardians, and anybody else
  NoKey,         \* Option::None of pending_admin
  MinDelay,      \* ADMIN_TIMELOCK_MIN_SECONDS
  MaxDelay,      \* ADMIN_TIMELOCK_MAX_SECONDS
  Cooldown,      \* GUARDIAN_REMOVE_COOLDOWN_SECONDS
  ExecWindow,    \* GUARDIAN_REMOVAL_EXEC_WINDOW_SECONDS
  AdminExpiry,   \* PENDING_ADMIN_EXPIRY_SECONDS
  MaxGuardians,  \* config.max_guardian_count
  Horizon        \* bound on the clock

MinActiveGuardians == 1

ASSUME GuardianAssumption ==
  /\ IsFiniteSet(Keys)
  /\ NoKey \notin Keys
  /\ MinDelay \in Nat \ {0} /\ MaxDelay \in Nat /\ MinDelay <= MaxDelay
  /\ Cooldown \in Nat \ {0} /\ ExecWindow \in Nat /\ AdminExpiry \in Nat
  /\ MaxGuardians \in Nat \ {0}
  /\ Horizon \in Nat

VARIABLES
  now,                 \* Clock::unix_timestamp
  delay,               \* config.admin_timelock_seconds
  admin,               \* config.admin
  pendingAdmin,        \* config.pending_admin
  adminEta,            \* config.pending_admin_eta
  adminExpires,        \* config.pending_admin_expires_at
  account,             \* key -> its GuardianAccount
  guardianCount,       \* config.guardian_count
  pendingRemovalCount  \* config.pending_removal_count

adminVars == << admin, pendingAdmin, adminEta, adminExpires >>
guardianVars == << account, guardianCount, pendingRemovalCount >>
vars == << now, delay, adminVars, guardianVars >>

GuardianAccount ==
  [ appointed : BOOLEAN, cooldownUntil : Nat, pendingRemovalAt : Nat,
    selfCancelUsed : BOOLEAN ]

NoAccount ==
  [ appointed |-> FALSE, cooldownUntil |-> 0, pendingRemovalAt |-> 0,
    selfCancelUsed |-> FALSE ]
NewAccount == [NoAccount EXCEPT !.appointed = TRUE]

Active(g) == account[g].appointed /\ account[g].cooldownUntil = 0
UnderNotice(g) == account[g].pendingRemovalAt # 0

\* A registered guardian whose key has become the admin's is inert.
MayAct(g) == Active(g) /\ g # admin
MaySignAsAdminOrGuardian(signer) == signer = admin \/ MayAct(signer)

ActiveNotPending ==
  IF guardianCount >= pendingRemovalCount
    THEN guardianCount - pendingRemovalCount ELSE 0
\* Bug: the floor counts guardians already under notice.
MayScheduleFromCount == guardianCount > MinActiveGuardians

MayScheduleRemoval == ActiveNotPending > MinActiveGuardians

\* Bug: a notice never goes stale.
NoticeNeverExpires(g) == UnderNotice(g) /\ FALSE

RemovalScheduleExpired(g) == UnderNotice(g) /\ now > account[g].pendingRemovalAt + ExecWindow

-----------------------------------------------------------------------------
\* `initialize` appoints the first guardian, which may not be the admin.
Init ==
  /\ now = 1
  /\ delay \in MinDelay..MaxDelay
  /\ admin \in Keys
  /\ pendingAdmin = NoKey
  /\ adminEta = 0
  /\ adminExpires = 0
  /\ \E first \in Keys \ {admin} :
       account = [g \in Keys |-> IF g = first THEN NewAccount ELSE NoAccount]
  /\ guardianCount = 1
  /\ pendingRemovalCount = 0

AddGuardian(g) ==
  /\ g # admin
  /\ g # pendingAdmin
  /\ now >= account[g].cooldownUntil
  /\ ~Active(g)
  /\ guardianCount < MaxGuardians
  /\ ~UnderNotice(g)
  /\ account' = [account EXCEPT ![g] = NewAccount]
  /\ guardianCount' = guardianCount + 1
  /\ UNCHANGED << now, delay, adminVars, pendingRemovalCount >>

\* Bug: re-arming an expired notice counts it a second time.
RemoveCountingTwice(g) ==
  /\ Active(g)
  /\ \/ ~UnderNotice(g) /\ MayScheduleRemoval
     \/ RemovalScheduleExpired(g)
  /\ pendingRemovalCount' = pendingRemovalCount + 1
  /\ account' = [account EXCEPT ![g].pendingRemovalAt = now + delay]
  /\ UNCHANGED << now, delay, adminVars, guardianCount >>

\* A notice, not a removal.  Replacing an expired notice is no new notice: it
\* neither meets the floor again nor counts again.
RemoveGuardian(g) ==
  /\ Active(g)
  /\ \/ /\ ~UnderNotice(g)
        /\ MayScheduleRemoval
        /\ pendingRemovalCount' = pendingRemovalCount + 1
     \/ /\ RemovalScheduleExpired(g)
        /\ UNCHANGED pendingRemovalCount
  /\ account' = [account EXCEPT ![g].pendingRemovalAt = now + delay]
  /\ UNCHANGED << now, delay, adminVars, guardianCount >>

\* Permissionless: anybody may apply a matured notice inside its window.
FinalizeRemoval(g) ==
  /\ Active(g)
  /\ UnderNotice(g)
  /\ now >= account[g].pendingRemovalAt
  /\ ~RemovalScheduleExpired(g)
  /\ guardianCount > MinActiveGuardians
  /\ pendingRemovalCount >= 1
  /\ account' = [account EXCEPT ![g].cooldownUntil = now + Cooldown,
                                ![g].pendingRemovalAt = 0]
  /\ guardianCount' = guardianCount - 1
  /\ pendingRemovalCount' = pendingRemovalCount - 1
  /\ UNCHANGED << now, delay, adminVars >>

\* Bug: the veto is not remembered.
CancelForgettingVeto(signer, g) ==
  /\ account[g].appointed
  /\ UnderNotice(g)
  /\ \/ RemovalScheduleExpired(g) \/ signer = admin
     \/ signer = g /\ ~account[g].selfCancelUsed
  /\ account' = [account EXCEPT ![g].pendingRemovalAt = 0]
  /\ pendingRemovalCount' = pendingRemovalCount - 1
  /\ UNCHANGED << now, delay, adminVars, guardianCount >>

\* Bug: a removal nobody scheduled may be cancelled.
CancelWithoutNotice(signer, g) ==
  /\ account[g].appointed
  /\ signer = admin
  /\ account' = [account EXCEPT ![g].pendingRemovalAt = 0]
  /\ pendingRemovalCount' = pendingRemovalCount - 1
  /\ UNCHANGED << now, delay, adminVars, guardianCount >>

\* Anybody once the notice expired, else the admin, else the target, once.
CancelRemoval(signer, g) ==
  /\ account[g].appointed
  /\ UnderNotice(g)
  /\ \/ /\ RemovalScheduleExpired(g) \/ signer = admin
        /\ account' = [account EXCEPT ![g].pendingRemovalAt = 0]
     \/ /\ ~RemovalScheduleExpired(g)
        /\ signer # admin
        /\ signer = g
        /\ ~account[g].selfCancelUsed
        /\ account' = [account EXCEPT ![g].pendingRemovalAt = 0,
                                      ![g].selfCancelUsed = TRUE]
  /\ pendingRemovalCount >= 1
  /\ pendingRemovalCount' = pendingRemovalCount - 1
  /\ UNCHANGED << now, delay, adminVars, guardianCount >>

-----------------------------------------------------------------------------
ProposeAdminTransfer(new) ==
  /\ pendingAdmin = NoKey \/ now > adminExpires
  /\ new # admin
  /\ pendingAdmin' = new
  /\ adminEta' = now + delay
  /\ adminExpires' = now + delay + AdminExpiry
  /\ UNCHANGED << now, delay, admin, guardianVars >>

ClearTransfer ==
  /\ pendingAdmin' = NoKey
  /\ adminEta' = 0
  /\ adminExpires' = 0

\* Bug: the transfer may be accepted at once.
AcceptEarly(signer) ==
  /\ signer = pendingAdmin
  /\ now <= adminExpires
  /\ admin' = pendingAdmin
  /\ ClearTransfer
  /\ UNCHANGED << now, delay, guardianVars >>

AcceptAdminTransfer(signer) ==
  /\ pendingAdmin # NoKey
  /\ signer = pendingAdmin
  /\ now <= adminExpires
  /\ now >= adminEta
  /\ admin' = pendingAdmin
  /\ ClearTransfer
  /\ UNCHANGED << now, delay, guardianVars >>

CancelAdminTransfer(signer) ==
  /\ MaySignAsAdminOrGuardian(signer)
  /\ ClearTransfer
  /\ UNCHANGED << now, delay, admin, guardianVars >>

-----------------------------------------------------------------------------
Tick ==
  /\ now < Horizon
  /\ now' = now + 1
  /\ UNCHANGED << delay, adminVars, guardianVars >>

\* execute_set_admin_timelock, whose own queue is in module Timelock.
AdminTimelockChanges ==
  /\ delay' \in MinDelay..MaxDelay
  /\ UNCHANGED << now, adminVars, guardianVars >>

Next ==
  \/ \E g \in Keys :
       \/ AddGuardian(g)
       \/ RemoveGuardian(g)
       \/ FinalizeRemoval(g)
       \/ \E signer \in Keys : CancelRemoval(signer, g)
  \/ \E key \in Keys :
       \/ ProposeAdminTransfer(key)
       \/ AcceptAdminTransfer(key)
       \/ CancelAdminTransfer(key)
  \/ Tick
  \/ AdminTimelockChanges

Spec == Init /\ [][Next]_vars

-----------------------------------------------------------------------------
\* Every variable has its type (state/guardian.rs, state/config.rs).
TypeOK ==
  /\ now \in Nat
  /\ delay \in MinDelay..MaxDelay
  /\ admin \in Keys
  /\ pendingAdmin \in Keys \cup {NoKey}
  /\ adminEta \in Nat
  /\ adminExpires \in Nat
  /\ account \in [Keys -> GuardianAccount]
  /\ guardianCount \in Nat
  /\ pendingRemovalCount \in Nat

ActiveGuardians == { g \in Keys : Active(g) }
Noticed == { g \in Keys : UnderNotice(g) }

\* The two counters in the config are exact: one per active guardian account and
\* one per account under notice, so no checked_sub can fail and no removal is
\* blocked by a stale count (guardian.rs 80-85, 207-217, 281-287).
CountersAreExact ==
  /\ guardianCount = Cardinality(ActiveGuardians)
  /\ pendingRemovalCount = Cardinality(Noticed)

\* However notices, expiries, re-armed notices, vetoes and finalizations
\* interleave, at least one active guardian is not under notice, and the set
\* never exceeds its cap: no window can purge every guardian at once, and the
\* floor check of finalize is never what stops a removal (state/guardian.rs
\* 59-64, guardian.rs 140-152 and 196-201).
SomebodyStaysToReact ==
  /\ guardianCount - pendingRemovalCount >= MinActiveGuardians
  /\ guardianCount <= MaxGuardians
=============================================================================
