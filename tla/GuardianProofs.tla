---------------------------- MODULE GuardianProofs ----------------------------
(***************************************************************************)
(* Proofs about GuardianSet and GuardianHistory, for every set of keys and *)
(* every length of the delays, the cooldown and the windows.               *)
(***************************************************************************)
EXTENDS GuardianHistory, FiniteSetTheorems, TLAPS

-----------------------------------------------------------------------------
(* Types.                                                                   *)

LEMMA NewAccountTyped ==
  /\ NoAccount \in GuardianAccount /\ NewAccount \in GuardianAccount
  /\ NewAccount.appointed /\ NewAccount.cooldownUntil = 0
  /\ NewAccount.pendingRemovalAt = 0
<1>1. NoAccount \in GuardianAccount
  BY DEF NoAccount, GuardianAccount
<1>2. NewAccount \in GuardianAccount
  BY <1>1 DEF NewAccount, GuardianAccount
<1>3. NewAccount.appointed
  BY <1>1 DEF NewAccount, GuardianAccount
<1>4. NewAccount.cooldownUntil = 0 /\ NewAccount.pendingRemovalAt = 0
  BY DEF NewAccount, NoAccount
<1>5. QED
  BY <1>1, <1>2, <1>3, <1>4

LEMMA GuardianInitTyped == Init => TypeOK
BY GuardianAssumption, NewAccountTyped DEF Init, TypeOK

LEMMA AddTyped ==
  ASSUME TypeOK, NEW g \in Keys, AddGuardian(g)
  PROVE  TypeOK'
BY NewAccountTyped DEF TypeOK, AddGuardian, adminVars

LEMMA RemoveTyped ==
  ASSUME TypeOK, NEW g \in Keys, RemoveGuardian(g)
  PROVE  TypeOK'
<1>1. now + delay \in Nat
  BY GuardianAssumption DEF TypeOK
<1>2. account' \in [Keys -> GuardianAccount]
  BY <1>1 DEF TypeOK, RemoveGuardian, GuardianAccount
<1>3. pendingRemovalCount' \in Nat
  BY DEF TypeOK, RemoveGuardian
<1>4. QED
  BY <1>2, <1>3 DEF TypeOK, RemoveGuardian, adminVars

LEMMA FinalizeTyped ==
  ASSUME TypeOK, guardianCount >= 1, NEW g \in Keys, FinalizeRemoval(g)
  PROVE  TypeOK'
<1>1. now + Cooldown \in Nat
  BY GuardianAssumption DEF TypeOK
<1>2. account' \in [Keys -> GuardianAccount]
  BY <1>1 DEF TypeOK, FinalizeRemoval, GuardianAccount
<1>3. guardianCount' \in Nat /\ pendingRemovalCount' \in Nat
  BY DEF TypeOK, FinalizeRemoval
<1>4. QED
  BY <1>2, <1>3 DEF TypeOK, FinalizeRemoval, adminVars

LEMMA CancelTyped ==
  ASSUME TypeOK, NEW g \in Keys, NEW signer \in Keys, CancelRemoval(signer, g)
  PROVE  TypeOK'
<1>1. account' \in [Keys -> GuardianAccount]
  BY DEF TypeOK, CancelRemoval, GuardianAccount
<1>2. pendingRemovalCount' \in Nat
  BY DEF TypeOK, CancelRemoval
<1>3. QED
  BY <1>1, <1>2 DEF TypeOK, CancelRemoval, adminVars

\* The two-step transfer, the clock and the timelock leave the guardians alone.
AdminStep ==
  \/ \E key \in Keys :
       \/ ProposeAdminTransfer(key)
       \/ AcceptAdminTransfer(key)
       \/ CancelAdminTransfer(key)
  \/ Tick
  \/ AdminTimelockChanges

LEMMA AdminStepTyped ==
  ASSUME TypeOK, AdminStep
  PROVE  TypeOK' /\ UNCHANGED guardianVars
<1>1. ASSUME NEW key \in Keys, ProposeAdminTransfer(key)
      PROVE  TypeOK' /\ UNCHANGED guardianVars
  BY <1>1, GuardianAssumption DEF TypeOK, ProposeAdminTransfer, guardianVars
<1>2. ASSUME NEW key \in Keys, AcceptAdminTransfer(key)
      PROVE  TypeOK' /\ UNCHANGED guardianVars
  BY <1>2 DEF TypeOK, AcceptAdminTransfer, ClearTransfer, guardianVars
<1>3. ASSUME NEW key \in Keys, CancelAdminTransfer(key)
      PROVE  TypeOK' /\ UNCHANGED guardianVars
  BY <1>3 DEF TypeOK, CancelAdminTransfer, ClearTransfer, guardianVars
<1>4. CASE Tick
  BY <1>4 DEF TypeOK, Tick, adminVars, guardianVars
<1>5. CASE AdminTimelockChanges
  BY <1>5 DEF TypeOK, AdminTimelockChanges, adminVars, guardianVars
<1>6. QED
  BY <1>1, <1>2, <1>3, <1>4, <1>5 DEF AdminStep

\* Every step is one of the four guardian handlers or leaves them alone.
LEMMA GuardianSteps ==
  ASSUME [Next]_vars
  PROVE  \/ \E g \in Keys : AddGuardian(g)
         \/ \E g \in Keys : RemoveGuardian(g)
         \/ \E g \in Keys : FinalizeRemoval(g)
         \/ \E g \in Keys, signer \in Keys : CancelRemoval(signer, g)
         \/ AdminStep
         \/ UNCHANGED vars
BY DEF Next, AdminStep

LEMMA GuardianStepTyped ==
  ASSUME TypeOK, guardianCount >= 1, [Next]_vars
  PROVE  TypeOK'
<1>1. CASE UNCHANGED vars
  BY <1>1 DEF TypeOK, vars, adminVars, guardianVars
<1>2. QED
  BY <1>1, GuardianSteps, AddTyped, RemoveTyped, FinalizeTyped, CancelTyped, AdminStepTyped

-----------------------------------------------------------------------------
(* The counters.                                                            *)

LEMMA GuardiansAreFinite ==
  /\ IsFiniteSet(ActiveGuardians) /\ Cardinality(ActiveGuardians) \in Nat
  /\ IsFiniteSet(Noticed) /\ Cardinality(Noticed) \in Nat
<1>1. ActiveGuardians \subseteq Keys /\ Noticed \subseteq Keys
  BY DEF ActiveGuardians, Noticed
<1>2. QED
  BY <1>1, GuardianAssumption, FS_Subset, FS_CardinalityType

\* A change of one account moves at most that key between the two sets.
LEMMA OneAccountChanges ==
  ASSUME TypeOK, NEW g \in Keys, NEW a, account' = [account EXCEPT ![g] = a]
  PROVE  /\ ActiveGuardians' = IF a.appointed /\ a.cooldownUntil = 0
                               THEN ActiveGuardians \cup {g} ELSE ActiveGuardians \ {g}
         /\ Noticed' = IF a.pendingRemovalAt # 0
                       THEN Noticed \cup {g} ELSE Noticed \ {g}
<1>1. /\ account'[g] = a
      /\ \A h \in Keys \ {g} : account'[h] = account[h]
  BY DEF TypeOK
<1>2. QED
  BY <1>1 DEF ActiveGuardians, Noticed, Active, UnderNotice

\* The inductive invariant: the counters, the floor and the cap.
GuardianInvariant == TypeOK /\ CountersAreExact /\ SomebodyStaysToReact

LEMMA GuardianInvariantInit == Init => GuardianInvariant
<1> SUFFICES ASSUME Init PROVE GuardianInvariant
  OBVIOUS
<1>1. TypeOK
  BY GuardianInitTyped
<1>2. PICK first \in Keys :
        account = [g \in Keys |-> IF g = first THEN NewAccount ELSE NoAccount]
  BY DEF Init
<1>3. ActiveGuardians = {first} /\ Noticed = {}
  BY <1>2, NewAccountTyped DEF ActiveGuardians, Noticed, Active, UnderNotice, NoAccount
<1>4. CountersAreExact
  BY <1>3, FS_Singleton, FS_EmptySet DEF Init, CountersAreExact
<1>5. SomebodyStaysToReact
  BY GuardianAssumption DEF Init, SomebodyStaysToReact, MinActiveGuardians
<1>6. QED
  BY <1>1, <1>4, <1>5 DEF GuardianInvariant

\* An appointment: one more active guardian, and no notice on it.
LEMMA AddKeepsCount ==
  ASSUME GuardianInvariant, NEW g \in Keys, AddGuardian(g)
  PROVE  CountersAreExact' /\ SomebodyStaysToReact'
<1> USE DEF GuardianInvariant
<1>1. g \notin ActiveGuardians /\ g \notin Noticed
  BY DEF AddGuardian, ActiveGuardians, Noticed
<1>2. ActiveGuardians' = ActiveGuardians \cup {g} /\ Noticed' = Noticed
  <2>1. account' = [account EXCEPT ![g] = NewAccount]
    BY DEF AddGuardian
  <2>2. /\ ActiveGuardians' = ActiveGuardians \cup {g}
        /\ Noticed' = Noticed \ {g}
    <3>1. NewAccount.appointed /\ NewAccount.cooldownUntil = 0
      BY NewAccountTyped
    <3>2. ~(NewAccount.pendingRemovalAt # 0)
      BY NewAccountTyped
    <3>3. /\ ActiveGuardians' = IF NewAccount.appointed /\ NewAccount.cooldownUntil = 0
                               THEN ActiveGuardians \cup {g} ELSE ActiveGuardians \ {g}
          /\ Noticed' = IF NewAccount.pendingRemovalAt # 0
                       THEN Noticed \cup {g} ELSE Noticed \ {g}
      BY <2>1, OneAccountChanges
    <3>4. QED
      BY <3>1, <3>2, <3>3
  <2>3. QED
    BY <1>1, <2>2
<1>3. Cardinality(ActiveGuardians') = Cardinality(ActiveGuardians) + 1
  BY <1>1, <1>2, GuardiansAreFinite, FS_AddElement
<1>4. CountersAreExact'
  BY <1>2, <1>3 DEF AddGuardian, CountersAreExact
<1>5. SomebodyStaysToReact'
  BY GuardianAssumption DEF AddGuardian, SomebodyStaysToReact, TypeOK, MinActiveGuardians
<1>6. QED
  BY <1>4, <1>5

\* A notice: only a new one counts, and only above the floor.
LEMMA RemoveKeepsCount ==
  ASSUME GuardianInvariant, NEW g \in Keys, RemoveGuardian(g)
  PROVE  CountersAreExact' /\ SomebodyStaysToReact'
<1> USE DEF GuardianInvariant
<1> DEFINE a == [account[g] EXCEPT !.pendingRemovalAt = now + delay]
<1>1. account' = [account EXCEPT ![g] = a]
  BY DEF TypeOK, RemoveGuardian
<1>2. /\ a.appointed = account[g].appointed
      /\ a.cooldownUntil = account[g].cooldownUntil
      /\ a.pendingRemovalAt = now + delay
  BY DEF TypeOK, GuardianAccount
<1>3. now + delay # 0
  BY GuardianAssumption DEF TypeOK
<1>4. g \in ActiveGuardians
  BY DEF RemoveGuardian, ActiveGuardians
<1>5. ActiveGuardians' = ActiveGuardians /\ Noticed' = Noticed \cup {g}
  <2> HIDE DEF a
  <2>1. QED
    BY <1>1, <1>2, <1>3, <1>4, OneAccountChanges DEF ActiveGuardians, Active
<1>6. CASE ~UnderNotice(g)
  <2>1. MayScheduleRemoval /\ pendingRemovalCount' = pendingRemovalCount + 1
    BY <1>6 DEF RemoveGuardian, RemovalScheduleExpired
  <2>2. Cardinality(Noticed') = Cardinality(Noticed) + 1
    BY <1>5, <1>6, GuardiansAreFinite, FS_AddElement DEF Noticed
  <2>3. guardianCount - pendingRemovalCount > MinActiveGuardians
    BY <2>1 DEF MayScheduleRemoval, ActiveNotPending, TypeOK, MinActiveGuardians
  <2>4. QED
    BY <1>5, <2>1, <2>2, <2>3
    DEF RemoveGuardian, CountersAreExact, SomebodyStaysToReact, TypeOK, MinActiveGuardians
<1>7. CASE UnderNotice(g)
  <2>1. Noticed' = Noticed
    BY <1>5, <1>7 DEF Noticed
  <2>2. pendingRemovalCount' = pendingRemovalCount
    BY <1>7 DEF RemoveGuardian
  <2>3. QED
    BY <1>5, <2>1, <2>2
    DEF RemoveGuardian, CountersAreExact, SomebodyStaysToReact
<1>8. QED
  BY <1>6, <1>7

\* A removal takes one from each counter.
LEMMA FinalizeKeepsCount ==
  ASSUME GuardianInvariant, NEW g \in Keys, FinalizeRemoval(g)
  PROVE  CountersAreExact' /\ SomebodyStaysToReact'
<1> USE DEF GuardianInvariant
<1> DEFINE a == [account[g] EXCEPT !.cooldownUntil = now + Cooldown, !.pendingRemovalAt = 0]
<1>1. account' = [account EXCEPT ![g] = a]
  BY DEF TypeOK, FinalizeRemoval
<1>2. a.cooldownUntil = now + Cooldown /\ a.pendingRemovalAt = 0
  BY DEF TypeOK, GuardianAccount
<1>3. now + Cooldown # 0
  BY GuardianAssumption DEF TypeOK
<1>4. g \in ActiveGuardians /\ g \in Noticed
  BY DEF FinalizeRemoval, ActiveGuardians, Noticed
<1>5. ActiveGuardians' = ActiveGuardians \ {g} /\ Noticed' = Noticed \ {g}
  <2> HIDE DEF a
  <2>1. QED
    BY <1>1, <1>2, <1>3, OneAccountChanges
<1>6. /\ Cardinality(ActiveGuardians') = Cardinality(ActiveGuardians) - 1
      /\ Cardinality(Noticed') = Cardinality(Noticed) - 1
  BY <1>4, <1>5, GuardiansAreFinite, FS_RemoveElement
<1>7. QED
  BY <1>6, GuardianAssumption
  DEF FinalizeRemoval, CountersAreExact, SomebodyStaysToReact, TypeOK

\* A notice taken back, by whoever may.
LEMMA CancelKeepsCount ==
  ASSUME GuardianInvariant, NEW g \in Keys, NEW signer \in Keys, CancelRemoval(signer, g)
  PROVE  CountersAreExact' /\ SomebodyStaysToReact'
<1> USE DEF GuardianInvariant
<1>1. PICK a : /\ account' = [account EXCEPT ![g] = a]
               /\ a.appointed = account[g].appointed
               /\ a.cooldownUntil = account[g].cooldownUntil
               /\ a.pendingRemovalAt = 0
  <2>1. CASE account' = [account EXCEPT ![g].pendingRemovalAt = 0]
    <3> WITNESS [account[g] EXCEPT !.pendingRemovalAt = 0]
    <3>1. QED
      BY <2>1 DEF TypeOK, GuardianAccount
  <2>2. CASE account' = [account EXCEPT ![g].pendingRemovalAt = 0, ![g].selfCancelUsed = TRUE]
    <3> WITNESS [account[g] EXCEPT !.pendingRemovalAt = 0, !.selfCancelUsed = TRUE]
    <3>1. QED
      BY <2>2 DEF TypeOK, GuardianAccount
  <2>3. QED
    BY <2>1, <2>2 DEF CancelRemoval
<1>2. g \in Noticed
  BY DEF CancelRemoval, Noticed
<1>3. ActiveGuardians' = ActiveGuardians /\ Noticed' = Noticed \ {g}
  <2>1. /\ ActiveGuardians' = IF Active(g) THEN ActiveGuardians \cup {g}
                                         ELSE ActiveGuardians \ {g}
        /\ Noticed' = Noticed \ {g}
    BY <1>1, OneAccountChanges DEF Active
  <2>2. QED
    BY <2>1 DEF ActiveGuardians
<1>4. Cardinality(Noticed') = Cardinality(Noticed) - 1
  BY <1>2, <1>3, GuardiansAreFinite, FS_RemoveElement
<1>5. QED
  BY <1>3, <1>4 DEF CancelRemoval, CountersAreExact, SomebodyStaysToReact, TypeOK, MinActiveGuardians

LEMMA GuardianInvariantStep ==
  ASSUME GuardianInvariant, [Next]_vars
  PROVE  GuardianInvariant'
<1>1. TypeOK'
  BY GuardianStepTyped DEF GuardianInvariant, SomebodyStaysToReact, MinActiveGuardians, TypeOK
<1>2. CASE UNCHANGED guardianVars
  BY <1>1, <1>2
  DEF GuardianInvariant, CountersAreExact, SomebodyStaysToReact, guardianVars,
      ActiveGuardians, Noticed, Active, UnderNotice
<1>3. CASE AdminStep \/ UNCHANGED vars
  BY <1>2, <1>3, AdminStepTyped DEF GuardianInvariant, vars
<1>4. QED
  BY <1>1, <1>3, GuardianSteps, AddKeepsCount, RemoveKeepsCount, FinalizeKeepsCount,
     CancelKeepsCount DEF GuardianInvariant

\* GuardianInvariant is inductive; TypeOK, CountersAreExact and
\* SomebodyStaysToReact are its parts.
THEOREM GuardiansCorrect == Spec => []GuardianInvariant
<1>1. Init => GuardianInvariant
  BY GuardianInvariantInit
<1>2. GuardianInvariant /\ [Next]_vars => GuardianInvariant'
  BY GuardianInvariantStep
<1>3. QED
  BY <1>1, <1>2, PTL DEF Spec

\* Every variable has its type.
THEOREM GuardianTypes == Spec => []TypeOK
<1>1. GuardianInvariant => TypeOK
  BY DEF GuardianInvariant
<1>2. QED
  BY <1>1, GuardiansCorrect, PTL

\* The config counts the accounts: no checked_sub of guardian.rs can fail.
THEOREM CountersExact == Spec => []CountersAreExact
<1>1. GuardianInvariant => CountersAreExact
  BY DEF GuardianInvariant
<1>2. QED
  BY <1>1, GuardiansCorrect, PTL

\* The floor of guardian.rs 140-152 and 196-201 and the cap of 70-79.
THEOREM FloorHolds == Spec => []SomebodyStaysToReact
<1>1. GuardianInvariant => SomebodyStaysToReact
  BY DEF GuardianInvariant
<1>2. QED
  BY <1>1, GuardiansCorrect, PTL

\* What the two counters are for: there is always a guardian in office that no
\* notice hangs over (state/guardian.rs 59-64).
THEOREM SomebodyUnnoticed == Spec => [](\E g \in Keys : Active(g) /\ ~UnderNotice(g))
<1>1. ASSUME GuardianInvariant
      PROVE  \E g \in Keys : Active(g) /\ ~UnderNotice(g)
  <2>1. Cardinality(Noticed) < Cardinality(ActiveGuardians)
    BY <1>1, GuardiansAreFinite
    DEF GuardianInvariant, CountersAreExact, SomebodyStaysToReact, MinActiveGuardians
  <2>2. ~(ActiveGuardians \subseteq Noticed)
    BY <2>1, GuardiansAreFinite, FS_Subset
  <2>3. QED
    BY <2>2 DEF ActiveGuardians, Noticed
<1>2. QED
  BY <1>1, GuardiansCorrect, PTL

-----------------------------------------------------------------------------
(* The history: since when a notice and a candidate stand, and the vetoes.  *)

\* A standing notice was given at a recorded time and matures a timelock later.
NoticesAreDated ==
  \A g \in Keys :
    /\ noticeSince[g] \in Nat
    /\ UnderNotice(g) =>
         /\ noticeSince[g] # 0
         /\ account[g].pendingRemovalAt \in noticeSince[g] + MinDelay .. noticeSince[g] + MaxDelay

\* So does a candidate, which may accept until AdminExpiry later.
CandidateIsDated ==
  pendingAdmin # NoKey =>
    /\ candidateSince \in Nat \ {0}
    /\ adminEta \in candidateSince + MinDelay .. candidateSince + MaxDelay
    /\ adminExpires = adminEta + AdminExpiry

\* A veto that was cast is remembered in the account.
VetoesAreRemembered ==
  \A g \in Keys : vetoes[g] = 0 \/ (vetoes[g] = 1 /\ account[g].selfCancelUsed)

HistoryTyped ==
  /\ noticeSince \in [Keys -> Int] /\ vetoes \in [Keys -> Int]
  /\ now \in Nat \ {0}

\* The inductive invariant of the specification with its history.
HistoryInvariant ==
  /\ GuardianInvariant /\ HistoryTyped
  /\ NoticesAreDated /\ CandidateIsDated /\ VetoesAreRemembered

LEMMA HistoryInvariantInit == HInit => HistoryInvariant
<1> SUFFICES ASSUME HInit PROVE HistoryInvariant
  OBVIOUS
<1>1. GuardianInvariant
  BY GuardianInvariantInit DEF HInit
<1>2. \A g \in Keys : ~UnderNotice(g)
  BY NewAccountTyped DEF HInit, Init, UnderNotice, NoAccount
<1>3. HistoryTyped /\ CandidateIsDated
  BY DEF HInit, Init, HistoryTyped, CandidateIsDated
<1>4. NoticesAreDated /\ VetoesAreRemembered
  BY <1>2 DEF HInit, NoticesAreDated, VetoesAreRemembered
<1>5. QED
  BY <1>1, <1>3, <1>4 DEF HistoryInvariant

\* What a step may do to one guardian account: its notice stays, goes or is
\* given anew; office is lost on a matured notice inside its window; and a cast
\* veto is forgotten by a new appointment only.
LEMMA AccountSteps ==
  ASSUME GuardianInvariant, Next, NEW g \in Keys
  PROVE  /\ account'[g].pendingRemovalAt \in {account[g].pendingRemovalAt, 0, now + delay}
         /\ (Active(g) /\ ~Active(g)') =>
              /\ UnderNotice(g)
              /\ now >= account[g].pendingRemovalAt
              /\ now <= account[g].pendingRemovalAt + ExecWindow
         /\ account[g].selfCancelUsed => (account'[g].selfCancelUsed \/ Appointed(g))
<1> USE DEF GuardianInvariant
<1> DEFINE Goal ==
  /\ account'[g].pendingRemovalAt \in {account[g].pendingRemovalAt, 0, now + delay}
  /\ (Active(g) /\ ~Active(g)') =>
       /\ UnderNotice(g)
       /\ now >= account[g].pendingRemovalAt
       /\ now <= account[g].pendingRemovalAt + ExecWindow
  /\ account[g].selfCancelUsed => (account'[g].selfCancelUsed \/ Appointed(g))
<1>1. CASE account'[g] = account[g]
  BY <1>1 DEF Active
<1>2. ASSUME NEW h \in Keys, AddGuardian(h)
      PROVE  Goal
  <2>1. CASE h # g
    BY <1>1, <1>2, <2>1 DEF AddGuardian, TypeOK
  <2>2. CASE h = g
    <3>1. account'[g] = NewAccount
      BY <1>2, <2>2 DEF AddGuardian, TypeOK
    <3>2. Active(g)' /\ account'[g].pendingRemovalAt = 0
      BY <3>1, NewAccountTyped DEF Active
    <3>3. ~Active(g)
      BY <1>2, <2>2 DEF AddGuardian
    <3>4. QED
      BY <3>2, <3>3 DEF Appointed
  <2>3. QED
    BY <2>1, <2>2
<1>3. ASSUME NEW h \in Keys, RemoveGuardian(h)
      PROVE  Goal
  <2>1. CASE h # g
    BY <1>1, <1>3, <2>1 DEF RemoveGuardian, TypeOK
  <2>2. CASE h = g
    <3>1. account'[g] = [account[g] EXCEPT !.pendingRemovalAt = now + delay]
      BY <1>3, <2>2 DEF RemoveGuardian, TypeOK
    <3>2. /\ account'[g].pendingRemovalAt = now + delay
          /\ account'[g].appointed = account[g].appointed
          /\ account'[g].cooldownUntil = account[g].cooldownUntil
          /\ account'[g].selfCancelUsed = account[g].selfCancelUsed
      BY <3>1 DEF TypeOK, GuardianAccount
    <3>3. QED
      BY <3>2 DEF Active
  <2>3. QED
    BY <2>1, <2>2
<1>4. ASSUME NEW h \in Keys, FinalizeRemoval(h)
      PROVE  Goal
  <2>1. CASE h # g
    BY <1>1, <1>4, <2>1 DEF FinalizeRemoval, TypeOK
  <2>2. CASE h = g
    <3>1. account'[g] = [account[g] EXCEPT !.cooldownUntil = now + Cooldown,
                                           !.pendingRemovalAt = 0]
      BY <1>4, <2>2 DEF FinalizeRemoval, TypeOK
    <3>2. /\ account'[g].pendingRemovalAt = 0
          /\ account'[g].selfCancelUsed = account[g].selfCancelUsed
      BY <3>1 DEF TypeOK, GuardianAccount
    <3>3. /\ UnderNotice(g)
          /\ now >= account[g].pendingRemovalAt
          /\ ~(now > account[g].pendingRemovalAt + ExecWindow)
      BY <1>4, <2>2 DEF FinalizeRemoval, RemovalScheduleExpired
    <3>4. now \in Nat /\ account[g].pendingRemovalAt \in Nat
      BY DEF TypeOK, GuardianAccount
    <3>5. now <= account[g].pendingRemovalAt + ExecWindow
      BY <3>3, <3>4, GuardianAssumption
    <3>6. QED
      BY <3>2, <3>3, <3>5
  <2>3. QED
    BY <2>1, <2>2
<1>5. ASSUME NEW h \in Keys, NEW signer \in Keys, CancelRemoval(signer, h)
      PROVE  Goal
  <2>1. CASE h # g
    BY <1>1, <1>5, <2>1 DEF CancelRemoval, TypeOK
  <2>2. CASE h = g
    <3>1. \/ account'[g] = [account[g] EXCEPT !.pendingRemovalAt = 0]
          \/ account'[g] = [account[g] EXCEPT !.pendingRemovalAt = 0, !.selfCancelUsed = TRUE]
      BY <1>5, <2>2 DEF CancelRemoval, TypeOK
    <3>2. /\ account'[g].pendingRemovalAt = 0
          /\ account'[g].appointed = account[g].appointed
          /\ account'[g].cooldownUntil = account[g].cooldownUntil
          /\ account[g].selfCancelUsed => account'[g].selfCancelUsed
      BY <3>1 DEF TypeOK, GuardianAccount
    <3>3. QED
      BY <3>2 DEF Active
  <2>3. QED
    BY <2>1, <2>2
<1>6. CASE AdminStep
  BY <1>1, <1>6, AdminStepTyped DEF guardianVars
<1>7. QED
  BY <1>2, <1>3, <1>4, <1>5, <1>6 DEF Next, AdminStep

\* What a step may do to the transfer: it stays, ends, or a new candidate is
\* named; and the role moves to a candidate inside its window.
LEMMA TransferSteps ==
  ASSUME GuardianInvariant, Next
  PROVE  /\ \/ UNCHANGED << pendingAdmin, adminEta, adminExpires >>
            \/ pendingAdmin' = NoKey
            \/ /\ adminEta' = now + delay
               /\ adminExpires' = now + delay + AdminExpiry
               /\ pendingAdmin = NoKey \/ now > adminExpires
         /\ admin' # admin => /\ pendingAdmin # NoKey /\ admin' = pendingAdmin
                              /\ now >= adminEta /\ now <= adminExpires
<1> DEFINE Goal ==
  /\ \/ UNCHANGED << pendingAdmin, adminEta, adminExpires >>
     \/ pendingAdmin' = NoKey
     \/ /\ adminEta' = now + delay
        /\ adminExpires' = now + delay + AdminExpiry
        /\ pendingAdmin = NoKey \/ now > adminExpires
  /\ admin' # admin => /\ pendingAdmin # NoKey /\ admin' = pendingAdmin
                       /\ now >= adminEta /\ now <= adminExpires
<1>1. CASE UNCHANGED adminVars
  BY <1>1 DEF adminVars
<1>2. ASSUME NEW key \in Keys, ProposeAdminTransfer(key)
      PROVE  Goal
  BY <1>2 DEF ProposeAdminTransfer
<1>3. ASSUME NEW key \in Keys, AcceptAdminTransfer(key)
      PROVE  Goal
  BY <1>3 DEF AcceptAdminTransfer, ClearTransfer
<1>4. ASSUME NEW key \in Keys, CancelAdminTransfer(key)
      PROVE  Goal
  BY <1>4 DEF CancelAdminTransfer, ClearTransfer
<1>5. QED
  BY <1>1, <1>2, <1>3, <1>4
  DEF Next, AddGuardian, RemoveGuardian, FinalizeRemoval, CancelRemoval, Tick,
      AdminTimelockChanges

LEMMA HistoryTypedStep ==
  ASSUME HistoryInvariant, HNext
  PROVE  HistoryTyped'
<1>1. now' = now \/ now' = now + 1
  BY DEF HNext, Next, AddGuardian, RemoveGuardian, FinalizeRemoval, CancelRemoval,
     ProposeAdminTransfer, AcceptAdminTransfer, CancelAdminTransfer, Tick,
     AdminTimelockChanges
<1>2. noticeSince' \in [Keys -> Int]
  BY DEF HNext, HistoryInvariant, HistoryTyped
<1>3. vetoes' \in [Keys -> Int]
  BY DEF HNext, HistoryInvariant, HistoryTyped
<1>4. QED
  BY <1>1, <1>2, <1>3 DEF HistoryInvariant, HistoryTyped

LEMMA NoticesAreDatedStep ==
  ASSUME HistoryInvariant, HNext
  PROVE  NoticesAreDated'
<1> SUFFICES ASSUME NEW g \in Keys
             PROVE  /\ noticeSince'[g] \in Nat
                    /\ UnderNotice(g)' =>
                         /\ noticeSince'[g] # 0
                         /\ account'[g].pendingRemovalAt
                              \in noticeSince'[g] + MinDelay .. noticeSince'[g] + MaxDelay
  BY DEF NoticesAreDated
<1>1. account'[g].pendingRemovalAt \in {account[g].pendingRemovalAt, 0, now + delay}
  BY AccountSteps DEF HistoryInvariant, HNext
<1>2. noticeSince'[g] = IF account'[g].pendingRemovalAt = 0 THEN 0
                        ELSE IF NoticeGiven(g) THEN now ELSE noticeSince[g]
  BY DEF HNext
<1>3. /\ now \in Nat \ {0} /\ delay \in MinDelay..MaxDelay
      /\ noticeSince[g] \in Nat
  BY DEF HistoryInvariant, HistoryTyped, GuardianInvariant, TypeOK, NoticesAreDated
<1>4. CASE account'[g].pendingRemovalAt = 0
  BY <1>2, <1>4 DEF UnderNotice
<1>5. CASE account'[g].pendingRemovalAt # 0 /\ NoticeGiven(g)
  <2>1. noticeSince'[g] = now
    BY <1>2, <1>5
  <2>2. account'[g].pendingRemovalAt = now + delay
    BY <1>1, <1>5 DEF NoticeGiven
  <2>3. QED
    BY <1>3, <2>1, <2>2, GuardianAssumption
<1>6. CASE account'[g].pendingRemovalAt # 0 /\ ~NoticeGiven(g)
  <2>1. noticeSince'[g] = noticeSince[g]
    BY <1>2, <1>6
  <2>2. account'[g].pendingRemovalAt = account[g].pendingRemovalAt
    BY <1>6 DEF NoticeGiven
  <2>3. QED
    BY <1>3, <1>6, <2>1, <2>2 DEF HistoryInvariant, NoticesAreDated, UnderNotice
<1>7. QED
  BY <1>4, <1>5, <1>6

LEMMA CandidateIsDatedStep ==
  ASSUME HistoryInvariant, HNext
  PROVE  CandidateIsDated'
<1> SUFFICES ASSUME pendingAdmin' # NoKey
             PROVE  /\ candidateSince' \in Nat \ {0}
                    /\ adminEta' \in candidateSince' + MinDelay .. candidateSince' + MaxDelay
                    /\ adminExpires' = adminEta' + AdminExpiry
  BY DEF CandidateIsDated
<1>1. /\ now \in Nat \ {0} /\ delay \in MinDelay..MaxDelay
      /\ adminEta \in Nat /\ adminExpires \in Nat
  BY DEF HistoryInvariant, HistoryTyped, GuardianInvariant, TypeOK
<1>2. candidateSince' = IF << pendingAdmin, adminEta >>' # << pendingAdmin, adminEta >>
                        THEN now ELSE candidateSince
  BY DEF HNext
<1>3. CASE UNCHANGED << pendingAdmin, adminEta, adminExpires >>
  BY <1>2, <1>3 DEF HistoryInvariant, CandidateIsDated
<1>4. CASE /\ adminEta' = now + delay
           /\ adminExpires' = now + delay + AdminExpiry
           /\ pendingAdmin = NoKey \/ now > adminExpires
  <2>1. << pendingAdmin, adminEta >>' # << pendingAdmin, adminEta >>
    <3>1. CASE pendingAdmin = NoKey
      BY <3>1
    <3>2. CASE pendingAdmin # NoKey
      <4>1. now > adminExpires /\ adminExpires = adminEta + AdminExpiry
        BY <1>4, <3>2 DEF HistoryInvariant, CandidateIsDated
      <4>2. adminEta' # adminEta
        BY <1>1, <1>4, <4>1, GuardianAssumption
      <4>3. QED
        BY <4>2
    <3>3. QED
      BY <3>1, <3>2
  <2>2. candidateSince' = now
    BY <1>2, <2>1
  <2>3. QED
    BY <1>1, <1>4, <2>2, GuardianAssumption
<1>5. QED
  BY <1>3, <1>4, TransferSteps DEF HistoryInvariant, HNext

LEMMA VetoesAreRememberedStep ==
  ASSUME HistoryInvariant, HNext
  PROVE  VetoesAreRemembered'
<1> SUFFICES ASSUME NEW g \in Keys
             PROVE  vetoes'[g] = 0 \/ (vetoes'[g] = 1 /\ account'[g].selfCancelUsed)
  BY DEF VetoesAreRemembered
<1>1. vetoes'[g] = IF Appointed(g) THEN 0
                   ELSE IF SelfVeto(g) THEN vetoes[g] + 1 ELSE vetoes[g]
  BY DEF HNext
<1>2. vetoes[g] = 0 \/ (vetoes[g] = 1 /\ account[g].selfCancelUsed)
  BY DEF HistoryInvariant, VetoesAreRemembered
<1>3. CASE Appointed(g)
  BY <1>1, <1>3
<1>4. CASE ~Appointed(g) /\ SelfVeto(g)
  <2>1. /\ ~account[g].selfCancelUsed
        /\ account' = [account EXCEPT ![g].pendingRemovalAt = 0, ![g].selfCancelUsed = TRUE]
    BY <1>4 DEF SelfVeto, CancelRemoval
  <2>2. account'[g].selfCancelUsed
    BY <2>1 DEF HistoryInvariant, GuardianInvariant, TypeOK, GuardianAccount
  <2>3. vetoes'[g] = 1
    BY <1>1, <1>2, <1>4, <2>1
  <2>4. QED
    BY <2>2, <2>3
<1>5. CASE ~Appointed(g) /\ ~SelfVeto(g)
  <2>1. vetoes'[g] = vetoes[g]
    BY <1>1, <1>5
  <2>2. account[g].selfCancelUsed => account'[g].selfCancelUsed
    BY <1>5, AccountSteps DEF HistoryInvariant, HNext
  <2>3. QED
    BY <1>2, <2>1, <2>2
<1>6. QED
  BY <1>3, <1>4, <1>5

LEMMA HistoryInvariantStep ==
  ASSUME HistoryInvariant, [HNext]_historyVars
  PROVE  HistoryInvariant'
<1>1. CASE HNext
  <2>1. GuardianInvariant'
    BY <1>1, GuardianInvariantStep DEF HistoryInvariant, HNext
  <2>2. QED
    BY <1>1, <2>1, HistoryTypedStep, NoticesAreDatedStep, CandidateIsDatedStep,
       VetoesAreRememberedStep DEF HistoryInvariant
<1>2. CASE UNCHANGED historyVars
  <2>1. UNCHANGED vars
    BY <1>2 DEF historyVars
  <2>2. GuardianInvariant'
    BY <2>1, GuardianInvariantStep DEF HistoryInvariant
  <2>3. QED
    BY <1>2, <2>2
    DEF historyVars, vars, adminVars, guardianVars, HistoryInvariant, HistoryTyped,
        NoticesAreDated, CandidateIsDated, VetoesAreRemembered, UnderNotice
<1>3. QED
  BY <1>1, <1>2

LEMMA HistoryCorrect == HSpec => []HistoryInvariant
<1>1. HInit => HistoryInvariant
  BY HistoryInvariantInit
<1>2. HistoryInvariant /\ [HNext]_historyVars => HistoryInvariant'
  BY HistoryInvariantStep
<1>3. QED
  BY <1>1, <1>2, PTL DEF HSpec

\* However the admin schedules, cancels and re-arms, a guardian refuses its own
\* removal at most once per appointment.
THEOREM OneVeto == HSpec => []OneVetoPerAppointment
<1>1. HistoryInvariant => OneVetoPerAppointment
  BY DEF HistoryInvariant, VetoesAreRemembered, OneVetoPerAppointment
<1>2. QED
  BY <1>1, HistoryCorrect, PTL

\* A guardian leaves office only on a notice of at least the minimum timelock
\* that has not gone stale.
THEOREM RemovalIsAnnounced == HSpec => RemovalHasFreshNotice
<1>1. ASSUME HistoryInvariant, [HNext]_historyVars,
             NEW g \in Keys, Active(g), ~Active(g)'
      PROVE  /\ noticeSince[g] # 0
             /\ now >= noticeSince[g] + MinDelay
             /\ now <= noticeSince[g] + MaxDelay + ExecWindow
  <2>1. Next
    BY <1>1 DEF HNext, historyVars, vars, guardianVars, Active
  <2>2. /\ UnderNotice(g)
        /\ now >= account[g].pendingRemovalAt
        /\ now <= account[g].pendingRemovalAt + ExecWindow
    BY <1>1, <2>1, AccountSteps DEF HistoryInvariant
  <2>3. /\ noticeSince[g] \in Nat /\ noticeSince[g] # 0
        /\ account[g].pendingRemovalAt \in noticeSince[g] + MinDelay .. noticeSince[g] + MaxDelay
        /\ now \in Nat
    BY <1>1, <2>2 DEF HistoryInvariant, NoticesAreDated, HistoryTyped
  <2>4. QED
    BY <2>2, <2>3, GuardianAssumption
<1>2. HistoryInvariant /\ [HNext]_historyVars =>
        [ \A g \in Keys : (Active(g) /\ ~Active(g)') =>
            /\ noticeSince[g] # 0
            /\ now >= noticeSince[g] + MinDelay
            /\ now <= noticeSince[g] + MaxDelay + ExecWindow ]_historyVars
  BY <1>1
<1>3. QED
  BY <1>2, HistoryCorrect, PTL DEF HSpec, RemovalHasFreshNotice

\* The admin role moves only to the candidate that stood announced, inside its
\* acceptance window.
THEOREM HandoverAnnounced == HSpec => HandoverIsAnnounced
<1>1. ASSUME HistoryInvariant, [HNext]_historyVars, admin' # admin
      PROVE  /\ candidateSince # 0
             /\ admin' = pendingAdmin
             /\ now >= candidateSince + MinDelay
             /\ now <= candidateSince + MaxDelay + AdminExpiry
  <2>1. Next
    BY <1>1 DEF HNext, historyVars, vars, adminVars
  <2>2. /\ pendingAdmin # NoKey /\ admin' = pendingAdmin
        /\ now >= adminEta /\ now <= adminExpires
    BY <1>1, <2>1, TransferSteps DEF HistoryInvariant
  <2>3. /\ candidateSince \in Nat \ {0} /\ now \in Nat
        /\ adminEta \in candidateSince + MinDelay .. candidateSince + MaxDelay
        /\ adminExpires = adminEta + AdminExpiry
    BY <1>1, <2>2 DEF HistoryInvariant, CandidateIsDated, HistoryTyped
  <2>4. QED
    BY <2>2, <2>3, GuardianAssumption
<1>2. HistoryInvariant /\ [HNext]_historyVars =>
        [ admin' # admin =>
            /\ candidateSince # 0
            /\ admin' = pendingAdmin
            /\ now >= candidateSince + MinDelay
            /\ now <= candidateSince + MaxDelay + AdminExpiry ]_historyVars
  BY <1>1
<1>3. QED
  BY <1>2, HistoryCorrect, PTL DEF HSpec, HandoverIsAnnounced
=============================================================================
