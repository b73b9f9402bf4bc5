--------------------------- MODULE GuardianHistory ---------------------------
(***************************************************************************)
(* GuardianSet with history variables that no action reads: since when the *)
(* current notice and the current admin candidate have been announced, and *)
(* how often a guardian has vetoed its own removal since its appointment.  *)
(***************************************************************************)
EXTENDS GuardianSet

VARIABLES
  noticeSince,   \* key -> when the notice it is under was given (0: none)
  candidateSince,\* when the pending admin transfer was announced (0: none)
  vetoes         \* key -> self-vetoes since the last appointment

historyVars == << vars, noticeSince, candidateSince, vetoes >>

SelfVeto(g) == CancelRemoval(g, g) /\ g # admin /\ ~RemovalScheduleExpired(g)
Appointed(g) == ~Active(g) /\ Active(g)'
NoticeGiven(g) ==
  account'[g].pendingRemovalAt \notin {0, account[g].pendingRemovalAt}

HInit ==
  /\ Init
  /\ noticeSince = [g \in Keys |-> 0]
  /\ candidateSince = 0
  /\ vetoes = [g \in Keys |-> 0]

HNext ==
  /\ Next
  /\ noticeSince' = [ g \in Keys |->
                        IF account'[g].pendingRemovalAt = 0 THEN 0
                        ELSE IF NoticeGiven(g) THEN now ELSE noticeSince[g] ]
  /\ candidateSince' = IF pendingAdmin' = NoKey THEN 0
                       ELSE IF << pendingAdmin, adminEta >>' # << pendingAdmin, adminEta >>
                              THEN now ELSE candidateSince
  /\ vetoes' = [ g \in Keys |->
                   IF Appointed(g) THEN 0
                   ELSE IF SelfVeto(g) THEN vetoes[g] + 1 ELSE vetoes[g] ]

HSpec == HInit /\ [][HNext]_historyVars

\* A guardian loses its powers only after a full minimum timelock of notice that
\* is still standing, and never on a notice older than the longest timelock plus
\* the execution window: no instant eviction and no stored eviction coupon
\* (guardian.rs 124-139 and 186-201, state/guardian.rs 66-71).
RemovalHasFreshNotice ==
  [][ \A g \in Keys : (Active(g) /\ ~Active(g)') =>
        /\ noticeSince[g] # 0
        /\ now >= noticeSince[g] + MinDelay
        /\ now <= noticeSince[g] + MaxDelay + ExecWindow ]_historyVars

\* The admin role moves only to the candidate that has stood announced for the
\* minimum timelock, and not after its acceptance window (transfer.rs 33-47 and
\* 75-82).
HandoverIsAnnounced ==
  [][ admin' # admin =>
        /\ candidateSince # 0
        /\ admin' = pendingAdmin
        /\ now >= candidateSince + MinDelay
        /\ now <= candidateSince + MaxDelay + AdminExpiry ]_historyVars

\* A guardian vetoes its own removal at most once per appointment, whatever the
\* admin cancels, re-arms or lets expire in between: an eviction cannot be
\* refused for ever (guardian.rs 243-251).
OneVetoPerAppointment == \A g \in Keys : vetoes[g] <= 1
=============================================================================
