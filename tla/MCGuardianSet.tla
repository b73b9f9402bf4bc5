---------------------------- MODULE MCGuardianSet ----------------------------
(* The guardian set with its history, for TLC: interchangeable keys and a     *)
(* clock long enough for a notice, its expiry and a second notice.            *)
EXTENDS GuardianHistory, TLC

KeySymmetry == Permutations(Keys)
=============================================================================
