------------------------------ MODULE MCStepUp ------------------------------
(***************************************************************************)
(* Two session ids and two users, with room for one session and one        *)
(* handshake at a time; one sensitive request needs both factors, the      *)
(* other a step-up alone.                                                  *)
(***************************************************************************)
EXTENDS StepUp, TLC

CONSTANTS s1, s2, alice, bob, n1, revoke, transfer

MCSessionIds == {s1, s2}

MCUsers == {alice, bob}

MCNonces == {n1}

MCTimestamps == {0}

MCRequests == {revoke, transfer}

MCNeedsOtp == {revoke}

MCActionOf == (revoke :> "passkey.revoke") @@ (transfer :> "transfer")

(* Ids and users are only compared with each other. *)
MCSymmetry == Permutations(MCSessionIds) \cup Permutations(MCUsers)
=============================================================================
