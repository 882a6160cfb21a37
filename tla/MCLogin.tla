------------------------------- MODULE MCLogin -------------------------------
(***************************************************************************)
(* One user with two sessions and two passkeys, and two requests that may  *)
(* await at one time.                                                      *)
(***************************************************************************)
EXTENDS Login, TLC

CONSTANTS s1, s2, alice, k1, k2, code, q1, q2

MCSessionIds == {s1, s2}

MCUsers == {alice}

MCCredentials == {k1, k2}

MCCodes == {code}

MCRequests == {q1, q2}

(* None of these is told apart but by its history. *)
MCSymmetry ==
  Permutations(MCSessionIds) \cup Permutations(MCCredentials)
    \cup Permutations(MCRequests)
=============================================================================
