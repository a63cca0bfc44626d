------------------------------ MODULE MCSignIn ------------------------------
(* Two addresses; a second identity signs in with the first one's address. *)
EXTENDS SignIn, TLC

CONSTANTS a, b, s1, s2, c1, c2, d1, d2

MCEmails == {a, b}
MCIdentities == {<<s1, a>>, <<s2, b>>, <<s2, a>>}
MCSymmetry == Permutations(AdminCalls) \cup Permutations(Deliveries)
=============================================================================
