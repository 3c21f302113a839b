------------------------------ MODULE ClientMC ------------------------------
(* Values for the constants of Client that a configuration file cannot     *)
(* write.                                                                  *)
EXTENDS Client, TLC

CONSTANTS s1, s2, m1, m2, m3, m4, alice

EachSessionCalls == (m1 :> s1) @@ (m2 :> s2)
TwoSessionsCalls == EachSessionCalls @@ (m3 :> s1)
ThreeAndAnOwnCall == [m \in {m1, m2, m3} |-> s1] @@ (m4 :> Own)
OneUser == (s1 :> alice) @@ (s2 :> alice)

(* With ThreeAndAnOwnCall, the calls of the session are interchangeable.   *)
Permuted == Permutations({m1, m2, m3})
=============================================================================
