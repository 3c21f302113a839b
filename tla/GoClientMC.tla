----------------------------- MODULE GoClientMC -----------------------------
(* Values for the constants of GoClient that a configuration file cannot   *)
(* write.                                                                  *)
EXTENDS GoClient, TLC

CONSTANTS s1, s2, m1, m2, c1, alice

EachSessionCalls == (m1 :> s1) @@ (m2 :> s2)
OneUser == (s1 :> alice) @@ (s2 :> alice)

(* With EachSessionCalls, swapping the sessions and their calls together   *)
(* changes nothing.                                                        *)
Swapped == {p \in Permutations({s1, s2, m1, m2}) :
                /\ p[s1] \in {s1, s2}
                /\ \A m \in {m1, m2} :
                      /\ p[m] \in {m1, m2}
                      /\ EachSessionCalls[p[m]] = p[EachSessionCalls[m]]}
=============================================================================
