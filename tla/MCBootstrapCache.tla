-------------------------- MODULE MCBootstrapCache --------------------------
(* Two processes with a goroutine each, two logins, two cacheable paths.   *)
EXTENDS BootstrapCache, TLC

CONSTANTS p1, p2, c1, c2, k1, k2

MCProcOf == (c1 :> p1) @@ (c2 :> p2)

\* The two processes can be swapped together with their goroutines.
Swap == (p1 :> p2) @@ (p2 :> p1) @@ (c1 :> c2) @@ (c2 :> c1)
MCSymmetry == Permutations({k1, k2}) \cup {Swap @@ k : k \in Permutations({k1, k2})}
=============================================================================
