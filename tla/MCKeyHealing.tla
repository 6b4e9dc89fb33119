--------------------------- MODULE MCKeyHealing ---------------------------
(* Symmetry and a bound for the runs of KeyHealing.                        *)
EXTENDS KeyHealing, TLC

Interchangeable ==
    {f @@ g : f \in Permutations(Request), g \in Permutations(Chain)}
\* A bound: an update of the cache fails only when it leaves a response in the
\* file that is old, or can become old, and that the snapshot does not have.
FailuresMatter ==
    failed' # failed =>
        \E k \in Key : /\ file'[k] \notin {0, cache'[k]}
                       /\ file'[k] < version[k] \/ Changes(k)
=============================================================================
