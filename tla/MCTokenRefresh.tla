--------------------------- MODULE MCTokenRefresh ---------------------------
(* Two processes, two requests (of one process or of both), two logins.    *)
EXTENDS TokenRefresh, TLC

CONSTANTS p1, p2, r1, r2

LoginSymmetry == Permutations(Login)

\* Two processes that make requests ...
MCProcOf == (r1 :> p1) @@ (r2 :> p2)

\* ... and one that makes both, beside one that only logs in and out.
MCProcOfShared == (r1 :> p1) @@ (r2 :> p1)
=============================================================================
