------------------------------ MODULE MCProxy ------------------------------
(***************************************************************************)
(* Instances of Proxy for TLC.                                             *)
(***************************************************************************)
EXTENDS Proxy, TLC

CONSTANTS small, large, huge

\* A response that fits the cache twice, one that fits it once, and
\* one that is not cached
MCSize == (small :> 1) @@ (large :> 2) @@ (huge :> 3)

=============================================================================
