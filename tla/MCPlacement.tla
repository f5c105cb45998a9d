------------------------------ MODULE MCPlacement ------------------------------
(* Small instances of Placement for TLC. *)
EXTENDS Placement, TLC

CONSTANTS h1, i1, i2, c1, c2, a1, a2, a3, r1, r2, k1, k2

\* A pool of one port and one of two.
MCPools == {{1}, {1, 2}}

\* Two addresses of one machine, and one of another.
MCKeyOf == a1 :> k1 @@ a2 :> k1 @@ a3 :> k2

PlacementSymmetry == Permutations(Clients) \cup Permutations(Instances)
================================================================================
