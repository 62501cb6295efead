-------------------------- MODULE MCFrontendCache --------------------------
(***************************************************************************)
(* Instances of FrontendCache for TLC.  Three source texts: two grammars   *)
(* with the same symbol and production counts, one with other counts, so   *)
(* that the parser's fingerprint both tells texts apart and confuses them. *)
(***************************************************************************)
EXTENDS FrontendCache, TLC

CONSTANTS p1, p2, g1, g2, g3

MCCount3 == (g1 :> 1) @@ (g2 :> 1) @@ (g3 :> 2)
MCCount2 == (g1 :> 1) @@ (g2 :> 1)
MCCount1 == (g1 :> 1)

(* Processes are interchangeable, and so are two texts with equal counts.  *)
Symmetry == {f @@ g : f \in Permutations(Procs), g \in Permutations({g1, g2})}
=============================================================================
