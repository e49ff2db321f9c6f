------------------------- MODULE MC_MutationClient -------------------------
(* Model of the mutation-engine client: two mutation-type subsets (two     *)
(* children), the bootstrap Random request and two other request payloads. *)
EXTENDS MutationClient

CONSTANTS s1, s2, rRandom, r1, r2, none

MCSpaces == {s1, s2}
MCRequests == {rRandom, r1, r2}
=============================================================================
