------------------------- MODULE MCResolutionChain -------------------------
(* Instances of ResolutionChain for TLC.                                    *)
EXTENDS ResolutionRefinement, FiniteSets, TLC

CONSTANTS VersionCount

\* Every record version was numbered when it was ingested.
MCVersions == 1..VersionCount

\* All versions are of one entity, or the versions alternate between two, so
\* that two runs that sighted different versions meet the entities in
\* opposite orders.
AnEntity == CHOOSE e \in Entities : TRUE
AnotherEntity == CHOOSE e \in Entities : Cardinality(Entities) > 1 => e # AnEntity
MCEntityOf == [v \in MCVersions |-> IF v % 2 = 1 THEN AnEntity ELSE AnotherEntity]

\* Runs are alike; sound for invariants and action properties.
Alike == Permutations(Resolvers)
=============================================================================
