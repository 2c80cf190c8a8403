------------------------ MODULE ResolutionRefinement ------------------------
(***************************************************************************)
(* ResolutionChain implements DecisionRegister: to a reader of committed   *)
(* data each entity has one current decision that changes atomically,      *)
(* although decisions are stored as rows that point at one another and are *)
(* written by transactions that race, wait, adopt each other's conclusions *)
(* and roll back.                                                          *)
(***************************************************************************)
EXTENDS ResolutionChain

DecidedOn(e) == {d \in Committed : d.entity = e}

\* current_head as a reader of committed data sees it.
CurrentOn(e) ==
    IF DecidedOn(e) = {} THEN None ELSE CHOOSE d \in HeadsIn(Committed, e) : TRUE

Register == INSTANCE DecisionRegister WITH
    Authors <- Txns,
    Machines <- Resolvers,
    Registered <- KnownCompanies,
    current <- [e \in Entities |-> CurrentOn(e)],
    past <- [e \in Entities |-> DecidedOn(e) \ {CurrentOn(e)}],
    registry <- CommittedCompanies

\* Every step of the chain is one step of the register, or none: all that a
\* run decides shows at its commit, on top of what held until then and by an
\* author who was allowed to replace it, together with the companies it
\* minted; what an aborted transaction did never shows (resolution.py:382-451,
\* db.py:71-82).
ImplementsDecisionRegister == Register!Spec
=============================================================================
