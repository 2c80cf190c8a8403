-------------------------- MODULE DecisionRegister --------------------------
(***************************************************************************)
(* What entity resolution promises to whoever reads it.  Each provider     *)
(* entity has one current decision, or none yet, and a past that only      *)
(* grows; the registry of companies only grows, with the decisions that    *)
(* name its companies.  A whole discovery run, or a whole human decision,  *)
(* takes effect in one step.  There are no transactions, no unique keys    *)
(* and no lost races here.                                                 *)
(***************************************************************************)
CONSTANTS
    Entities,     \* provider entities
    Authors,      \* who decides
    Machines,     \* the authors that are runs and not people
    Registered,   \* companies in the registry at the beginning
    None          \* no decision, no company

VARIABLES
    current,      \* the decision that holds for each entity, or None
    past,         \* the decisions on each entity that do not hold any more
    registry      \* companies

Author(d) == d.id[1]

IsOpen(d) == d = None \/ d.verdict = "AMBIGUOUS"

Init ==
    /\ current = [e \in Entities |-> None]
    /\ past = [e \in Entities |-> {}]
    /\ registry = Registered

\* Author a decides about e, perhaps several times over: the last decision
\* holds from now on, and what held is past for good.  A machine leaves alone
\* what is not open.
Decides(a, e) ==
    /\ a \in Machines => IsOpen(current[e])
    /\ current'[e] # None /\ Author(current'[e]) = a
    /\ current'[e] \notin past'[e] \cup {current[e]}
    /\ past[e] \cup ({current[e]} \ {None}) \subseteq past'[e]
    /\ \A d \in past'[e] \ (past[e] \cup {current[e]}) : Author(d) = a

Keeps(e) == current'[e] = current[e] /\ past'[e] = past[e]

\* Companies enter the registry with a decision of the step that names them,
\* and no current decision names a company that is not registered.
Registers ==
    LET before(e) == past[e] \cup {current[e]}
        added == UNION {(past'[e] \cup {current'[e]}) \ before(e) : e \in Entities}
        named == {d.company : d \in added}
    IN  /\ registry \subseteq registry'
        /\ registry' \ registry \subseteq named
        /\ named \subseteq registry' \cup {None}

Decide ==
    /\ \E a \in Authors : \A e \in Entities : Decides(a, e) \/ Keeps(e)
    /\ Registers

Spec == Init /\ [][Decide]_<<current, past, registry>>
=============================================================================
