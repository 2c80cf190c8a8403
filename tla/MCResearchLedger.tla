-------------------------- MODULE MCResearchLedger --------------------------
(* Instances of ResearchLedger for TLC.                                     *)
EXTENDS ResearchLedger, TLC

\* The plan pursues everything everywhere.
MCPursuedFor == [s \in Sources |-> Keys]

\* What the sources of the attribute say: enough for two pages to disagree
\* about how well it is known.  A page that says nothing differs from one that
\* cannot be read, which any source may turn out to be, only in the gap.
KnownReadings == {{<<k, q>>} : k \in Keys, q \in {"FACT", "WEAK"}}

\* Pages that leave every reading to a person, or say nothing.
DoubtfulReadings == {{}} \cup {{<<k, q>>} : k \in Keys, q \in {"WEAK", "SAMPLED"}}

\* Attempts are alike, and so are operators; sound for invariants.
Alike == Permutations(Reviewers) \cup Permutations(Attempts)
=============================================================================
