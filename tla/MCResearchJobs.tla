--------------------------- MODULE MCResearchJobs ---------------------------
(* Instances of ResearchJobs for TLC.                                       *)
EXTENDS ResearchJobs, TLC

CONSTANTS JobCount

MCJobIds == 1..JobCount

ADefault == CHOOSE r \in Runs \ Raising : TRUE
BDefault == CHOOSE r \in Runs \ (Raising \cup {ADefault}) : TRUE

\* Every question is the default one of its company.
OwnDefault == [r \in Runs |-> r]

\* All questions are about one company and vertical; one has the defaults.
SharedDefault == [r \in Runs |-> ADefault]

\* What is queued at the beginning: nothing; jobs of one question only; or
\* one job of a question and two of another, to which a caller may add a
\* fourth, so that workers that claim two jobs each execute them crosswise.
NothingQueued == [j \in JobIds |-> Nothing]
BothQueued == [j \in JobIds |-> ADefault]
Crosswise == [j \in JobIds |-> CASE j = 1 -> ADefault
                                [] j \in {2, 3} -> BDefault
                                [] OTHER -> Nothing]

\* Callers are alike, and so are workers; sound for invariants.
Alike == Permutations(Callers) \cup Permutations(Workers)
=============================================================================
