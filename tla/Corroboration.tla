-------------------------- MODULE Corroboration ---------------------------
(* How many independent voices stand behind a set of evidence, and the       *)
(* confidence a claim derives from it.  Evidence is seen as edges: the       *)
(* publisher that carries it and the document, by canonical content, it is   *)
(* read from.  Publishers and documents are numbered in their sort order.    *)
EXTENDS Integers, FiniteSets, Sequences, FiniteSetsExt

CONSTANT None    \* no value

-----------------------------------------------------------------------------
(* Kuhn's algorithm: each publisher in turn looks for a free document along  *)
(* an augmenting path.  holder maps a document to the publisher it is given  *)
(* to, seen holds the documents this search has visited.                     *)

Publishers(edges) == {edge[1] : edge \in edges}
DocumentsOf(edges) == {edge[2] : edge \in edges}

\* Mutant of Augmented: a document once given stays given.
MutGreedy(edges, publisher, holder) ==
    LET free == {d \in DocumentsOf(edges) : <<publisher, d>> \in edges /\ holder[d] = None}
    IN  [found |-> free # {},
         holder |-> IF free = {} THEN holder ELSE [holder EXCEPT ![Min(free)] = publisher]]

Augmented(edges, publisher, holder) ==
    LET documents == DocumentsOf(edges)
        searches == [publisher : Publishers(edges), seen : SUBSET documents,
                     holder : [documents -> Publishers(edges) \cup {None}]]
        Search[s \in searches] ==
            LET unseen == {d \in documents : <<s.publisher, d>> \in edges} \ s.seen
            IN  IF unseen = {} THEN [found |-> FALSE, seen |-> s.seen, holder |-> s.holder]
                ELSE LET d == Min(unseen)
                         seen == s.seen \cup {d}
                         inner == IF s.holder[d] = None
                                  THEN [found |-> TRUE, seen |-> seen, holder |-> s.holder]
                                  ELSE Search[[publisher |-> s.holder[d], seen |-> seen, holder |-> s.holder]]
                     IN  IF inner.found
                         THEN [inner EXCEPT !.holder[d] = s.publisher]
                         ELSE Search[[s EXCEPT !.seen = inner.seen]]
    IN  Search[[publisher |-> publisher, seen |-> {}, holder |-> holder]]

MaximumMatching(edges) ==
    LET Matched[P \in SUBSET Publishers(edges)] ==
            IF P = {} THEN [size |-> 0, holder |-> [d \in DocumentsOf(edges) |-> None]]
            ELSE LET last == Max(P)
                     before == Matched[P \ {last}]
                     after == Augmented(edges, last, before.holder)
                 IN  [size |-> before.size + (IF after.found THEN 1 ELSE 0), holder |-> after.holder]
    IN  Matched[Publishers(edges)].size

\* The contract: pairwise independent edges share neither publisher nor document.
Independent(edges) ==
    \A e, f \in edges : e # f => e[1] # f[1] /\ e[2] # f[2]

LargestIndependent(edges) == Max({Cardinality(S) : S \in {T \in SUBSET edges : Independent(T)}})

-----------------------------------------------------------------------------
(* Confidence, in ten-thousandths.                                           *)

BasePercent == [FACT |-> 95, ESTIMATE |-> 80, PROXY |-> 65, INFERENCE |-> 50, HYPOTHESIS |-> 35]

CorroborationPercent(voices) ==
    CASE voices <= 1 -> 100
      [] voices = 2 -> 110
      [] voices = 3 -> 116
      [] voices >= 4 -> 120

\* The best tier, whatever weaker source corroborates it.
Confidence(fact, tiers, voices, inferred) ==
    LET trust == IF tiers = {} THEN 0 ELSE Max(tiers)
        product == BasePercent[fact] * trust * CorroborationPercent(voices)
                   * (IF inferred THEN 85 ELSE 100)
    IN  Min({10000, (product + 5000) \div 10000})
=============================================================================
