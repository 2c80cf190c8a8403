--------------------------- MODULE MarketScoring ---------------------------
(* The two scoring engines as operators: percentiles, the native and the     *)
(* reproduced base score, the contextual score, confidence, and competition  *)
(* ranking.  A market is its place in the order of ISO codes.  Percentiles   *)
(* are counted in whole units of 1/Unit, contextual values in 1/Precision,   *)
(* and a score is a pair <<points earned, weight covered>>: two scores are   *)
(* compared without dividing, and published points are earned over the whole *)
(* weight of the model.                                                      *)
EXTENDS Integers, FiniteSets, Sequences, SequencesExt

CONSTANTS
    Markets,    \* the registry of markets
    TopValue,   \* the largest value of a raw metric; 0 is the smallest, and of a
                \* metric taken in logarithms one that has none
    Unit,       \* the parts of a whole in which percentiles are counted
    None        \* no value

ASSUME MarketsAreOrdered == IsFiniteSet(Markets) /\ Markets = 1..Cardinality(Markets)
ASSUME TopValueIsPositive == TopValue \in Nat \ {0}

\* No midrank and no share of the largest value is rounded.
ASSUME UnitIsExact ==
    /\ Unit \in Nat \ {0}
    /\ Unit % TopValue = 0
    /\ \A n \in 1..(Cardinality(Markets) - 1) : Unit % (2 * n) = 0
ASSUME NoneIsNoNumber == None \notin Int /\ None \notin Int \X Int

Precision == 1000

\* The members of a sequence that pass a test (SelectSeq, which no prover reads).
Passing(s, test(_)) == FlattenSeq([i \in DOMAIN s |-> IF test(s[i]) THEN <<s[i]>> ELSE <<>>])

-----------------------------------------------------------------------------
(* The seeded models.                                                        *)

Term(weight, metric, invert) == [weight |-> weight, metric |-> metric, invert |-> invert]

BaseModel == <<
    [kind |-> "sum", computable |-> TRUE, weight |-> 20,
     terms |-> <<Term(12, "gdp", FALSE), Term(8, "gdp_per_capita", FALSE)>>],
    [kind |-> "sum", computable |-> TRUE, weight |-> 20,
     terms |-> <<Term(20, "innovation", FALSE)>>],
    [kind |-> "product", computable |-> TRUE, weight |-> 15,
     terms |-> <<Term(1, "gdp_per_capita", FALSE), Term(1, "innovation", TRUE)>>],
    [kind |-> "sum", computable |-> FALSE, weight |-> 20,
     terms |-> <<Term(9, "population", FALSE), Term(7, "manufacturing", FALSE),
                 Term(4, "gdp", FALSE)>>],
    [kind |-> "sum", computable |-> TRUE, weight |-> 10,
     terms |-> <<Term(10, "gdp_per_capita", FALSE)>>],
    [kind |-> "linear", computable |-> TRUE, weight |-> 10,
     terms |-> <<Term(4, "language", FALSE), Term(3, "timezone", FALSE), Term(3, "b2b", FALSE)>>],
    [kind |-> "sum", computable |-> TRUE, weight |-> 5,
     terms |-> <<Term(5, "growth", FALSE)>>] >>

Components == DOMAIN BaseModel

\* What a snapshot may supply: everything the models use but the population.
RawMetrics == {"gdp", "gdp_per_capita", "innovation", "manufacturing", "growth",
               "language", "timezone", "b2b"}
Metrics == RawMetrics \cup {"population"}
LogMetrics == {"gdp", "gdp_per_capita", "manufacturing"}

ContextualModel == <<
    [key |-> "prior", weight |-> 35], [key |-> "vertical", weight |-> 25],
    [key |-> "icp", weight |-> 15], [key |-> "ticket", weight |-> 10],
    [key |-> "channel", weight |-> 10], [key |-> "reuse", weight |-> 5] >>

ChannelAccess == [
    email        |-> <<Term(70, "b2b", FALSE), Term(30, "language", FALSE)>>,
    phone        |-> <<Term(60, "timezone", FALSE), Term(40, "language", FALSE)>>,
    multichannel |-> <<Term(40, "b2b", FALSE), Term(35, "language", FALSE),
                       Term(25, "timezone", FALSE)>>]

Weigh(weights, chosen) == SumFunction([i \in DOMAIN weights |-> IF i \in chosen THEN weights[i].weight ELSE 0])
TotalWeight(model) == Weigh(model, DOMAIN model)
HalfCovered(model, covered) == 2 * Weigh(model, covered) >= TotalWeight(model)

-----------------------------------------------------------------------------
(* Percentiles.  raw is a function from the markets of the universe to their *)
(* metrics.                                                                  *)

\* value is a function on S.
Midrank(S, m, value) ==
    LET below == Cardinality({k \in S : value[k] < value[m]})
        equal == Cardinality({k \in S : value[k] = value[m]})
    IN  (2 * below + equal - 1) * (Unit \div (2 * (Cardinality(S) - 1)))

Observed(raw, metric) == {m \in DOMAIN raw : raw[m][metric] # None}

Percentile(raw, metric, m) ==
    Midrank(Observed(raw, metric), m, [k \in Observed(raw, metric) |-> raw[k][metric]])

Missing(raw, i, m) == Passing(BaseModel[i].terms, LAMBDA t : raw[m][t.metric] = None)

Complete(raw, i) == {m \in DOMAIN raw : Missing(raw, i, m) = <<>>}

\* The product inside a percentile of a percentile.
InnerProduct(raw, i, m) ==
    FoldLeft(LAMBDA p, t : p * (IF t.invert THEN Unit - Percentile(raw, t.metric, m)
                                            ELSE Percentile(raw, t.metric, m)),
             1, BaseModel[i].terms)

Points(raw, i, m) ==
    LET terms == BaseModel[i].terms
    IN  CASE BaseModel[i].kind = "sum" ->
                SumFunction([n \in DOMAIN terms |-> terms[n].weight * Percentile(raw, terms[n].metric, m)])
          [] BaseModel[i].kind = "linear" ->
                SumFunction([n \in DOMAIN terms |-> terms[n].weight * raw[m][terms[n].metric] * (Unit \div TopValue)])
          [] BaseModel[i].kind = "product" ->
                BaseModel[i].weight * Midrank(Complete(raw, i), m,
                    [k \in Complete(raw, i) |-> InnerProduct(raw, i, k)])

\* A percentile over fewer than two values is refused, which fails the run:
\* the series of a sum, the two series of a product and the products.
TooFew(raw) ==
    \E i \in Components :
        /\ BaseModel[i].computable
        /\ BaseModel[i].kind # "linear"
        /\ Complete(raw, i) # {}
        /\ \/ Cardinality(Complete(raw, i)) < 2 /\ BaseModel[i].kind = "product"
           \/ \E n \in DOMAIN BaseModel[i].terms :
                Cardinality(Observed(raw, BaseModel[i].terms[n].metric)) < 2

\* A value that has no logarithm fails the run too, be its component computed
\* or not: every series is taken before.
NoLogarithm(raw) == \E m \in DOMAIN raw : \E metric \in LogMetrics : raw[m][metric] = 0

-----------------------------------------------------------------------------
(* Base scores.  A result says what was earned over which components.        *)

Result(earned, covered, score) == [earned |-> earned, covered |-> covered, score |-> score]

Sum(values, S) == SumFunction([i \in DOMAIN values |-> IF i \in S THEN values[i] ELSE 0])

\* Mutant of NativeResult: an unknown component stays in the denominator.
MutUnknownIsZero(raw, m) ==
    LET covered == {i \in Components : BaseModel[i].computable /\ m \in Complete(raw, i)}
        points == [i \in Components |-> IF i \in covered THEN Points(raw, i, m) ELSE None]
    IN  Result(points, covered, <<Sum(points, covered), TotalWeight(BaseModel)>>)

NativeResult(raw, m) ==
    LET covered == {i \in Components : BaseModel[i].computable /\ m \in Complete(raw, i)}
        points == [i \in Components |-> IF i \in covered THEN Points(raw, i, m) ELSE None]
    IN  Result(points, covered,
               IF covered = {} THEN None
               ELSE <<Sum(points, covered), Weigh(BaseModel, covered)>>)

\* The published total is the sum of the published parts, never renormalised.
ReproducedResult(parts) ==
    LET covered == {i \in Components : parts[i] # None}
    IN  Result(parts, covered, <<Sum(parts, covered) * Unit, TotalWeight(BaseModel)>>)

\* What a native run reports missing, in the order of the components.
NativeGaps(raw, m) ==
    FlattenSeq([i \in Components |->
        [n \in DOMAIN Missing(raw, i, m) |-> Missing(raw, i, m)[n].metric]])

-----------------------------------------------------------------------------
(* Contextual scores.  known is the evidence stored for a market, request    *)
(* the context asked about; a value is counted in 1/Precision.  A handler    *)
(* answers a value, or None, and what it missed.                             *)

Answer(value, missing) == [value |-> value, missing |-> missing]
Least(a, b) == IF a < b THEN a ELSE b
Greatest(a, b) == IF a > b THEN a ELSE b

Prior(known, request) ==
    IF known.base = None THEN Answer(None, <<"base_market_score">>)
    ELSE Answer(known.base, <<>>)

VerticalFit(known, request) ==
    CASE request.vertical = None -> Answer(None, <<"context.vertical">>)
      [] request.vertical # None /\ known.fit = None ->
            Answer(None, <<"fit_score", "vertical_sam">>)
      [] OTHER -> Answer(known.fit, <<>>)

IcpAvailability(known, request) ==
    IF known.icp = None THEN Answer(None, <<"sam_min", "sam_max">>)
    ELSE Answer(known.icp, <<>>)

Overlap(ticket, low, high) ==
    LET lo == Least(low, high)
        hi == Greatest(low, high)
        distance == Greatest(lo - ticket, ticket - hi)
    IN  IF distance <= 0 THEN Precision
        ELSE Greatest(0, Precision - (distance * Precision) \div Greatest(hi - lo, 1))

TicketFit(known, request) ==
    CASE request.ticket = None -> Answer(None, <<"context.ticket">>)
      [] request.ticket # None /\ known.ticket = None ->
            Answer(None, <<"ticket_min", "ticket_max">>)
      [] OTHER -> Answer(Overlap(request.ticket, known.ticket[1], known.ticket[2]), <<>>)

ChannelAccessibility(known, request) ==
    IF request.channel = None THEN Answer(None, <<"context.channel">>)
    ELSE LET inputs == ChannelAccess[request.channel]
             used == Passing(inputs, LAMBDA t : known.raw[t.metric] # None)
             unseen == Passing(inputs, LAMBDA t : known.raw[t.metric] = None)
             total == SumFunction([n \in DOMAIN used |-> used[n].weight * known.raw[used[n].metric]])
         IN  Answer(IF used = <<>> THEN None
                    ELSE (total * Precision) \div (TotalWeight(used) * TopValue),
                    [n \in DOMAIN unseen |-> unseen[n].metric])

StrategicReuse(known, request) ==
    LET language == (known.raw["language"] * Precision) \div TopValue
    IN  CASE known.raw["language"] = None -> Answer(None, <<"language">>)
          [] known.raw["language"] # None /\ None \in {known.motion, request.channel} ->
                Answer(language, <<>>)
          [] OTHER -> Answer((3 * language) \div 4
                             + (IF known.motion = request.channel THEN 250 ELSE 100), <<>>)

Handle(key, known, request) ==
    CASE key = "prior" -> Prior(known, request)
      [] key = "vertical" -> VerticalFit(known, request)
      [] key = "icp" -> IcpAvailability(known, request)
      [] key = "ticket" -> TicketFit(known, request)
      [] key = "channel" -> ChannelAccessibility(known, request)
      [] key = "reuse" -> StrategicReuse(known, request)

ContextualResult(known, request) ==
    LET answers == [i \in DOMAIN ContextualModel |-> Handle(ContextualModel[i].key, known, request)]
        covered == {i \in DOMAIN answers : answers[i].value # None}
        points == [i \in DOMAIN answers |->
                    IF i \in covered
                    THEN ContextualModel[i].weight * Least(Precision, Greatest(0, answers[i].value))
                    ELSE None]
    IN  Result(points, covered,
               IF covered = {} THEN None
               ELSE <<Sum(points, covered), Weigh(ContextualModel, covered)>>)

\* What the caller left out is no research task.
ContextualGaps(known, request) ==
    Passing(FlattenSeq([i \in DOMAIN ContextualModel |->
                          Handle(ContextualModel[i].key, known, request).missing]),
            LAMBDA metric : metric \notin {"context.vertical", "context.ticket", "context.channel"})

-----------------------------------------------------------------------------
(* Confidence, in hundredths per factor and millionths in all.               *)

FactFactor == [FACT |-> 100, PROXY |-> 75, ESTIMATE |-> 65, INFERENCE |-> 50, HYPOTHESIS |-> 30]
RecencyFactor == [DATE |-> 100, YEAR |-> 90, SNAPSHOT |-> 85, UNDATED |-> 70]
LabelFactor == [HIGH |-> 100, HIGH_MEDIUM |-> 92, MEDIUM_HIGH |-> 92, MEDIUM |-> 85,
                LOW_MEDIUM |-> 75, MEDIUM_LOW |-> 75, LOW_TO_MEDIUM |-> 75, LOW |-> 60]

LabelWorth(label) == IF label \in DOMAIN LabelFactor THEN LabelFactor[label] ELSE 100

EvidenceConfidence(fact, recency, label) ==
    (IF fact = None THEN 0 ELSE FactFactor[fact])
    * (IF recency = None THEN 70 ELSE RecencyFactor[recency])
    * LabelWorth(label)

FactOf == [m \in RawMetrics |->
    CASE m \in {"gdp", "gdp_per_capita", "growth"} -> "FACT"
      [] m \in {"innovation", "manufacturing"} -> "PROXY"
      [] OTHER -> "INFERENCE"]
RecencyOf == [m \in RawMetrics |->
    CASE m = "manufacturing" -> "UNDATED"
      [] m \in {"language", "timezone", "b2b"} -> "SNAPSHOT"
      [] OTHER -> "YEAR"]

\* The mean over the metrics of a component; an unobserved metric has no fact type.
ComponentConfidence(raw, label, i) ==
    LET terms == BaseModel[i].terms
        seen(t) == t.metric \in RawMetrics /\ raw[t.metric] # None
        worth(t) == IF seen(t) THEN EvidenceConfidence(FactOf[t.metric], RecencyOf[t.metric], label) ELSE 0
    IN  SumFunction([n \in DOMAIN terms |-> worth(terms[n])]) \div Len(terms)

\* Mutant of AggregateConfidence: the mean of what is covered, unscaled.
MutUnscaled(confidences, covered) ==
    SumFunction([i \in Components |-> IF i \in covered THEN confidences[i] * BaseModel[i].weight ELSE 0])
        \div Greatest(1, Weigh(BaseModel, covered))

\* Weighted mean over what is covered, times the coverage, in millionths.
AggregateConfidence(confidences, covered) ==
    SumFunction([i \in Components |-> IF i \in covered THEN confidences[i] * BaseModel[i].weight ELSE 0])
        \div TotalWeight(BaseModel)

-----------------------------------------------------------------------------
(* Ranking.                                                                  *)

Better(a, b) == a[1] * b[2] > b[1] * a[2]

\* Best score first, market key second.
Before(score, a, b) ==
    \/ Better(score[a], score[b])
    \/ ~Better(score[b], score[a]) /\ a < b

\* The sorted results: at each position the market that so many others precede.
Listing(S, score) ==
    [i \in 1..Cardinality(S) |->
        CHOOSE m \in S : Cardinality({k \in S : Before(score, k, m)}) = i - 1]

Position(S, score, m) == CHOOSE i \in 1..Cardinality(S) : Listing(S, score)[i] = m

\* Mutant of CompetitionRanks: every market takes its position.
MutSequential(S, score) == [m \in S |-> Position(S, score, m)]

\* One pass over the listing: a tie shares the rank above it, and the next
\* distinct score takes its position.
CompetitionRanks(S, score) ==
    LET ordered == Listing(S, score)
        tied(i) == i > 1 /\ ~Better(score[ordered[i - 1]], score[ordered[i]])
        rank[i \in 1..Cardinality(S)] == IF tied(i) THEN rank[i - 1] ELSE i
    IN  [m \in S |-> rank[Position(S, score, m)]]

Ranked(S, score) ==
    LET ranks == CompetitionRanks(S, score)
    IN  [m \in DOMAIN score |-> IF m \in S THEN ranks[m] ELSE None]

\* Mutant of EligibleForBase: the home market is ranked too.
MutHomeIsEligible(results, home) ==
    {m \in DOMAIN results : results[m].score # None /\ HalfCovered(BaseModel, results[m].covered)}

EligibleForBase(results, home) ==
    {m \in DOMAIN results : /\ results[m].score # None
                            /\ m \notin home
                            /\ HalfCovered(BaseModel, results[m].covered)}

EligibleForContext(results, allowLowCoverage) ==
    {m \in DOMAIN results : /\ results[m].score # None
                            /\ \/ HalfCovered(ContextualModel, results[m].covered)
                               \/ allowLowCoverage}
=============================================================================
