------------------------ MODULE MarketIntelligence ------------------------
(* Snapshot import, base and contextual score runs, and the research gaps    *)
(* they record: transactions of several sessions against one database.  The  *)
(* writes that can meet another session are the inserts under a unique       *)
(* index; a session takes them one at a time and waits for an uncommitted    *)
(* one.  What a transaction reads of a snapshot never changes once the       *)
(* snapshot is committed, so a score is computed in the step that reads it.  *)
EXTENDS MarketScoring

CONSTANTS
    Sessions,   \* processes that each run one transaction
    Content,    \* what each document says
    Workloads,  \* the situations of which a behaviour meets one
    Requests(_),\* what the sessions may be asked in a situation
    Busy(_)     \* how many of them are

\* A document: its key and the digest of its canonical form; the ranked markets,
\* the home benchmark it has and the one its metadata declares, the markets of
\* its universe; per market the published rank, total and parts, how sure its
\* entry is of its data, the raw metrics, whether any is observed that no model
\* uses, and the contextual evidence; the registry rows it needs, in order.
VARIABLES
    snapshots,  \* the documents imported
    registry,   \* committed rows of sources, categories, markets and models
    home,       \* markets flagged as the home market
    runs,       \* committed score runs
    gaps,       \* research gaps: question -> status
    clock,      \* orders the runs that others are based on
    txn,        \* the transaction of each session
    workload    \* the situation, the same all along

\* A measured value, or none.
Measurement(x, values) == x = None \/ x \in values

\* Documents speak of registered markets and requests name documents, markets
\* and channels that are known; what is measured of a market, and what its
\* vertical says, is a number in range or missing, and all parts are named.
ASSUME MarketAssumption ==
    /\ None \notin DOMAIN Content
    /\ \A d \in DOMAIN Content :
          /\ Content[d].ranked \cup Content[d].universe \cup {Content[d].home} \subseteq Markets
          /\ Content[d].rows \in Seq(ToSet(Content[d].rows))
          /\ \A m \in Content[d].ranked \cup {Content[d].home} :
                /\ DOMAIN Content[d].parts[m] = Components
                /\ \A metric \in RawMetrics : Measurement(Content[d].raw[m][metric], 0..TopValue)
          /\ \A m \in Markets :
                /\ Measurement(Content[d].fit[m], Int) /\ Measurement(Content[d].icp[m], Int)
                /\ Measurement(Content[d].ticket[m], Int \X Int)
    /\ \A w \in Workloads : \A q \in Requests(w) :
          IF q.kind = "status" THEN q.status \in {"OPEN", "RESOLVED"}
          ELSE /\ q.document \in DOMAIN Content
               /\ q.kind = "contextual" =>
                     /\ q.context.markets \subseteq Markets
                     /\ q.context.channel \in {None} \cup DOMAIN ChannelAccess
                     /\ Measurement(q.context.ticket, Int)

vars == <<snapshots, registry, home, runs, gaps, clock, txn, workload>>

Idle == [stage |-> "idle", snapshot |-> None, todo |-> <<>>, held |-> {}, waiting |-> FALSE,
         made |-> {}, outcome |-> None]

Init ==
    /\ snapshots = {}
    /\ registry = {}
    /\ home = {}
    /\ runs = {}
    /\ gaps = <<>>
    /\ clock = 0
    /\ txn = [s \in Sessions |-> Idle]
    /\ workload \in Workloads

-----------------------------------------------------------------------------
(* Documents.                                                                *)

Scored(d) == Content[d].ranked \cup {Content[d].home}

PointsWithin(parts) == \A i \in Components : parts[i] \in 0..BaseModel[i].weight

Valid(d) ==
    /\ \A m \in Content[d].ranked : Content[d].rank[m] # None
    /\ \A m, n \in Content[d].ranked : Content[d].rank[m] = Content[d].rank[n] => m = n
    /\ \A m \in Scored(d) : PointsWithin(Content[d].parts[m])
    /\ \A m \in Scored(d) \cup Content[d].universe : Content[d].total[m] \in 0..100
    /\ Content[d].size = Cardinality(Content[d].ranked) + 1 + Cardinality(Content[d].universe)
    /\ Content[d].declared \in {None, Content[d].home}

\* Accepted by the validation, and refused by a unique index or a check of the
\* tables: a market in two sections, or a value whose fact type is N/D.
BreaksConstraint(d) ==
    \/ Content[d].home \in Content[d].ranked
    \/ Content[d].universe \cap Scored(d) # {}
    \/ Content[d].growth = "undeclared"

Published(points) == <<points * Unit, TotalWeight(BaseModel)>>

-----------------------------------------------------------------------------
(* Score runs.                                                               *)

Run(kind, d, flagged, universe, result, rank, missing) ==
    [kind |-> kind, document |-> d, at |-> clock, home |-> flagged,
     score |-> [m \in universe |-> result[m].score],
     earned |-> [m \in universe |-> result[m].earned],
     covered |-> [m \in universe |-> result[m].covered],
     rank |-> rank, missing |-> missing]

NothingMissing(universe) == [m \in universe |-> <<>>]

ReferenceRun(d) ==
    LET universe == Scored(d) \cup Content[d].universe
        result == [m \in universe |->
                    IF m \in Scored(d)
                    THEN Result(Content[d].parts[m], Components, Published(Content[d].total[m]))
                    ELSE Result(<<>>, {}, Published(Content[d].total[m]))]
    IN  Run("imported_reference", d, home \cup {Content[d].home}, universe, result,
            [m \in universe |-> IF m \in Content[d].ranked THEN Content[d].rank[m] ELSE None],
            NothingMissing(universe))

ReproductionRun(d, flagged) ==
    LET result == [m \in Scored(d) |-> ReproducedResult(Content[d].parts[m])]
    IN  Run("reference_reproduction", d, flagged, Scored(d), result,
            Ranked(EligibleForBase(result, flagged), [m \in Scored(d) |-> result[m].score]),
            NothingMissing(Scored(d)))

\* The universe is every market with at least one observed metric.
Universe(d) ==
    {m \in Scored(d) : Content[d].unused[m] \/ \E metric \in RawMetrics : Content[d].raw[m][metric] # None}

Raw(d, m) == [metric \in Metrics |->
                IF m \in Scored(d) /\ metric \in RawMetrics THEN Content[d].raw[m][metric] ELSE None]

NativeRun(d, flagged) ==
    LET raw == [m \in Universe(d) |-> Raw(d, m)]
        result == [m \in Universe(d) |-> NativeResult(raw, m)]
    IN  Run("native_recalculation", d, flagged, Universe(d), result,
            Ranked(EligibleForBase(result, flagged), [m \in Universe(d) |-> result[m].score]),
            [m \in Universe(d) |-> NativeGaps(raw, m)])

NativeFails(d) ==
    LET raw == [m \in Universe(d) |-> Raw(d, m)]
    IN  Universe(d) = {} \/ NoLogarithm(raw) \/ TooFew(raw)

\* A stored score as a part of the whole, whichever engine it comes from.
Stored(r, m) ==
    LET whole == IF r.kind = "contextual" THEN Precision ELSE Unit
    IN  IF m \notin DOMAIN r.score THEN None
        ELSE IF r.score[m] = None THEN None
        ELSE (r.score[m][1] * Precision) \div (r.score[m][2] * whole)

Known(d, m, base) ==
    [base |-> Stored(base, m),
     fit |-> Content[d].fit[m], icp |-> Content[d].icp[m], ticket |-> Content[d].ticket[m],
     motion |-> Content[d].motion[m], raw |-> Raw(d, m)]

ContextualRun(d, base, context) ==
    LET known == [m \in context.markets |-> Known(d, m, base)]
        result == [m \in context.markets |-> ContextualResult(known[m], context)]
    IN  Run("contextual", d, home, context.markets, result,
            Ranked(EligibleForContext(result, context.allowLowCoverage),
                   [m \in context.markets |-> result[m].score]),
            [m \in context.markets |-> ContextualGaps(known[m], context)])

-----------------------------------------------------------------------------
(* Unique rows.                                                              *)

VerticalMetrics == {"fit_score", "vertical_sam"}

\* The fingerprint: the dimensions the metric depends on and no others.
Question(metric, m, d, vertical) ==
    <<"gap", metric, m, Content[d].digest, IF metric \in VerticalMetrics THEN vertical ELSE None>>

\* Mutant of GapRows: only the first market's gaps are recorded.
MutFirstMarketOnly(run, vertical) ==
    LET m == Min(DOMAIN run.score)
    IN  [i \in DOMAIN run.missing[m] |-> Question(run.missing[m][i], m, run.document, vertical)]

\* Market by market, in their order.
GapRows(run, vertical) ==
    LET asked(m) == [i \in DOMAIN run.missing[m] |->
                        Question(run.missing[m][i], m, run.document, vertical)]
    IN  FlattenSeq([m \in Markets |-> IF m \in DOMAIN run.missing THEN asked(m) ELSE <<>>])

DigestRow(d) == <<"digest", Content[d].digest>>
KeyRow(d) == <<"key", Content[d].key>>

\* Mutant of Committed: the snapshot has no unique key.
MutNoSnapshotKey(row) == row \in registry \/ row \in DOMAIN gaps

Committed(row) ==
    \/ row \in registry
    \/ row \in DOMAIN gaps
    \/ \E d \in snapshots : row \in {DigestRow(d), KeyRow(d)}

HeldByAnother(s, row) == \E t \in Sessions \ {s} : row \in txn[t].held

-----------------------------------------------------------------------------
(* The first step of a transaction reads what it needs and decides what it   *)
(* will write.                                                               *)

Start(s, snapshot, todo, made) ==
    /\ txn' = [txn EXCEPT ![s] = [Idle EXCEPT !.stage = "writing", !.snapshot = snapshot,
                                              !.todo = todo, !.made = made]]
    /\ clock' = IF \E r \in made : r.kind \in {"imported_reference", "reference_reproduction"}
                THEN clock + 1 ELSE clock
    /\ UNCHANGED <<snapshots, registry, home, runs, gaps>>

Answered(s, outcome) ==
    /\ txn' = [txn EXCEPT ![s] = [Idle EXCEPT !.stage = "done", !.outcome = outcome]]
    /\ UNCHANGED <<snapshots, registry, home, runs, gaps, clock>>

AlreadyImported(d) == \E e \in snapshots : Content[e].digest = Content[d].digest
KeyIsTaken(d) == \E e \in snapshots : Content[e].key = Content[d].key

ImportPlan(d, recalculate) ==
    LET flagged == home \cup {Content[d].home}
        native == NativeRun(d, flagged)
    IN  IF recalculate
        THEN [rows |-> Content[d].rows \o GapRows(native, None),
              made |-> {ReferenceRun(d), ReproductionRun(d, flagged), native}]
        ELSE [rows |-> Content[d].rows, made |-> {ReferenceRun(d)}]

BeginImport(s, d, recalculate) ==
    \/ ~Valid(d) /\ Answered(s, "invalid")
    \/ Valid(d) /\ AlreadyImported(d) /\ Answered(s, "existing")
    \/ Valid(d) /\ ~AlreadyImported(d) /\ KeyIsTaken(d) /\ Answered(s, "conflict")
    \/ /\ Valid(d) /\ ~AlreadyImported(d) /\ ~KeyIsTaken(d)
       /\ IF recalculate /\ NativeFails(d)
          THEN Answered(s, "refused")
          ELSE LET plan == ImportPlan(d, recalculate)
               IN  Start(s, d, <<DigestRow(d), KeyRow(d)>> \o plan.rows, plan.made)

BeginReproduction(s, d) ==
    /\ d \in snapshots
    /\ Start(s, None, <<>>, {ReproductionRun(d, home)})

BeginNative(s, d) ==
    /\ d \in snapshots
    /\ IF NativeFails(d)
       THEN Answered(s, "refused")
       ELSE Start(s, None, GapRows(NativeRun(d, home), None), {NativeRun(d, home)})

\* The run the caller names, or the latest reproduction of the snapshot.
BaseRuns(d, named) ==
    IF named THEN runs
    ELSE {r \in runs : /\ r.kind = "reference_reproduction" /\ r.document = d
                       /\ \A q \in runs : q.kind = r.kind /\ q.document = d => q.at <= r.at}

BeginContextual(s, d, context) ==
    /\ d \in snapshots
    /\ \/ BaseRuns(d, context.named) = {} /\ Answered(s, "refused")
       \/ \E base \in BaseRuns(d, context.named) :
            LET run == ContextualRun(d, base, context)
            IN  Start(s, None, GapRows(run, context.vertical), {run})

SetStatus(s, status) ==
    /\ \E g \in DOMAIN gaps : gaps' = [gaps EXCEPT ![g] = status]
    /\ txn' = [txn EXCEPT ![s] = [Idle EXCEPT !.stage = "done", !.outcome = "committed"]]
    /\ UNCHANGED <<snapshots, registry, home, runs, clock>>

\* Sessions are alike: which of the idle ones takes a request makes no difference.
NextIdle == CHOOSE s \in Sessions : txn[s].stage = "idle"

Begin(s) ==
    /\ txn[s].stage = "idle" /\ s = NextIdle
    /\ Cardinality({t \in Sessions : txn[t].stage # "idle"}) < Busy(workload)
    /\ \E request \in Requests(workload) :
        \/ request.kind = "import" /\ BeginImport(s, request.document, request.recalculate)
        \/ request.kind = "reproduction" /\ BeginReproduction(s, request.document)
        \/ request.kind = "native" /\ BeginNative(s, request.document)
        \/ request.kind = "contextual" /\ BeginContextual(s, request.document, request.context)
        \/ request.kind = "status" /\ SetStatus(s, request.status)

-----------------------------------------------------------------------------
(* Inserts.  A registry row is looked up first and a gap is inserted ON      *)
(* CONFLICT DO NOTHING; the snapshot itself is a plain insert.               *)

Wanted(s) == Head(txn[s].todo)

Rolled(s, outcome) == [txn EXCEPT ![s] = [Idle EXCEPT !.stage = "done", !.outcome = outcome]]

\* A row already there is no error for a gap, nor for a registry row unless it
\* appeared after the lookup, while this insert was waiting.
Tolerated(s, row) ==
    \/ row[1] = "gap"
    \/ row[1] = "row" /\ ~txn[s].waiting

Claim(s) ==
    txn' = [txn EXCEPT ![s].todo = Tail(@), ![s].waiting = FALSE, ![s].held = @ \cup {Wanted(s)}]

Skip(s) == txn' = [txn EXCEPT ![s].todo = Tail(@), ![s].waiting = FALSE]

Insert(s) ==
    /\ txn[s].stage = "writing"
    /\ txn[s].todo # <<>>
    /\ \/ /\ Committed(Wanted(s)) /\ Tolerated(s, Wanted(s))
          /\ Skip(s)
       \/ /\ Committed(Wanted(s)) /\ ~Tolerated(s, Wanted(s))
          /\ txn' = Rolled(s, "integrity")
       \/ /\ ~Committed(Wanted(s)) /\ Wanted(s) \in txn[s].held
          /\ Skip(s)
       \/ /\ ~Committed(Wanted(s)) /\ Wanted(s) \notin txn[s].held /\ ~HeldByAnother(s, Wanted(s))
          /\ Claim(s)
       \/ /\ ~Committed(Wanted(s)) /\ HeldByAnother(s, Wanted(s)) /\ ~txn[s].waiting
          /\ txn' = [txn EXCEPT ![s].waiting = TRUE]
    /\ UNCHANGED <<snapshots, registry, home, runs, gaps, clock>>

HeldRows(s, kind) == {row \in txn[s].held : row[1] = kind}

\* Mutant of GapsAfter: ON CONFLICT DO UPDATE.
MutUpsert(s) ==
    [g \in DOMAIN gaps \cup HeldRows(s, "gap") |->
        IF \E r \in txn[s].made : g \in ToSet(GapRows(r, None)) THEN "OPEN"
        ELSE IF g \in DOMAIN gaps THEN gaps[g] ELSE "OPEN"]

GapsAfter(s) ==
    [g \in DOMAIN gaps \cup HeldRows(s, "gap") |-> IF g \in DOMAIN gaps THEN gaps[g] ELSE "OPEN"]

Commit(s) ==
    /\ txn[s].stage = "writing" /\ txn[s].todo = <<>>
    /\ txn[s].snapshot # None => ~BreaksConstraint(txn[s].snapshot)
    /\ IF txn[s].snapshot = None THEN UNCHANGED <<snapshots, home>>
       ELSE /\ snapshots' = snapshots \cup {txn[s].snapshot}
            /\ home' = home \cup {Content[txn[s].snapshot].home}
    /\ registry' = registry \cup HeldRows(s, "row")
    /\ runs' = runs \cup txn[s].made
    /\ gaps' = GapsAfter(s)
    /\ txn' = Rolled(s, "committed")
    /\ UNCHANGED clock

RejectedByTable(s) ==
    /\ txn[s].stage = "writing" /\ txn[s].todo = <<>>
    /\ txn[s].snapshot # None /\ BreaksConstraint(txn[s].snapshot)
    /\ txn' = Rolled(s, "integrity")
    /\ UNCHANGED <<snapshots, registry, home, runs, gaps, clock>>

WaitsFor(s, t) == txn[s].waiting /\ s # t /\ Wanted(s) \in txn[t].held

InWaitCycle(s) ==
    \E S \in SUBSET Sessions : s \in S /\ \A t \in S : \E u \in S : WaitsFor(t, u)

DeadlockVictim(s) ==
    /\ InWaitCycle(s)
    /\ txn' = Rolled(s, "deadlock")
    /\ UNCHANGED <<snapshots, registry, home, runs, gaps, clock>>

Crash(s) ==
    /\ txn[s].stage = "writing"
    /\ txn' = Rolled(s, "crashed")
    /\ UNCHANGED <<snapshots, registry, home, runs, gaps, clock>>

Step(s) == Insert(s) \/ Commit(s) \/ RejectedByTable(s) \/ DeadlockVictim(s)

Next ==
    /\ \E s \in Sessions : Begin(s) \/ Step(s) \/ Crash(s)
    /\ UNCHANGED workload

Spec == Init /\ [][Next]_vars
-----------------------------------------------------------------------------
(* Properties.                                                               *)

RunTypes == {"imported_reference", "reference_reproduction", "native_recalculation", "contextual"}

\* Every variable stays in its domain.  A session holds only rows that no other
\* session holds and that are not committed, and no two snapshots share a key or
\* a digest, however their imports interleave (import_payload).
TypeOK ==
    /\ \A d, e \in snapshots : d # e =>
          Content[d].key # Content[e].key /\ Content[d].digest # Content[e].digest
    /\ home \subseteq Markets
    /\ clock \in Nat
    /\ \A r \in runs : r.kind \in RunTypes /\ DOMAIN r.score \subseteq Markets
    /\ \A g \in DOMAIN gaps : gaps[g] \in {"OPEN", "RESOLVED"}
    /\ \A s \in Sessions : /\ txn[s].stage \in {"idle", "writing", "done"}
                           /\ \A row \in txn[s].held : ~Committed(row) /\ ~HeldByAnother(s, row)

Comparable(r, m) ==
    /\ r.score[m] # None
    /\ r.kind # "contextual" => m \notin r.home
    /\ r.kind # "contextual" => HalfCovered(BaseModel, r.covered[m])

Standing(r, m) ==
    1 + Cardinality({k \in DOMAIN r.rank : r.rank[k] # None /\ Better(r.score[k], r.score[m])})

\* A rank says how many ranked markets score strictly better, whatever was tied,
\* unranked or listed where: ties share it and excluded markets consume none
\* (ranking.py, _assign_ranks, rank_results).
RanksAreStanding ==
    \A r \in runs : r.kind # "imported_reference" =>
        \A m \in DOMAIN r.rank :
            /\ r.rank[m] # None => Comparable(r, m) /\ r.rank[m] = Standing(r, m)
            /\ r.kind # "contextual" /\ Comparable(r, m) => r.rank[m] # None

\* Totals are the sums of their parts and the ranks their order, without ties.
Consistent(d) ==
    /\ \A m \in Scored(d) : Published(Content[d].total[m]) = ReproducedResult(Content[d].parts[m]).score
    /\ \A m, n \in Content[d].ranked : Content[d].rank[m] < Content[d].rank[n] <=> Content[d].total[m] > Content[d].total[n]
    /\ {Content[d].rank[m] : m \in Content[d].ranked} = 1..Cardinality(Content[d].ranked)

\* Reproducing a consistent snapshot gives the published scores and ranks, even
\* after other snapshots came in, while the home market is the snapshot's own
\* (run_reference_reproduction, compare_runs).
ReproducesPublished ==
    \A r \in runs :
        LET d == r.document
        IN  r.kind = "reference_reproduction" /\ Consistent(d) /\ r.home \subseteq {Content[d].home} =>
                \A m \in Content[d].ranked : r.score[m] = Published(Content[d].total[m]) /\ r.rank[m] = Content[d].rank[m]

\* Of two markets of a native run that earn the same where both are covered, the
\* one not measured elsewhere outscores the one measured at zero there: unknown
\* is excluded, not scored as zero (run_native_recalculation, A-8).
UnknownIsNotZero ==
    \A r \in runs : r.kind = "native_recalculation" =>
        \A a, b \in DOMAIN r.score :
            /\ r.covered[a] # r.covered[b] /\ r.covered[a] \subseteq r.covered[b]
            /\ \E i \in r.covered[a] : r.earned[a][i] > 0
            /\ \A i \in r.covered[a] : r.earned[a][i] = r.earned[b][i]
            /\ \A i \in r.covered[b] \ r.covered[a] : r.earned[b][i] = 0
            => Better(r.score[a], r.score[b])

Confidence(r, m) ==
    AggregateConfidence(
        [i \in Components |-> ComponentConfidence(Raw(r.document, m), Content[r.document].label[m], i)],
        r.covered[m])

\* Of two markets, the one that is measured on more of the model and whose entry
\* is no less sure of its data has at least the confidence of the other: good
\* evidence for a part of the model does not pass for all of it, and a market
\* whose data is doubted gains by nothing else (aggregate_confidence,
\* evidence_confidence).
EvidenceRaisesConfidence ==
    \A r \in runs : r.kind = "native_recalculation" =>
        \A a, b \in DOMAIN r.score :
            LET label == Content[r.document].label
            IN  r.covered[a] \subseteq r.covered[b] /\ LabelWorth(label[a]) <= LabelWorth(label[b])
                    => Confidence(r, a) <= Confidence(r, b)

\* Whatever a committed run could not score for lack of evidence is a recorded
\* gap, whoever recorded it and whatever became of it since (_persist_engine_gaps,
\* run_contextual_ranking, record_gap).
GapsExplainCoverage ==
    \A r \in runs : \A m \in DOMAIN r.missing : \A i \in DOMAIN r.missing[m] :
        \E g \in DOMAIN gaps : g[2] = r.missing[m][i] /\ g[3] = m /\ g[4] = Content[r.document].digest

\* A gap someone decided is never reopened by a run over the same context: no
\* session's step changes the status of a gap that exists (record_gap).
DecidedGapsStay ==
    [][\A s \in Sessions : Step(s) => \A g \in DOMAIN gaps : gaps'[g] = gaps[g]]_vars

\* Two processes racing on the same gap both succeed (detector.py:132-135).
RacersBothSucceed ==
    \A s \in Sessions : txn[s].outcome # "deadlock"

\* A home-market benchmark is never ranked (SCORING.md "Tie semantics").
HomeIsUnranked ==
    \A r \in runs : \A m \in DOMAIN r.rank :
        r.kind # "imported_reference" /\ m \in r.home => r.rank[m] = None

\* Importing the same content again returns the snapshot there is (importer.py:6).
ReimportReturnsExisting ==
    \A s \in Sessions : txn[s].outcome # "integrity"

=============================================================================
