# TLA+ models of boro-gtm-core

BoRo GTM Core is a Python program over PostgreSQL. It imports market data and
scores markets, discovers companies from providers and decides which provider
entity is which company, and researches those companies: it reads their sources,
asserts claims with evidence, keeps a ledger of what it could not find, and asks
people where it is in doubt. Most of its promises are about rows that several
transactions write at once: an append-only chain of decisions has one head, a gap
ends once, a job is executed once, an episode of review follows the one before.
The modules here model that code statement by statement, TLC checks them on small
instances, and TLAPS proves the main results about entity resolution, discovery
runs and their projection, the job queue, the trail from retrievals to claims, the gap
ledger, identity signals, and the snapshots and research gaps of market intelligence for
every instance.

Paths below are under `src/packages/boro_gtm/` unless they begin with `src/`.

## 1. The system

| Component | State | Operations | Correct when | Module |
| --- | --- | --- | --- | --- |
| Entity resolution (`discovery/services/resolution.py`, `claims.py`) | `entity_resolution_decisions` (append-only, `supersedes`), `entity_resolution_heads` (cache), `companies`, `company_claims` | `resolve`, `_write_decision`, `append_human_decision`, `rebuild_heads`, claims of a version | one head per entity; no orphan company from a lost race; a machine never overrides a person; cache and chain agree | `ResolutionChain` |
| Discovery runs (`runs.py`, `ingestion.py`) | `discovery_runs` and status, entities, versions, bodies, sightings, normalizations | `create_run`, `fetch`, `normalize_run`, `resolve_run` | stored evidence is whole; a completed run leaves nothing it saw unresolved or unclaimed | `DiscoveryRun` |
| Discovery projections (`projection.py`) | profiles, names, domains, presences | `rebuild_projections` | a rebuild that meets no other is refused for a reason the data shows; a claim is a row of the company its entity is resolved to | `CompanyProjection`, `DiscoveryRun` |
| Research pipeline (`research/services/pipeline.py`) | runs (questions), attempts, stages, sources, fetches | `get_or_create_run`, `start_attempt`, `run_pipeline` | attempts are numbered 1, 2, ...; one live at a time; every targeted attribute not held has one reason | four modules, see below |
| Acquisition (`acquisition.py`, `research/live/*`) | sources, bodies, retrievals, request budget | plan, fetch, conditional requests, redirects | what is retrieved is read and cited; the budget holds | `EvidenceTrail` |
| Artifacts, extraction, retention (`artifacts.py`, `extraction.py`, `retention.py`) | bodies, artifacts, texts, extractions, pruned payloads | derive, extract, reuse, plan and apply pruning | pruned content is never read as empty content | `DocumentReading`, `EvidenceTrail` |
| Evidence and claims (`evidence.py`, `claims.py`, `inference.py`) | evidence per retrieval, claims, links, confidence | corroboration, `assert_claim`, inference | corroboration counts independent voices; a stored confidence is what its evidence derives | `Corroboration`, `EvidenceTrail` |
| Gap ledger (`gaps.py`, migration `0006`) | gaps, gap events | `raise_gap`, `record_attempt`, `resolve_gap` | a gap ends once and nothing follows its end | `ResearchLedger` |
| Review (`review.py`) | candidates, reviews | `review_candidate`, `_confirm`, `_reconcile` | one operative decision per candidate; the account is true right after it | `ResearchLedger`, `EvidenceTrail` |
| Profiles (`profiles.py`, `staleness.py`) | company and plan projections | `rebuild_company_profile`, `rebuild_plan_profile` | derived from the ledger; concurrent rebuilds do not undo each other | `ResearchLedger` |
| Identity signals (`identity.py`, `review.py:642`) | concerns, episodes, their log, their evidence | `raise_signal`, `append_signal_status` | episodes follow one another; nothing found is swallowed by an ended one | `IdentitySignals` |
| Job queue (`research/services/application.py`, `discovery/services/jobs.py`) | `discovery_jobs` | `enqueue`, `claim`, `complete`, `fail`, `run_worker_once` | each job executed once or parked; the budget is respected; a crash loses nothing | `ResearchJobs` |
| Market intelligence (`market_intelligence/*`) | snapshots, markets, score runs, research gaps | import, score, rank, detect and decide gaps | same inputs give the same scores; unknown is not zero; ties and missing data rank as documented | `MarketScoring`, `MarketIntelligence` |
| Strategy, commercial contract, CLI, API shell, core | configuration, sessions | seeds, read-only endpoints, `session_scope` | seeds are idempotent; one transaction per command or request | the scoring models only |

How they interact. The CLI opens one session per command and commits at its end
(`core/db.py:71`); an API route commits once. So `run_pipeline` is one
transaction, and a worker that executes several jobs is one transaction too.
There are no messages and no shared memory: components meet in tables, through
unique indexes, foreign keys, row locks, one advisory lock and a few triggers.
Sessions are READ COMMITTED with `autoflush=False`: a statement sees what others
had committed when it started, and what its own transaction wrote.

What is hard: a read and the write it justifies are two statements; an INSERT
waits for an open transaction that holds the same unique key and then fails or
adopts; an upsert waits for a row lock and then overwrites a newer value with
what was read earlier; times are taken when a transaction starts and events are
ordered by them later; locks are taken in different orders; a process dies and
takes a batch with it; content is shared by its digest between attempts that
know nothing of each other. `PROJECT.json` lists each of these hazards at its
line with the properties that cover it.

## 2. Modules

| Module | What it is |
| --- | --- |
| `ResolutionChain` | decisions, head cache, companies and claims of entity resolution, written by runs, reviewers and rebuilds |
| `ResolutionChainProofs` | its theorems |
| `DecisionRegister` | what entity resolution promises to a reader: one current decision per entity that changes atomically, a past that only grows |
| `ResolutionRefinement` | the mapping under which `ResolutionChain` implements `DecisionRegister` |
| `ResolutionRefinementProofs` | that it does |
| `CompanyProjection` | the claims a record makes, their precedence, the rows of the projection and the constraints on them (pure operators) |
| `DiscoveryRun` | discovery runs from the search to the commit, reviewers, and rebuilds of the projection that the next run resolves against |
| `DiscoveryRunProofs` | its theorems |
| `ResearchLedger` | claims, candidates, reviews, gaps, gap events and profiles of one research question, written by attempts, reviewers and rebuilds |
| `ResearchLedgerProofs` | its theorems |
| `ResearchJobs` | questions, attempts and jobs, with the callers and workers that execute them |
| `ResearchJobsProofs` | its theorems |
| `Corroboration` | the maximum matching of publishers and documents, its contract, and the confidence formula (pure operators) |
| `DocumentReading` | the registry of attributes, the rules of every default extractor, what an extractor reads in a document (pure operators) |
| `EvidenceTrail` | attempts that retrieve, share, read, cite and assert, a reviewer that confirms, the retention command |
| `EvidenceTrailProofs` | its theorems |
| `IdentitySignals` | concerns about a company's identity, their episodes of review, the attempts that raise them and the reviewers that decide them |
| `IdentitySignalsProofs` | its theorems |
| `MarketScoring` | percentiles, both scoring engines, confidence, ranking (pure operators) |
| `MarketIntelligence` | sessions that import snapshots, run the engines and record gaps |
| `MarketIntelligenceProofs` | its theorems, about snapshots and gaps |
| `MC...` | constants for TLC: numbered versions, pages, documents, the queue at the beginning |

`MarketIntelligence` is composed of `MarketScoring`, `DiscoveryRun` of
`CompanyProjection`, and `EvidenceTrail` of
`Corroboration` and `DocumentReading`: the transactions apply the operators to
what they read. `ResearchJobs` takes a whole pipeline execution as one step;
`EvidenceTrail`, `ResearchLedger` and `IdentitySignals` are its inside: from
discovery to claims; from claims to gaps and profiles; the last stage. What one
leaves to another is a choice there (what a page says, in `ResearchLedger`). `DiscoveryRun`
and `ResolutionChain` overlap: the one computes what a run concludes and takes a
decision as one step, the other leaves the conclusion open and interleaves the
statements of a decision. Both interleave those of `rebuild_heads`.

**Common form.** A transaction is a process with a program counter and a status.
One action is one SQL statement (or several that nobody can observe in between).
A table is a set of rows that carry their writer, or, in `EvidenceTrail`, `DiscoveryRun` and
`MarketIntelligence`, committed rows beside those each transaction holds. A row is
visible to a transaction when its writer committed or is that transaction. A
statement that PostgreSQL would block is an action that is not enabled while a
*holder* exists; where waiting may be circular, `WaitsFor` says for whom a
transaction waits, and `DeadlockVictim` aborts a member of a cycle. `Crash` may
abort any open transaction. An abort takes back all the transaction wrote. Operators
named `Mut...` are the plausible bugs the properties are tried against.

### ResolutionChain

| Code | Model |
| --- | --- |
| `entity_resolution_decisions`, `uq_resolution_root`, `uq_resolution_supersedes` | `rows`; `Rivals(d)` are rows that hold d's unique key |
| `entity_resolution_heads` | `head` (committed), `staged[t]` (a transaction's own upserts, which hold the row lock) |
| `current_head` | `HeadsSeenBy(t, e)`: any row t sees that no row t sees supersedes |
| `resolve` | `Resolve`: keep a settled head, or conclude; `Conclusions` is the set of outcomes, since names and domains are abstracted to a choice |
| `_write_decision` | `InsertDecision` when the key is free; `AdoptWinner` when a committed row has it: re-read the head, delete the minted company |
| `_upsert_head` | `UpsertHead` |
| `_already_claimed` and the claims of a version | `WriteClaims` |
| `GET` of the ambiguous queue, `append_human_decision` | `View`, `PostDecision`, `RefuseReviewer` |
| `rebuild_heads` | `BeginRebuild`, `DeleteHead`, `SelectHeads`, `ReinsertHead`, `RefuseRebuild` |

`DecisionRegister` has neither transactions nor keys nor races: one `Decide` step
replaces the current decision of some entities on behalf of one author, moves
what held into the past and registers companies. `ResolutionRefinement` maps
`current` to the head of the committed chain, `past` to the committed rest, and
`registry` to the committed companies; every step of the chain is one step of the
register or none.

### DiscoveryRun, CompanyProjection

| Code | Model |
| --- | --- |
| `discovery run`, one `session_scope` | `Begin` ... `Commit`; nobody passes `commit_page`, so no page is committed before |
| `search` with `limit = page_size` | `Search`, `SearchFails` |
| `ingest_record`, its savepoint, its ON CONFLICT DO NOTHING | `RowsOf` (five rows in order), `Insert`, `Refuse`, `SkipRecord`; `KeyHolders` is whom an insert waits for |
| native, derived and content identity | `EntityOf` |
| `_run_versions`, `normalize_run` | `RunVersions`, `Fetched` |
| `resolve`, `has_identity_collision`, `_deterministic_match`, `_score_candidates` | `Resolve`, `Conclusions`, `HasCollision`, `ByDomain`, `ByName` over the committed projection |
| `_write_decision`, `_upsert_head` | `Write`, one step |
| `write_claims_for_candidate` and the registry's range check | `Claim`, `Statements`, `Validates` |
| `append_human_decision` | `Review`, one step |
| `rebuild_projections` | `BeginRebuild`; `StartDelete` and `FinishDelete` (the profiles first, then the other tables); `rebuild_heads` is `FindHeads` and `LockHead` (its DELETE looks once and locks row after row), `SelectHeads`, `HeadsClash`; `Load`; `InsertRows`; `CommitRebuild` |
| deadlocks over rows of evidence and over head rows | `WaitsFor`, `IsDeadlocked`, `DeadlockVictim`, `RebuildVictim` |
| `_ScoredClaim`, `_winner`, `_scalar_winner`, `_project_*` | `PrecedenceKey`, `Winner`, `IsContested`, `ProfileRow`, `NameRows`, `DomainRows`, `PresenceRows` |
| `uq_identity_domain`, primary keys, `employee_envelope_order` | `Collide`, `IsEnvelope` |

A candidate has a name, a domain and a range of staff. A name alone scores 0.65 at most,
which parks a candidate and never matches it; similar names and shared group
domains alone score less than what parks, so they are left out. Entities,
versions and companies are named by what makes them unique, which keeps the
tables sets of keys.

### ResearchLedger

| Code | Model |
| --- | --- |
| discovery, retrieval, extraction of an attempt | `StartAttempt`: each source was read (what the page says is in `Readings`), failed permanently, or gave nothing new |
| `assert_claim` with its unique fingerprint | `AssertClaims`, `ClaimInFlight`, `Asserted` |
| `rebuild_company_profile` and the reads of `_raise_gaps` | `BeginGaps`; `MissingKind` is the order of explanations |
| `raise_gap`, `record_attempt`, the transition trigger | `RaiseGap`, `RecordAttempt` |
| `review_candidate`, `_confirm`, `_reconcile`, `resolve_gap` | `Decide`, `LockCandidate`, `RecordReview`, `ReadGap`, `ResolveGap`, `RefuseResolution` |
| `rebuild_all` and its advisory lock | `RebuildAll`, `ProfileLockFree` |
| foreign-key locks of gap events | `GapHolders` |

A claim's value is not modelled here; staleness and contradiction (which depend on
dates and values) are a choice for any held attribute. Times are a clock that
each transaction reads once, as `now` is in the code.

### ResearchJobs

| Code | Model |
| --- | --- |
| `create_or_reuse_run`, `get_or_create_run` | `Ask`, `Question` |
| `execute_attempt`, `retry_attempt`, `open_attempt` | `Execute`, `Open` |
| `start_attempt` | `CheckFree`, `CheckLive`, `InsertAttempt`, `InsertRefused` |
| `run_pipeline` | `RunPipeline` or `PipelineRaises`, one step |
| `enqueue`, `claim`, `complete`, `fail` | `Enqueue`, `ClaimJob` with `Claimed`, `Completed`, `Failed` |
| `run_worker_once` in the worker command | `BeginWork`, `ClaimJob`, `StopClaiming`, `PutBack`, `Commit` |
| the minute a failed job waits | `due`, `RetryDelayEnds` |

`asked` and `job` of an attempt are history: they record what it was made for, so
that a property can compare it with what was done.

### EvidenceTrail, DocumentReading, Corroboration

| Code | Model |
| --- | --- |
| discovery of candidates, `get_or_create_source` | `Begin`: the plan, and one shared row per source |
| `_retrieve`, validators, redirects, `max_retrievals` | `Fetch`, `Validated`, `RedirectEdges`, `Spent`, `EndFetching` |
| `get_or_create_body`, artifact, text, `run_extraction` | `Insert`: `Share` for rows inserted ON CONFLICT DO NOTHING, `Extract` for an extraction, which is selected and then inserted |
| an extractor's rules and the registry's `validate` | `Reading`, `Raises`, `Validates`; a document is its set of phrases |
| `create_evidence_item`, usages, candidates | `Cite` |
| `_relate_sources` | `MirrorEdges`, `DeclaredEdges` |
| `_assert`, `assert_claim`, `_infer` | `AssertClaims`: grouping by value and lineage (`Assertions`, `Fingerprint`), links, confidence (`Derived`), the guard (`Diverges`), the rule `R-DISPATCH-001` (`Inferred`) |
| `independent_publisher_count` | `MaximumMatching` with Kuhn's search as `Augmented`; `LargestIndependent` is its definition |
| `record_human_extraction` | `Confirm` |
| `plan_retention`, `apply_retention` | `Prune`; which declared type counts is a choice, as in the code |
| sites and deployments | `PageChanges`, `Deploy` |

A reader of the code will miss confidence as a decimal: it is counted in
ten-thousandths, as the code rounds to four places. Attempts about one company run
one after the other here; races between questions of one company are
`ResearchLedger`'s and `IdentitySignals`'. A redirect has one hop: the live transport
follows several, within the one call, and reports where it began and where it ended.

### IdentitySignals

| Code | Model |
| --- | --- |
| `run_pipeline`: `now`, then (much later) the profile lock | `BeginAttempt`, `TakeLock` |
| `raise_signal`: insert of the concern, look for the open episode | `RaiseSignal` |
| `_open_occurrence` | `OpenOccurrence`, with `Rivals` of the two unique indexes |
| evidence links | `EvidenceOf`, `LinkEvidence`; `LinkedBy` and `HeldBy` are the locks on the episode's row |
| `append_signal_status` and the trigger | `Post` (reads the time), `Decide` or `Refuse` (takes the row lock, reads the log), `CommitDecision` |
| `occurrence_status`, `_REVIEW_RANK` | `OccurrenceStatus`, `Latest`, `Rank` |

The code that looks for an open episode and then inserts one is safe only because
its caller took the advisory lock of the company's profile, for another reason,
shortly before, and keeps it: without `LockFree`, `NoAttemptIsLost` fails.

### MarketScoring, MarketIntelligence

| Code | Model |
| --- | --- |
| `percentile.py` | `Midrank`, `Percentile`; what fails a native run: `TooFew` (a series of one value), `NoLogarithm` (a value that is not positive in a series of logarithms) |
| `base_engine.py` | `NativeResult`, `ReproducedResult`, `NativeGaps` over `BaseModel`, the seeded components |
| `contextual_engine.py` | one operator per handler, `ContextualResult`, `ContextualGaps` |
| `confidence.py`, `ranking.py` | `EvidenceConfidence`, `ComponentConfidence`, `AggregateConfidence`; `LabelWorth` of the label each market's entry brings; `CompetitionRanks`, `EligibleForBase`, `EligibleForContext` |
| `import_payload` | `BeginImport`, inserts of `Insert`, `Commit` or `RejectedByTable` |
| `run_reference_reproduction`, `run_native_recalculation`, `run_contextual_ranking` | `BeginReproduction`, `BeginNative`, `BeginContextual` |
| `record_gap`, status of a gap | gap rows inserted ON CONFLICT DO NOTHING, `GapsAfter`, `SetStatus` |

A score is a pair of points earned and weight covered, and two scores are compared
as fractions, so nothing is rounded. Percentiles are counted in parts of a whole
(`Unit`), as many as make every midrank and every share of `TopValue` a whole number of
them (`UnitIsExact`; four in the run). Weighted sums are `SumFunction` over the terms or
components. The listing is the sorted order by position: the market in place i is the
one that i - 1 others come before, which is what `sorted` with a total `sort_key` gives;
`CompetitionRanks` then makes the code's one pass over it.

## 3. Runs

Passing runs (TLC finishes and finds no error):

| Run | Instance | States | Shows |
| --- | --- | --- | --- |
| `resolution_safety` | 2 runs, 1 reviewer, 1 rebuild, 2 versions of 1 entity | 230,740 | `TypeOK`; `OneHead`; `NoOrphanCompany`; `MachineNeverOverrides`; `StaleOnlyByAdoption`: only a run that lost the race can leave the cache stale; `ImplementsDecisionRegister` |
| `resolution_live` | 2 runs, 2 entities, 3 versions, met in opposite orders | 14,256 | `EveryTransactionEnds`, with deadlocks |
| `ledger_safety` | 2 attempts, 2 reviewers, 2 sources, 1 attribute | 791,051 | `TypeOK`; `GapEndsOnce`; `OneOperativeReview`; `MissingIsNotHeld` |
| `ledger_live` | 2 attempts, 1 reviewer, 1 rebuild, 1 source | 58,059 | `ProfileAgreesWithLedger`; `EveryTransactionEnds` |
| `jobs_queue` | 1 caller, 2 workers of 2 jobs each, 3 questions (one raises), up to 4 jobs, 1 crash | 313,436 | `TypeOK`; `AttemptsAreNumbered`; `ParkedAtTheLimit`; `OneExecutionPerJob` |
| `jobs_live` | 1 caller, 2 workers, 2 jobs of one question, 1 crash | 32,776 | `EveryJobSettles` |
| `evidence_trail` | 3 attempts about 2 companies, 5 sources, 5 bodies, 3 extractors in 2 versions, pruning | 33,446 | `TypeOK`; `VoicesAreWitnesses`; `ConfidenceStands`; `RetrievalsAreCited`; `ClaimsAreAccountable` |
| `evidence_live` | 2 attempts that meet two sources in opposite orders, pages change | 8,860 | `EveryAttemptEnds` |
| `signals` | 2 attempts, 2 reviewers, 1 concern (new, or dismissed before) named by 2 sources | 70,450 | `TypeOK`; `EpisodesFollow`; `FindingIsQueued`; `NoAttemptIsLost` |
| `market` | 3 markets, 3 sessions; 438 situations: every combination of what is measured, or races of imports, recalculations and decisions | 27,249 | `TypeOK`; `RanksAreStanding`; `UnknownIsNotZero`; `EvidenceRaisesConfidence`; `GapsExplainCoverage`; `ReproducesPublished`; `DecidedGapsStay` |
| `discovery` | 2 runs, 2 rebuilds, 1 reviewer, 3 companies; 8 situations: runs that race for the same records in opposite orders, an entity that is moved under two rebuilds, two companies of one domain, a colliding derived key, a newer normalizer, bounds of staff that cross, records that are refused, a fetch that fails | 1,008,571 | `TypeOK`; `EvidenceIsWhole`; `NothingIsStranded`; `LoneRefusalIsExplained`; `AttributionIsCurrent` |

Runs that end in a counterexample, because the code does not do what the
repository's documentation says (`PROJECT.json` "findings" quotes the lines):

| Run | Property | What happens |
| --- | --- | --- |
| `evidence_pruned` | `NothingIsReadFromNothing` | retention prunes a text; a body is retrieved again after an extractor's new version is deployed; the pruned text is read as the empty text and an extraction without observations is stored as OK |

### Further statements that do not hold

These definitions stand at the end of their modules. No run is kept for them; to
see the counterexample, put the definition in place of the INVARIANTS line of the
named configuration (a PROPERTIES line for action and temporal formulas, and then
without the SYMMETRY line).

| Definition | Configuration | What it contradicts |
| --- | --- | --- |
| `HeadCacheAgrees` | `MCResolution_safety` | `src/docs/M2_COMPANY_DISCOVERY_DESIGN.md:894`: the cache and the chain must agree; the loser of a race re-reads a head, a reviewer supersedes it, the loser caches it over the newer row |
| `ClaimedOnce` | `MCResolution_safety` | same document, line 78: a pair that has claims is not written again |
| `ReviewerSawWhatIsSuperseded` | `MCResolution_safety` | same document, line 81: a decision on a stale head is refused |
| `LoserReevaluates` | `MCResolution_safety` | same document, line 866: the loser re-evaluates against the new head |
| `PaidEvidenceIsKept` | `MCDiscovery` | `discovery/services/runs.py:8`: raw evidence already paid for is always retained; a claim the registry refuses, or the gate on partial fetches, rolls back the one transaction of the command |
| `FetchIsComplete` | `MCDiscovery` | `runs.py:9`: the registry is never touched by an incomplete fetch; `page_size` is sent as the limit of the only search, so what is offered beyond it is never asked for, and the run is FETCHED |
| `RebuildNeverRefused` | `MCDiscovery` | `projection.py:255`: providers disagreeing is information, not a conflict; a claim with a least number of staff only and one with a lower greatest only violate `employee_envelope_order`, and every rebuild fails from then on |
| `CollidersAreParked` | `MCDiscovery` | `resolution.py:232`: a derived key shown to cover two organizations may neither match nor create; a settled head is kept before the collision is looked for |
| `ClaimsProjectOnce` | `MCDiscovery` with `MaxReviews = 2` | `projection.py:155`: a claim contributes to no other company; two overlapping rebuilds, with reviews between, leave rows of both |
| `MissingKindsExclude` | `MCLedger_safety` | `pipeline.py:751`: kinds of missing are mutually exclusive; a weak reading and then a 304 raise two |
| `ConfirmedIsNotMissing` | `MCLedger_safety` | `review.py:443`: the account is true immediately after a confirmation |
| `ResolvedReadsResolved` | `MCLedger_safety` | migration `0004:526`: a terminal event admits no successor |
| `SiblingsAreUntouched` | `MCLedger_safety` | `review.py:336`: a decision leaves the readings of other sources untouched |
| `LoserDerivesAgain` | `MCLedger_live` | `src/docs/M3_OPERATIONAL_RESEARCH_DESIGN.md:1170`: the loser of two rebuilds re-derives |
| `ConflictIsTranslated` | `MCJobs_queue` | `application.py:270`: never a raw IntegrityError |
| `ExecutesWhatWasAsked` | `MCJobs_queue` with `DefaultOf <- SharedDefault` | same document as above, line 304: an attempt is of the run asked for; the code derives the question again from part of it |
| `EveryJobSettles` | `MCJobs_live` with `Runs = AskedBefore = {q1, q2}`, `Raising = {q2}`, `QueuedBefore <- NothingQueued` | `jobs.py:72`: a failing job is parked; an exception `run_worker_once` does not name rolls back the attempt it counted, and the job is claimed again for ever |
| `RefetchRecovers` | `MCEvidence_trail` | same document, line 1431: a pruned body is recovered by fetching it again; the pruned row is returned |
| `UnmodifiedWasRead` | `MCEvidence_trail` | `pipeline.py:477`: an unmodified page has nothing to re-read; another company's attempt may be the only one that read it |
| `AttemptsConverge` | `MCEvidence_live` | `acquisition.py:54`: attempts that meet converge; an extraction inserted twice, or a deadlock, loses an attempt |
| `TerminalStaysTerminal` | `MCSignals` | `src/packages/boro_gtm/research/api/routes.py:652`: terminal stays terminal, by trigger; a reviewer reads the time and waits for the row of an episode another one acknowledges later, then dismisses it with the earlier time: the episode is closed and reads ACKNOWLEDGED for ever |
| `EvidenceIsNotLate` | `MCSignals` | evidence reaches an episode that somebody can still decide; it may end between the look and the link |
| `HomeIsUnranked` | `MCMarket` | `src/docs/SCORING.md`, "Tie semantics": the home market is never ranked; the contextual engine ranks it |
| `RacersBothSucceed` | `MCMarket` | `detector.py:132`: two processes racing on a gap both succeed; in opposite orders one is a deadlock's victim |
| `ReimportReturnsExisting` | `MCMarket` | `snapshot_importer.py:206`: importing the same content again returns the snapshot; two imports at once give one an IntegrityError |

Also noticed while modelling, without a definition of their own: a native run in
which one metric is observed by one market only is refused (`percentile.py:37`) and
rolls back an import with recalculation; a second snapshot with another home market
never resets the first one's flag (`snapshot_importer.py:362`), which is why
`ReproducesPublished` asks that the home market be the snapshot's own; a contextual
ranking may name a base run of any kind or snapshot (`contextual_service.py:81`);
a native run that meets a value of 0 in a metric taken in logarithms fails with a
ValueError nothing catches (`percentile.py:116`, `NoLogarithm`); a rebuild of the
projection during which a run commits the first decision on an entity fails with the
IntegrityError of its head row (`resolution.py:521`, `HeadsClash`); `publisher_for` puts all unmapped domains under one publisher (`policies.py:282`); a
source that redirects keeps its own publisher; the retention plan takes the declared
type of whichever retrieval the query returns first.

### Bounds

* Two runs and one reviewer are the fewest writers with which every pair of
  writers can race and a third party can move the head between a re-read and an
  upsert. Two versions of one entity let one run decide twice in one transaction.
  `resolution_live` needs two entities to lock in opposite orders, and three
  versions so that id order gives both orders.
* `ledger_safety` has two sources and two reviewers: two readings of one
  attribute, and two decisions on one reading; two attempts, because gaps are raised
  by one and touched by another. One attribute suffices: attributes only share the
  profile lock, which `ledger_live` exercises with an explicit rebuild.
* `jobs_queue`: jobs 1, 2, 3 are of questions q1, q2, q2 and a caller may add a
  fourth, so that two workers of `MaxJobs = 2` hold q1 and q2 in opposite orders.
  `MaxAttempts = 2` is the code's own value (`application.py`, MAX_ATTEMPTS).
  `MaxCrashes` bounds how often a process dies.
* `evidence_trail`: the documents hold a cosmetic variant, a mirror on another
  domain, a contradiction, a sampled contract, a redirect and a plain text; the
  second attempt about a company meets what the first one and another company's left.
  `MaxChanges` and `MaxVersions` bound how often pages change and extractors are
  deployed; texts expire after one attempt (`TextHorizon`), bodies by declared type.
  `evidence_live` has silent pages, since what waits for what does not depend on what
  they say.
* `signals`: two attempts race for one episode after an earlier one was dismissed, or
  for the first; two sources make an attempt meet its own uncommitted episode; two
  reviewers decide one episode or two. `Horizon = 1` gives equal and later times.
* `market`: three markets are the fewest with a tie above a distinct score and a
  home market; raw values are 0, 1, 2 (`TopValue`), so that percentiles tie and
  differ.
* `discovery`: each situation has the fewest parties for its case: two runs store and
  resolve what one another saw, a rebuild lies between them, a second rebuild overlaps
  the first. `PageSize = 2` is smaller than some offers. `MaxReviews` bounds
  decisions of reviewers; `Companies` and `BatchIds` are as many as can be needed.
* Each transaction of an instance runs once, which bounds the tables; in
  `ResearchJobs` workers start over, callers run once and the job identifiers are
  finitely many. Symmetry of runs, of attempts, of reviewers and of workers is used in
  `resolution_safety`, `ledger_safety` and `jobs_queue`, which have no liveness.
* `CHECK_DEADLOCK FALSE` everywhere: the transactions of an instance all end.

### Fairness

`FairSpec` asks that a transaction that has begun keeps executing statements
(weak fairness of its own steps), that PostgreSQL breaks wait cycles
(`deadlock_timeout`), and in `ResearchJobs` that time passes (`RetryDelayEnds`)
and that somebody keeps starting the worker command, which handles `--max-jobs`
jobs and exits (`cli.py:786`). Nothing is assumed of the beginning of a
transaction, of callers, of pages or of crashes. `DiscoveryRun`,
`IdentitySignals` and `MarketIntelligence` state no fairness: whether
everything ends is asked of the other four.

`EveryJobSettles` in `jobs_live` has no raising question. A job is then held up only
by a live attempt somebody opened and did not execute, and that is an error the
code counts, so the job is parked.

## 4. Proofs

Each theorem is of the form `Spec => []P` (or the refinement, or an action property:
`StaleOnlyByAdoption`, `AttributionIsCurrent`, `DecidedGapsStay`), for every value of the
constants that satisfies the named assumption of its module. But for `DecidedGapsStay`, none of the
properties is inductive; each follows from an inductive invariant, which TLC checked as an
invariant of the module's run before it was proved. The invariants are conjunctions
of named parts, and each part is preserved by lemmas about what a kind of statement
does to the tables (an insert, a commit, a roll back, a step of *another*
transaction), so that an action with several effects is not analysed once per part.

| Module | Theorem | States |
| --- | --- | --- |
| `ResolutionChainProofs` | `TypeCorrect` | `TypeOK` |
| | `ChainHasOneHead` | `OneHead` |
| | `ResolversNeverOverride` | `MachineNeverOverrides` |
| | `LosersLeaveNoCompany` | `NoOrphanCompany` |
| | `CacheGoesStaleByAdoption` | `StaleOnlyByAdoption` |
| `ResolutionRefinementProofs` | `ChainImplementsRegister` | `ImplementsDecisionRegister` |
| `DiscoveryRunProofs` | `TypeCorrect` | `TypeOK` |
| | `EvidenceStaysWhole` | `EvidenceIsWhole` |
| | `NothingStaysBehind` | `NothingIsStranded` |
| | `LoneRefusalsExplained` | `LoneRefusalIsExplained` |
| | `AttributionStaysCurrent` | `AttributionIsCurrent` |
| `ResearchJobsProofs` | `TypeCorrect` | `TypeOK` |
| | `NumberingIsSequential` | `AttemptsAreNumbered` |
| | `JobsAndWorkAgree` | `OneExecutionPerJob` |
| | `ParkingIsFinal` | `ParkedAtTheLimit` |
| `ResearchLedgerProofs` | `TypeCorrect` | `TypeOK` |
| | `GapsEndOnce` | `GapEndsOnce` |
| | `FirstDecisionOperates` | `OneOperativeReview` |
| | `MissingStaysMissing` | `MissingIsNotHeld` |
| | `ProfileIsDerived` | `ProfileAgreesWithLedger` |
| `EvidenceTrailProofs` | `TypeCorrect` | `TypeOK` |
| | `RetrievalsStayCited` | `RetrievalsAreCited` |
| | `ClaimsStayAccountable` | `ClaimsAreAccountable` |
| | `ConfidencesStand` | `ConfidenceStands` |
| | `VoicesWitness` | `VoicesAreWitnesses` |
| `IdentitySignalsProofs` | `TypeCorrect` | `TypeOK` |
| | `NoAttemptLoses` | `NoAttemptIsLost` |
| | `EpisodesInOrder` | `EpisodesFollow` |
| | `FindingsReachTheQueue` | `FindingIsQueued` |
| `MarketIntelligenceProofs` | `TypeCorrect` | `TypeOK` |
| | `GapsExplainRuns` | `GapsExplainCoverage` |
| | `DecisionsStand` | `DecidedGapsStay` |
| | `RanksStand` | `RanksAreStanding` |
| | `UnknownsOutscoreZeros` | `UnknownIsNotZero` |
| | `ConfidenceFollowsEvidence` | `EvidenceRaisesConfidence` |
| | `ReproductionsAgree` | `ReproducesPublished` |

### Entity resolution

Assumptions: `TxnsAssumption` (the three kinds of transaction are disjoint),
`VersionsAssumption` (version ids are numbers, each of an entity) and `NoneAssumption`
(the markers are no ids, companies or decisions).

`OneHead` is not inductive: the unique indexes exclude two successors of one row,
but two successors of *different* rows are not excluded by any index. The
invariant `ChainInv` adds what the code does around them:

1. `RowsOK`: ids and unique keys are held by one row each, and a decision supersedes
   a row of its own entity that its writer could see.
2. `PlanOK`, `FreshOK`: the row about to be inserted is fresh and supersedes a row its
   writer sees. Only one version is at hand at a time.
3. `PendingOK`: of two open transactions, at most one has decided about an entity,
   and its first decision stands on the committed head. This is where
   the indexes and the visibility rule meet: two writers who both see the committed
   chain are after the same key, and the second has to wait.
4. `Rooted`: a chain that is not empty has a root, so "nothing superseded it" and
   "nothing is there" are told apart.

The graph part (1, 3, 4 and `OneHead`) is preserved by lemmas about what happens to
`rows` and `status` only: begin, insert, commit, roll back, and steps that touch
neither. The plan part is preserved action by action. `MachineNeverOverrides` follows
from `OverrideInv`: the decision in hand never supersedes a settled one, which stays
true because decisions are never changed and the head was open when it was read.
`NoOrphanCompany` follows from `MintedInv`: a minted company has a decision of its
resolver, or is the one of the row its resolver is about to insert, and that is
the one `AdoptWinner` deletes.

`StaleOnlyByAdoption` is about a commit, so its invariant, `CacheInv`, says what each
open transaction has cached by then:

* `LocksOK`: a head row is written by one open transaction at a time.
* `WriterOK`: a run or a reviewer caches what it can see, and on an entity it has decided
  about it caches the head. Nobody else's commit moves that head, because of `PendingOK`.
  A commit of its own decisions therefore leaves cache and chain in agreement; a
  cached row on an entity it has *not* decided about is a winner it adopted, and
  the chain may have moved on since.
* `RebuilderOK`: for each row it deleted, a rebuild holds the head it selected until it
  has reinserted it. A head cannot move while its row is locked: a writer with a
  decision on the entity would have to write that row before it commits. Where the rebuild
  deleted nothing, it inserts only if nobody had cached a head, and then the
  cache did not agree before.

The refinement needs one part more, `NamedInv`: the company a decision names is
registered, or was minted together with the decision. With it a commit is one
`Decide` of the register (or a stutter, when the transaction decided nothing): what it
replaces is what the committed chain's heads were, because of `PendingOK`; that it
may replace them is `OverrideInv`; and the companies that appear are the ones it
names, because of `MintedInv` and `NamedInv`. All other steps leave the committed
heads, rows and companies as they were.

### Discovery runs

Assumption: `DiscoveryAssumption` (runs and rebuilds are disjoint; company and batch ids are
numbers, as the keys the code sorts by are ordered; each content has one place in
`Contents`; a run names a provider that is registered, whose trust is between 0 and 1,
counted in thousandths). `DiscoveryInv`:

* `Shapes`, `PhaseOK`: the tables hold rows of their columns, and which statements a
  run or a rebuild can be at. `TypeOK` follows.
* `RowsOK`: decisions, and rows of the projection, are as the types and constraints of
  their tables have them; a decision names a company exactly when its kind has one.
* `NumbersOK`: the decisions on an entity, committed and with a run's own, are
  numbered 1 ... m. The number a run is about to write is the next one, or one that
  somebody has committed since it looked (then it is refused).
* `HeadsOK`: the row of an entity in the head table has one holder. While a rebuild
  holds it nobody else decides about that entity; this is what keeps attribution still
  between the moment a rebuild reads the heads and its commit. The heads it selects are
  of rows it has locked, or it does not get beyond inserting them.
* `ClaimsOK`: claims, committed or not, have ids of their own, and come from a
  registered provider.
* `RecordsOK`: what is committed is whole, and so is what a run has committed and
  written together, up to the record at hand; of that record the rows written
  are the ones `next` and `mine` say, and the last of them completes it.
  `EvidenceIsWhole` follows, because all a run's rows appear in one commit.
* `SightingsOK`: each version the run is through with is unresolved or claimed, under a
  decision that was not yet past when the run began. The decisions that were past then
  are superseded, so none of them is what `NothingIsStranded` finds to be the head.
  A sighting belongs to the run that made it, and it is committed with that run.
* `RebuildsOK`: the rows a rebuild has inserted, and is about to insert, are the
  `Projection` of claims of entities resolved to their company when it read them.
  Such rows do not collide with one another (`RowsKeepApart`: names, domains and
  presences of one company differ in their keys, and a profile's row is one). A rebuild that
  overlaps no other has deleted all rows there were, so nothing is left to
  collide with. It also has locked all head rows it looked for, once its DELETE is
  over: only the commit of another rebuild could have taken one away (`Emptied`). So a
  head that it cannot insert is of an entity it did not find. The two are
  `LoneRefusalIsExplained`.

`AttributionIsCurrent` is a statement about one step, the commit of a rebuild. It follows
from `RebuildsOK`, which says where its rows come from, and `HeadsOK`, which says that
the resolutions they come from are still the current ones.

The choices of the code that are `CHOOSE` in the model (the winner of a claim, the
last decision) are shown to be what they look like once: a set of numbers that is not
empty has a least one (`LeastNumber`, from the well-foundedness of the naturals), the winner
is one of the claims (`WinnerIsOne`), and the head is the greatest number (`HeadIsGreatest`).

### Jobs

Assumption: `JobsAssumption` (callers are not workers, the markers are no ids, the
bounds are numbers). `JobsInv` adds to `TypeOK`:

* `PhaseOK`, `JobAtHand`: which statements a caller or a worker can be at, and that
  the job being executed is one the worker has claimed and not settled.
* `RowsHeld`: a job a worker has changed is locked by it alone, and its committed row
  is still QUEUED.
* `Budgets`: a parked job has spent its budget and no other has, in committed rows
  and in those a worker has not committed.
* `WorkOK`: `OneExecutionPerJob` together with the same statement about what each
  worker has written and not committed, so that a commit turns one into the other.
* `NumbersOK`: the attempts of a question, committed, and those followed by a
  transaction's own, have the numbers 1 ... n, and all but the last are terminal; a
  number that was read is n + 1, or one that somebody has committed since. Here the unique index on
  (question, number) and the index on live attempts meet: two executions that read
  the same attempts are after the same number, and the second waits and is refused.

### Ledger

Assumption: `LedgerAssumption` (the three kinds of transaction are disjoint, the
constants have their types). `LedgerInv` adds to `TypeOK`:

* `PhaseOK`, `LocksOK`: which statements a transaction can be at, and that the
  profile's lock has one holder, the candidate's row one, and nobody keeps a lock
  after its end.
* `WrittenOK`: what a transaction has written by the time it runs a statement; nobody is
  about to commit a claim or an event without the profile's lock.
* `ReviewsOK`: a decision not committed is of the candidate whose row its reviewer has
  locked, and who is about to write an operative one is the first. The lock is why two
  reviewers cannot both find none.
* `ResolvedOK`: a gap ends once, and whoever ended it, or is about to, sees the
  attribute held.
* `MissingOK`: what an attempt reported, and what it is about to report, is of
  attributes nobody holds. It is inductive because evidence that makes an attribute
  held is committed under the profile lock, which the attempt has had since it looked.
  `GapEndsOnce` depends on it: an attempt that reports never meets an ended gap.
* `DraftOK`: a profile that was derived and not yet stored is what its
  transaction would derive now, and the lock keeps others from committing what would
  change that. `ProfileAgreesWithLedger` is this at the moment of the commit.

### Identity signals

Assumption: `SignalAssumption` (attempts and reviewers are disjoint, findings are
sequences, the markers are no ids). `SignalsInv` adds to `TypeOK`:

* `PhaseOK`: one attempt at a time has the profile lock; a reviewer decides an episode
  that is committed.
* `RowsOK`: what is not committed belongs to the holder of the lock, or is the
  decision of a reviewer at its commit.
* `TimesOK`: the OPEN event of an episode is not later than the others, so that of
  events of one time the rank decides as the code's sort does.
* `LogOK`: the committed log of an episode has a last event. (It is a finite set, and
  the order on it is total; but this is kept from step to step, not derived.)
* `ClosedOK`: an episode is flagged closed exactly when its log has an end. This needs
  `TimesOK`: a reviewer that acknowledges saw no end, and holds the row.
* `EpisodesOK`: the committed episodes of a concern are numbered 1 ... m and all but
  the last are closed; an episode not yet committed has number m + 1. `NoAttemptIsLost`
  follows: no other transaction can hold that number, or an open episode.
* `QueueOK`: what an attempt has not raised yet is the rest of what it found, and all
  before it is in the queue, on an episode that was not over when it began.

### Evidence trail

Assumption: `TrailAssumption` (a page answers with a document, a refusal other than OK,
or a source that does not redirect itself; plans name sources; extractors and
what a document declares are listed; confidences are numbers, and so are publishers and
artifacts, which stand for their place in the sort order; sources and bodies are finitely many;
`None` is neither a number, a rule nor an outcome). Nothing is assumed of what documents say, of
who publishes which, of tiers, or of how attempts overlap. `TrailInv` speaks of *tables*: the committed ones, and for each
attempt the committed ones with its own (`Whole`).

* `Shapes`, `WorldOK`: fields, sequences and where the rest ranges. No attempt has ended
  with a divergence.
* `HoldsOK`: a row an attempt inserted is not committed, and no other attempt has it.
* `Sound`, of the committed tables and of each attempt's: whatever refers to a row refers
  to one that is there (a shared key to its body or extraction, evidence to its
  extraction and its retrieval, a candidate to its evidence), a link is `Accountable`
  and `Faithful` (its evidence has an origin in its claim's lineage), and a claim is
  `Attested` (each origin of its lineage is linked, and its confidence is that of the
  lineage).
* `CommittedOK`: besides, every committed retrieval is `Settled`: its body is there and
  what there is to read in it is cited.
* `Working`: what an attempt has fetched, it has got or is about to insert; what it is
  still to take is a row asked for on behalf of what it got; and from the end of
  fetching, each extractor that reads a body it got has cited it, or is still to.

All of this says that some row is there, so it is not disturbed when somebody else
commits (`AttemptOnMore`): tables only grow, payloads are pruned beside them, and
an abort takes back only what no other transaction could see. That an extraction of
another attempt is reused is then no special case: the row `Extract` finds is one
`Sound` speaks of (`Citation` is the same for both branches).

`ConfidenceStands` rests on the fingerprint. The tier and the voice of a piece of
evidence are functions of its origin, so a confidence is a function of the lineage
(`DerivedFromLineage`), and the lineage is part of the claim's identity: evidence linked
later has an origin the claim already has. Hence the guard never fires (`NeverDiverges`).
The only fact used of the matching there is that it is a function of its edges.
`ClaimsAreAccountable` needs candidates to have evidence of their own (`Proposed`), and for
the inference rule that what it links was linked before.

`VoicesAreWitnesses` is about Kuhn's algorithm, which the model writes as two recursive
functions, and about the evidence it is given. Of the evidence it needs only that links and
candidates name sources and bodies there are (`SourcesInv`, inductive beside `TrailInv`), so
that voices are finitely many pairs of numbers (`VoicesAreGraph`). Of the algorithm:

* A search calls itself twice, the second time on what the first has seen. That there is a
  function with this body (`SearchExists`) rests on the searches seeing more and more
  (`SolutionGrows`): each call has fewer documents left to see (`Level`), and a property of
  searches that fails would fail for one with the fewest left (`LeastSearch`).
* A search that fails has seen documents that are all held, by publishers who carry no
  other document outside them (`SearchFailsWell`); a search never gives away a document of
  such a closed part, and fails when all that its publisher carries is in it
  (`SearchSpares`); one that succeeds matches its publisher and leaves nobody out
  (`SearchAugments`). The second call of a search is the delicate case: it sees the holders
  the first one started from.
* Publisher by publisher the matching is a `GoodMatching`: no two documents have one holder,
  its size counts the publishers who hold one, and one closed part contains everything that the
  publishers left out carry. Hence no set of independent edges is larger: give an edge the
  holder of its document inside the closed part and its own publisher outside, and no two
  get the same (`NoneIsLarger`). The matching itself is such a set (`OneIsAsLarge`).

### Market intelligence

Assumptions: `MarketsAreOrdered` (markets are numbered 1 ... n, as the engines list them
by key), `TopValueIsPositive` and `UnitIsExact` (percentiles are whole numbers of units),
`NoneIsNoNumber` (the marker for what is missing is neither a number nor a score) and
`MarketAssumption`: documents speak of registered markets; requests name
documents, markets and channels that are known (a contextual ranking refuses an unknown
channel and leaves out markets it does not find, and every seeded channel has weights); a
raw metric is in 0 ... `TopValue` or missing; what a vertical says of a market, and a
ticket, is a number (or two) or missing; and a document names all published parts of a
market it scores. Nothing is assumed of what is measured, of whether published numbers
agree, or of how requests overlap. `MarketInv`:

* `Shapes`: a transaction's fields, a gap's status, and where the rest ranges.
* `KeysOK`: no two snapshots share a key or a digest.
* `HoldsOK`: a row a session holds is not committed, and no other session holds it.
* `PendingOK`: the two keys of a snapshot that is being imported are held or still to
  be inserted. They are never skipped, unlike a gap that is already there; so a session
  that commits holds both, and `KeysOK` follows from `HoldsOK`.
* `RunsOK`: what a run could not score has a gap. For a committed run it is a committed
  one; for a run at hand it may be a row its session holds or has still to insert. A row
  leaves the last of these when it is inserted, or when it is skipped because somebody
  *committed* it, so a roll back of another session takes no explanation away. A commit
  makes the first of these of all.

`RunsOK` holds when a run begins because every metric an engine reports missing
(`NativeGaps`, `ContextualGaps`, `NothingMissing`) is a row of `GapRows`. Both are
sequences of sequences put together, and what is in one is in one of its parts
(`FlatteningHolds`). That is an induction over data; it is proved as a fact about
the least length for which it failed (`FlatteningExists`, from `LeastNumber`). The
provers read neither `SelectSeq` nor `SortSeq`, so the model filters with `Passing` and
lists gaps market by market. `DecidedGapsStay` is about one step and needs no
invariant: only a commit changes gaps, and `GapsAfter` keeps what is there.

What runs say of scores, ranks and confidence is a second invariant, `GradesOK`: each
committed run, and each a session is about to commit, is `Graded`, and is over a
committed snapshot or the one its session imports; each committed snapshot was validated,
the tables took it, and its home market is flagged. Runs are never changed, so the
steps are easy, and the work is in showing that a run is `Graded` when it is computed
(`ReferenceIsGraded`, `ReproductionIsGraded`, `NativeIsGraded`, `ContextualIsGraded`):

* Sums. `SumFunction` is defined by recursion, so it is shown once to be the value of an
  explicit function on the finite subsets of its domain (`SumsExist`, `SumIs`); that larger
  terms give a larger sum (`SumsCompare`) is a fact about the smallest set for which it
  failed. Nothing else is used of sums.
* Ranks. `Before` is a strict total order on the markets with a score (`BetterIsOrder`
  multiplies out three fractions). How many come before a market therefore numbers the
  markets 1 ... n without ties or holes (`AheadGrows`, `ListingIsSorted`): the `CHOOSE` of
  `Listing` has exactly one answer. `RankIsStanding` then follows the pass down the listing:
  where a score ties with the one above, the same markets are better than either
  (`AboveNext`); where it does not, all that come before are better. A wrong position would
  have a first one.
* `UnknownIsNotZero`: the two scores have the same points, and the second a larger weight
  (`UnknownOutscoresZero`). That a native run has points at all needs each percentile to be
  over at least two values, which is what `TooFew` refuses (`PointsAreNatural`).
* `EvidenceRaisesConfidence`: both markets have all the metrics of what the first is covered
  by (`NothingMissed`), hence confidences there that compare as their labels do
  (`EvidenceGrows`, `CompleteCompares`); covering more adds terms that are not negative
  (`ConfidenceGrows`), and the divisor is the weight of the model for both. Labels must
  compare: a market labelled LOW may be measured on more than one labelled HIGH and be less
  confident.
* `ReproducesPublished`: the flag of the home market is what keeps it out of the ranks, so
  those ranked are the document's own, the better ones are those of a smaller published
  rank, and ranks without ties or holes count them (`RankCounts`). That the tables refuse a
  document that ranks its own home market (`BreaksConstraint`) is needed here.
* A contextual run takes base scores of another run, so that `GradesOK` says of every run
  that its scores are points over a positive weight, or missing (`WellScored`). Each handler
  answers with a number or nothing (`HandlerIsNumber`).

### What stays with TLC

* Liveness (`EveryTransactionEnds`, `EveryJobSettles`, `EveryAttemptEnds`): fairness
  and ENABLED are out of the prover's reach.

## 5. Not modelled

* Of discovery: commits between pages and a start page (no caller passes them), similar
  names, trading names, locations, verticals, relationships and other scalars, which
  repeat what a name shows; directly attributed claims, which research writes under
  a registry version that rebuilds do not read; the formats of providers.
* Regular expressions, offsets and canonical forms of documents (a document is its
  phrases); the pruning of stored model outputs; robots rules, politeness delays,
  address and header checks, cohorts of the live crawl.
* Validation of a snapshot document's format, the country table, rounding of scores.
* `abandon_gap`, `identity.append_status` and `reset_stale`: nothing calls them. The
  last would have nothing to do, since no worker commits a RUNNING job
  (`ParkedAtTheLimit`).
* Strategy seeds, read-only endpoints, schema inspection, configuration: configuration,
  reads, or functions of one string.

## 6. Plan

Done: the modules above, the refinement of `DecisionRegister` as a theorem, and proofs
of every safety and action property the passing runs check. Only liveness is left to TLC.

Next: the composition of `ResearchJobs` with `ResearchLedger` for one question: the
attempt a worker makes is the attempt the ledger sees.
