---------------------------- MODULE DiscoveryRun ----------------------------
(***************************************************************************)
(* The commands `discovery run` and `discovery project` and the decisions  *)
(* of reviewers.  A run asks a provider, stores what it offers, resolves   *)
(* the entities it saw against the projection and writes claims; it is one *)
(* transaction, since no caller commits a page.  A rebuild empties the     *)
(* tables of the projection and derives them from the claims again.        *)
(*                                                                         *)
(* Entities, versions and companies are named by what makes them unique.   *)
(* The statements of one decision are one step here, and ResolutionChain's *)
(* in detail; those of rebuild_heads are steps of their own.               *)
(***************************************************************************)
EXTENDS CompanyProjection, Sequences

CONSTANTS
    Runs,          \* processes that execute `discovery run`
    Rebuilds,      \* processes that execute `discovery project`
    Companies,     \* ids a company may get, numbers
    BatchIds,      \* ids that claims may get, numbers
    Providers,     \* [provider -> [identity, tier]], the tier in thousandths
    Contents,      \* a sequence of what records may say, in order of version ids
    PageSize,      \* how many records a search is asked for
    MaxReviews,    \* how many decisions reviewers take
    Situations,    \* what the processes of a behavior are asked to do
    Party(_),      \* the processes that take part in a situation
    Asked(_, _),   \* what a run is asked: [provider, normalizer, market,
                   \* allow_partial, unreachable, offers]
    Reads(_, _)    \* the candidate a normalizer finds in a content, or None

\* Ids are numbers, each content has one place, and the trust in a provider is
\* between 0 and 1 (trust_tier_range).
ASSUME DiscoveryAssumption ==
    /\ Runs \cap Rebuilds = {}
    /\ Companies \subseteq Nat /\ BatchIds \subseteq Nat /\ None \notin Companies
    /\ MaxReviews \in Nat
    /\ Len(Contents) \in Nat
    /\ \A i, j \in 1..Len(Contents) : Contents[i] = Contents[j] => i = j
    /\ \A s \in Situations, r \in Runs : Asked(s, r).provider \in DOMAIN Providers
    /\ \A p \in DOMAIN Providers : Providers[p].tier \in 0..1000

VARIABLES
    situation,   \* which of Situations this is
    evidence,    \* committed entities, versions, bodies, sightings, normalizations
    decisions,   \* committed decisions: [entity, n, kind, company, human]
    batches,     \* committed claims, by the version and decision they were written for
    projection,  \* committed rows of the projection, each with its rebuild
    run,         \* what each run has read and written
    rebuild,     \* what each rebuild has read and written
    reviews      \* decisions reviewers have taken

vars == <<situation, evidence, decisions, batches, projection, run, rebuild, reviews>>

Processes == Runs \cup Rebuilds

Ask(r) == Asked(situation, r)

\* A run before it begins, and after it has been rolled back.
NoRun ==
    [at |-> "idle", left |-> <<>>, next |-> 1, mine |-> {}, wrote |-> {}, versions |-> {},
     plan |-> None, decided |-> {}, cached |-> {}, claimed |-> {}, past |-> {}]

NoRebuild ==
    [at |-> "idle", target |-> {}, dropped |-> {}, found |-> {}, gone |-> {}, locked |-> {},
     heads |-> {}, rows |-> {}, alone |-> TRUE]

Init ==
    /\ situation \in Situations
    /\ evidence = {} /\ decisions = {} /\ batches = {} /\ projection = {}
    /\ run = [r \in Runs |-> NoRun]
    /\ rebuild = [b \in Rebuilds |-> NoRebuild]
    /\ reviews = 0

Over == {"done", "refused", "deadlocked", "crashed"}
IsOpen(p) == p.at \notin Over \cup {"idle"}

Set(r, fields) == run' = [run EXCEPT ![r] = fields]

\* Only what the transaction was, not what it wrote.
RollBack(r, why) == Set(r, [NoRun EXCEPT !.at = why])

-----------------------------------------------------------------------------
(* Ingestion.                                                               *)

Candidate(content, normalizer) ==
    IF Reads(content, normalizer) = None THEN Empty ELSE Reads(content, normalizer)

\* A provider's own id, a key derived from the domain, or the content itself.
EntityOf(provider, record, candidate) ==
    LET identity == Providers[provider].identity
    IN  IF identity = "NATIVE" THEN [provider |-> provider, kind |-> "NATIVE", id |-> record.ext]
        ELSE IF identity = "DERIVED" /\ candidate.domain # None
        THEN [provider |-> provider, kind |-> "DERIVED", id |-> candidate.domain]
        ELSE [provider |-> provider, kind |-> "CONTENT", id |-> record.content]

\* A record that does not parse, or lacks the id its provider promises.
IsIngestible(provider, record) ==
    /\ ~record.broken
    /\ Providers[provider].identity = "NATIVE" => record.ext # None

Key(table, entity, content, of) ==
    [table |-> table, entity |-> entity, content |-> content, of |-> of]

\* The rows of a record in the order of their statements, each INSERT .. ON
\* CONFLICT DO NOTHING.
RowsOf(r, record) ==
    LET normalizer == Ask(r).normalizer
        entity == EntityOf(Ask(r).provider, record, Candidate(record.content, normalizer))
    IN  <<Key("entity", entity, None, None),
          Key("version", entity, record.content, None),
          Key("body", entity, record.content, record.bytes),
          Key("sighting", entity, record.content, r),
          Key("normalization", entity, record.content, normalizer)>>

Visible(r) == evidence \cup run[r].wrote \cup run[r].mine

\* An insert waits for a transaction that has inserted the key and is open.
KeyHolders(r, key) == {s \in Runs \ {r} : key \in run[s].wrote \cup run[s].mine}

\* The decision and the head row of an entity.  A rebuild holds a head row
\* from its deletion on.
MutRebuildHoldsNothing(entity) ==
    {s \in Runs : entity \in run[s].cached}
HeadHolders(entity) ==
    {s \in Runs : entity \in run[s].cached} \cup {b \in Rebuilds : entity \in rebuild[b].locked}

Begin(r) ==
    /\ r \in Party(situation) /\ run[r].at = "idle"
    /\ Set(r, [run[r] EXCEPT !.at = "search",
                  !.past = {d \in decisions : \E e \in decisions : e.entity = d.entity /\ e.n > d.n}])
    /\ UNCHANGED <<situation, evidence, decisions, batches, projection, rebuild, reviews>>

\* One request, for as many records as a page has.
Search(r) ==
    /\ run[r].at = "search" /\ ~Ask(r).unreachable
    /\ LET offers == Ask(r).offers
       IN  Set(r, [run[r] EXCEPT !.at = "ingest",
                      !.left = SubSeq(offers, 1, IF Len(offers) > PageSize THEN PageSize ELSE Len(offers))])
    /\ UNCHANGED <<situation, evidence, decisions, batches, projection, rebuild, reviews>>

\* PARTIAL_FETCH: the gate of resolve_run raises unless the run may go on.
SearchFails(r) ==
    /\ run[r].at = "search" /\ Ask(r).unreachable
    /\ IF Ask(r).allow_partial THEN Set(r, [run[r] EXCEPT !.at = "resolve"]) ELSE RollBack(r, "refused")
    /\ UNCHANGED <<situation, evidence, decisions, batches, projection, rebuild, reviews>>

NextRow(r) == RowsOf(r, Head(run[r].left))[run[r].next]

\* PostgreSQL takes no jsonb that holds a NUL, after the entity is inserted.
IsRejected(r) == Head(run[r].left).unstorable /\ NextRow(r).table = "version"

\* A record error: the rest of the page is unaffected.  One savepoint of the
\* whole record takes back what it has inserted.
MutSavepointPerStatement(r) ==
    [run[r] EXCEPT !.left = Tail(@), !.next = 1, !.mine = {}, !.wrote = @ \cup run[r].mine]
SkipRecord(r) == [run[r] EXCEPT !.left = Tail(@), !.next = 1, !.mine = {}]

Refuse(r) ==
    /\ run[r].at = "ingest" /\ run[r].left # <<>>
    /\ ~IsIngestible(Ask(r).provider, Head(run[r].left)) \/ IsRejected(r)
    /\ Set(r, SkipRecord(r))
    /\ UNCHANGED <<situation, evidence, decisions, batches, projection, rebuild, reviews>>

IsIngesting(r) ==
    run[r].at = "ingest" /\ run[r].left # <<>> /\ IsIngestible(Ask(r).provider, Head(run[r].left))

\* The last row of a record releases its savepoint.
Insert(r) ==
    /\ IsIngesting(r)
    /\ ~IsRejected(r)
    /\ KeyHolders(r, NextRow(r)) = {}
    /\ LET mine == run[r].mine \cup ({NextRow(r)} \ Visible(r))
       IN  IF run[r].next < Len(RowsOf(r, Head(run[r].left)))
             THEN Set(r, [run[r] EXCEPT !.next = @ + 1, !.mine = mine])
             ELSE Set(r, [run[r] EXCEPT !.next = 1, !.left = Tail(@), !.mine = {}, !.wrote = @ \cup mine])
    /\ UNCHANGED <<situation, evidence, decisions, batches, projection, rebuild, reviews>>

\* Every version the run saw, and not only those it stored first.
MutRunCreated(r) ==
    {[entity |-> k.entity, content |-> k.content] : k \in {l \in run[r].wrote : l.table = "version"}}
RunVersions(r) ==
    {[entity |-> k.entity, content |-> k.content] : k \in {l \in run[r].wrote : l.table = "sighting"}}

\* normalize_run finds that ingestion has stored every normalization.
Fetched(r) ==
    /\ run[r].at = "ingest" /\ run[r].left = <<>>
    /\ Set(r, [run[r] EXCEPT !.at = "resolve", !.versions = RunVersions(r)])
    /\ UNCHANGED <<situation, evidence, decisions, batches, projection, rebuild, reviews>>

-----------------------------------------------------------------------------
(* Resolution.                                                              *)

\* The head of an entity nobody has decided about.
Undecided == [entity |-> None, n |-> 0, kind |-> "UNDECIDED", company |-> None, human |-> FALSE]

HeadOf(rows, entity) ==
    LET own == {d \in rows : d.entity = entity}
    IN  IF own = {} THEN Undecided ELSE CHOOSE d \in own : \A e \in own : e.n <= d.n

SeenHead(r, entity) == HeadOf(decisions \cup run[r].decided, entity)

IsSettled(d) == d.kind \notin {"UNDECIDED", "AMBIGUOUS"}

\* Version ids are in the order of Contents, and of entities after that.
Precedes(v, w) ==
    \E i, j \in 1..Len(Contents) : Contents[i] = v.content /\ Contents[j] = w.content /\ i < j

Version(r) == CHOOSE v \in run[r].versions : \A w \in run[r].versions : ~Precedes(w, v)

\* The normalizations, of any normalizer, disagree about the name.
HasCollision(r, entity) ==
    /\ entity.kind = "DERIVED"
    /\ LET stored == {k \in Visible(r) : k.table = "normalization" /\ k.entity = entity}
           names == {Candidate(k.content, k.of).name : k \in stored} \ {None}
       IN  Cardinality(names) > 1

\* Companies the projection gives the domain, or the name.
ByDomain(domain) ==
    IF ~IsIdentityDomain(domain) THEN {}
    ELSE {p.row.company : p \in {q \in projection :
              q.row.table = "domain" /\ q.row.key = domain /\ q.row.says.role = "IDENTITY"}}
ByName(name) ==
    {p.row.company : p \in {q \in projection : q.row.table = "name" /\ q.row.key = name}}

\* An exact name is enough to park a candidate and never enough to match it.
MutParkedWithBest(name) == {"AMBIGUOUS"} \X ByName(name)
Namesake(name) == {<<"AMBIGUOUS", None>>}

\* What resolve concludes about a candidate whose entity is not settled.
Conclusions(r, entity, candidate) ==
    IF candidate.name = None /\ candidate.domain = None THEN {<<"AMBIGUOUS", None>>}
    ELSE IF HasCollision(r, entity) THEN {<<"AMBIGUOUS", None>>}
    ELSE IF ByDomain(candidate.domain) # {}
    THEN {"MATCHED"} \X ByDomain(candidate.domain)
    ELSE IF candidate.name # None /\ ByName(candidate.name) # {} THEN Namesake(candidate.name)
    ELSE {"CREATED_NEW"} \X
             (Companies \ ({d.company : d \in decisions}
                  \cup UNION {{d.company : d \in run[s].decided} : s \in Runs}
                  \cup {run[s].plan.company : s \in {t \in Runs : run[t].at = "write"}}))

Successor(entity, head, conclusion) ==
    [entity |-> entity, n |-> head.n + 1, kind |-> conclusion[1],
     company |-> conclusion[2], human |-> FALSE]

\* A settled head is kept, and so is one that would only be repeated.
Resolve(r) ==
    /\ run[r].at = "resolve" /\ run[r].versions # {}
    /\ LET v == Version(r)
           head == SeenHead(r, v.entity)
           candidate == Candidate(v.content, Ask(r).normalizer)
       IN  IF IsSettled(head) THEN Set(r, [run[r] EXCEPT !.at = "claim", !.plan = head])
           ELSE \E conclusion \in Conclusions(r, v.entity, candidate) :
               IF conclusion = <<head.kind, head.company>>
                 THEN Set(r, [run[r] EXCEPT !.at = "claim", !.plan = head])
                 ELSE Set(r, [run[r] EXCEPT !.at = "write", !.plan = Successor(v.entity, head, conclusion)])
    /\ UNCHANGED <<situation, evidence, decisions, batches, projection, rebuild, reviews>>

\* The decision is inserted, or another one has the place and is adopted; the
\* company minted for the lost one goes.
Write(r) ==
    /\ run[r].at = "write"
    /\ LET plan == run[r].plan
           taken == \E d \in decisions : d.entity = plan.entity /\ d.n = plan.n
           outcome == IF taken THEN HeadOf(decisions, plan.entity) ELSE plan
       IN  /\ HeadHolders(plan.entity) \ {r} = {}
           /\ Set(r, [run[r] EXCEPT !.at = "claim", !.plan = outcome,
                         !.decided = @ \cup ({outcome} \ decisions),
                         !.cached = @ \cup {plan.entity}])
    /\ UNCHANGED <<situation, evidence, decisions, batches, projection, rebuild, reviews>>

Batch(r, id, v, d) ==
    [id |-> id, version |-> v, n |-> d.n, human |-> d.human,
     normalizer |-> Ask(r).normalizer, market |-> Ask(r).market]

IsClaimed(rows, v, d) == \E b \in rows : b.version = v /\ b.n = d.n

NextVersion(r) == [run[r] EXCEPT !.at = "resolve", !.versions = @ \ {Version(r)}, !.plan = None]

\* A candidate the registry refuses takes the whole run with it.
Claim(r) ==
    /\ run[r].at = "claim"
    /\ LET v == Version(r)
           owed == run[r].plan.company # None
                       /\ ~IsClaimed(batches \cup run[r].claimed, v, run[r].plan)
       IN  IF ~owed THEN Set(r, NextVersion(r))
           ELSE IF ~Validates(Candidate(v.content, Ask(r).normalizer).staff) THEN RollBack(r, "refused")
           ELSE \E id \in BatchIds \ ({b.id : b \in batches}
                              \cup UNION {{b.id : b \in run[s].claimed} : s \in Runs}) :
                    Set(r, [NextVersion(r) EXCEPT !.claimed = @ \cup {Batch(r, id, v, run[r].plan)}])
    /\ UNCHANGED <<situation, evidence, decisions, batches, projection, rebuild, reviews>>

Commit(r) ==
    /\ run[r].at = "resolve" /\ run[r].versions = {}
    /\ evidence' = evidence \cup run[r].wrote
    /\ decisions' = decisions \cup run[r].decided
    /\ batches' = batches \cup run[r].claimed
    /\ Set(r, [NoRun EXCEPT !.at = "done", !.past = run[r].past])
    /\ UNCHANGED <<situation, projection, rebuild, reviews>>

Crash(r) ==
    /\ IsOpen(run[r])
    /\ RollBack(r, "crashed")
    /\ UNCHANGED <<situation, evidence, decisions, batches, projection, rebuild, reviews>>

-----------------------------------------------------------------------------
(* Deadlocks.                                                               *)

\* The head rows a rebuild is yet to delete, or to insert without having
\* deleted them.
Wanted(b) ==
    IF rebuild[b].at = "lock" THEN rebuild[b].found \ (rebuild[b].locked \cup rebuild[b].gone)
    ELSE IF rebuild[b].at = "reinsert" THEN {d.entity : d \in rebuild[b].heads} \ rebuild[b].locked
    ELSE {}

\* Whom a process waits for.  A rebuild that waits for the rows of another one
\* closes no cycle: it holds no head rows yet, or the other waits no more.
WaitsFor(p) ==
    IF p \in Rebuilds THEN UNION {HeadHolders(entity) \ {p} : entity \in Wanted(p)}
    ELSE IF IsIngesting(p) THEN KeyHolders(p, NextRow(p))
    ELSE IF run[p].at = "write" THEN HeadHolders(run[p].plan.entity) \ {p}
    ELSE {}

\* Those it waits for wait, directly or not, for the process itself.
IsDeadlocked(p) ==
    \A T \in SUBSET Processes :
        WaitsFor(p) \subseteq T /\ (\A q \in T : WaitsFor(q) \subseteq T) => p \in T

\* PostgreSQL ends one of them.  An ingesting run loses the record, another
\* process everything.
DeadlockVictim(r) ==
    /\ IsDeadlocked(r)
    /\ IF run[r].at = "ingest" THEN Set(r, SkipRecord(r)) ELSE RollBack(r, "refused")
    /\ UNCHANGED <<situation, evidence, decisions, batches, projection, rebuild, reviews>>

-----------------------------------------------------------------------------
(* A reviewer decides about an entity that is stored.                       *)

Review ==
    /\ reviews < MaxReviews
    /\ \E key \in {k \in evidence : k.table = "entity"},
          verdict \in {<<"REJECTED", None>>}
              \cup ({"MATCHED"} \X ({d.company : d \in decisions} \ {None})) :
           /\ HeadHolders(key.entity) = {}
           /\ decisions' = decisions \cup
                  {[Successor(key.entity, HeadOf(decisions, key.entity), verdict)
                       EXCEPT !.human = TRUE]}
    /\ reviews' = reviews + 1
    /\ UNCHANGED <<situation, evidence, batches, projection, run, rebuild>>

-----------------------------------------------------------------------------
(* Rebuilds.                                                                *)

Put(b, fields) == rebuild' = [rebuild EXCEPT ![b] = fields]

BeginRebuild(b) ==
    /\ b \in Party(situation) /\ rebuild[b].at = "idle"
    /\ LET others == {c \in Rebuilds \ {b} : IsOpen(rebuild[c])}
       IN  rebuild' = [c \in Rebuilds |->
               IF c = b THEN [NoRebuild EXCEPT !.at = "delete profiles", !.alone = others = {}]
               ELSE IF c \in others THEN [rebuild[c] EXCEPT !.alone = FALSE]
               ELSE rebuild[c]]
    /\ UNCHANGED <<situation, evidence, decisions, batches, projection, run, reviews>>

\* A DELETE looks once for the rows it will delete ...
StartDelete(b) ==
    /\ rebuild[b].at \in {"delete profiles", "delete others"}
    /\ LET first == rebuild[b].at = "delete profiles"
           tables == Tables[IF first THEN 1 ELSE 2]
       IN  Put(b, [rebuild[b] EXCEPT !.at = IF first THEN "await profiles" ELSE "await others",
                                     !.target = {p \in projection : p.row.table \in tables}])
    /\ UNCHANGED <<situation, evidence, decisions, batches, projection, run, reviews>>

\* ... and waits for the transactions that are deleting them.  Rows another
\* rebuild inserts meanwhile are not among them.
FinishDelete(b) ==
    /\ rebuild[b].at \in {"await profiles", "await others"}
    /\ \A c \in Rebuilds \ {b} : rebuild[b].target \cap rebuild[c].dropped = {}
    /\ Put(b, [rebuild[b] EXCEPT
                  !.at = IF @ = "await profiles" THEN "delete others" ELSE "heads",
                  !.dropped = @ \cup (rebuild[b].target \cap projection),
                  !.target = {}])
    /\ UNCHANGED <<situation, evidence, decisions, batches, projection, run, reviews>>

Entities == {d.entity : d \in decisions}

\* rebuild_heads.  Its DELETE looks once for the head rows too ...
FindHeads(b) ==
    /\ rebuild[b].at = "heads"
    /\ Put(b, [rebuild[b] EXCEPT !.at = "lock", !.found = Entities])
    /\ UNCHANGED <<situation, evidence, decisions, batches, projection, run, reviews>>

\* ... and deletes them one by one, waiting for who has written one.
LockHead(b) ==
    /\ rebuild[b].at = "lock"
    /\ \E entity \in Wanted(b) :
          /\ HeadHolders(entity) = {}
          /\ Put(b, [rebuild[b] EXCEPT !.locked = @ \cup {entity}])
    /\ UNCHANGED <<situation, evidence, decisions, batches, projection, run, reviews>>

\* The rows it deleted are its own to insert.  Decisions of new entities may
\* have been committed since the DELETE began.
SelectHeads(b) ==
    /\ rebuild[b].at = "lock" /\ Wanted(b) = {}
    /\ LET free == Entities \subseteq rebuild[b].locked
       IN  Put(b, [rebuild[b] EXCEPT !.at = IF free THEN "load" ELSE "reinsert",
                      !.heads = {HeadOf(decisions, entity) : entity \in Entities}])
    /\ UNCHANGED <<situation, evidence, decisions, batches, projection, run, reviews>>

\* An entity it did not delete the row of has one already, and nothing catches
\* the IntegrityError.
HeadsClash(b) ==
    /\ rebuild[b].at = "reinsert"
    /\ \E entity \in Wanted(b) : HeadHolders(entity) = {}
    /\ Put(b, [NoRebuild EXCEPT !.at = "refused", !.alone = rebuild[b].alone,
                  !.found = rebuild[b].found, !.heads = rebuild[b].heads])
    /\ UNCHANGED <<situation, evidence, decisions, batches, projection, run, reviews>>

\* Through the head rows of the rebuild, and those of runs that ended since.
Attribution(b) ==
    LET found == {d.entity : d \in rebuild[b].heads}
    IN  {d \in rebuild[b].heads \cup {HeadOf(decisions, e) : e \in Entities \ found} :
            d.company # None}

ClaimsOf(batch, company) ==
    {[id |-> batch.id, key |-> s.key, value |-> s.value, fact |-> s.fact, human |-> batch.human,
      tier |-> Providers[batch.version.entity.provider].tier, company |-> company]
     : s \in Statements(Candidate(batch.version.content, batch.normalizer), batch.market)}

EffectiveClaims(b) ==
    UNION {UNION {ClaimsOf(batch, d.company) :
                     d \in {h \in Attribution(b) : h.entity = batch.version.entity}}
           : batch \in batches}

Load(b) ==
    /\ rebuild[b].at = "load"
    /\ Put(b, [rebuild[b] EXCEPT !.at = "insert",
                  !.rows = {[by |-> b, row |-> row] : row \in Projection(EffectiveClaims(b))}])
    /\ UNCHANGED <<situation, evidence, decisions, batches, projection, run, reviews>>

Clash(rows, others) ==
    \E p \in rows, q \in others : p # q /\ Collide(p.row, q.row)

\* The rows are inserted, unless a constraint of the tables refuses one.
InsertRows(b) ==
    /\ rebuild[b].at = "insert"
    /\ \A c \in Rebuilds \ {b} : rebuild[c].at = "inserted" => ~Clash(rebuild[b].rows, rebuild[c].rows)
    /\ LET refused == \/ Clash(rebuild[b].rows, (projection \ rebuild[b].dropped) \cup rebuild[b].rows)
                      \/ \E p \in rebuild[b].rows : ~IsEnvelope(p.row)
       IN  Put(b, IF refused
                    THEN [NoRebuild EXCEPT !.at = "refused", !.alone = rebuild[b].alone,
                                           !.rows = rebuild[b].rows]
                    ELSE [rebuild[b] EXCEPT !.at = "inserted"])
    /\ UNCHANGED <<situation, evidence, decisions, batches, projection, run, reviews>>

Ended(b, why) == [NoRebuild EXCEPT !.at = why, !.alone = rebuild[b].alone]

\* The head rows it deleted are gone for another DELETE that found them, and
\* those it inserted are none of its own.
CommitRebuild(b) ==
    /\ rebuild[b].at = "inserted"
    /\ projection' = (projection \ rebuild[b].dropped) \cup rebuild[b].rows
    /\ rebuild' = [c \in Rebuilds |->
           IF c = b THEN Ended(b, "done")
           ELSE IF rebuild[c].at = "lock" THEN [rebuild[c] EXCEPT !.gone = @ \cup rebuild[b].locked]
           ELSE rebuild[c]]
    /\ UNCHANGED <<situation, evidence, decisions, batches, run, reviews>>

RebuildVictim(b) ==
    /\ IsDeadlocked(b)
    /\ Put(b, Ended(b, "deadlocked"))
    /\ UNCHANGED <<situation, evidence, decisions, batches, projection, run, reviews>>

CrashRebuild(b) ==
    /\ IsOpen(rebuild[b])
    /\ Put(b, Ended(b, "crashed"))
    /\ UNCHANGED <<situation, evidence, decisions, batches, projection, run, reviews>>

-----------------------------------------------------------------------------
RunStep(r) ==
    \/ Begin(r) \/ Search(r) \/ SearchFails(r) \/ Refuse(r) \/ Insert(r) \/ Fetched(r)
    \/ Resolve(r) \/ Write(r) \/ Claim(r) \/ Commit(r) \/ DeadlockVictim(r) \/ Crash(r)

RebuildStep(b) ==
    \/ BeginRebuild(b) \/ StartDelete(b) \/ FinishDelete(b)
    \/ FindHeads(b) \/ LockHead(b) \/ SelectHeads(b) \/ HeadsClash(b)
    \/ Load(b) \/ InsertRows(b) \/ CommitRebuild(b) \/ RebuildVictim(b) \/ CrashRebuild(b)

Next ==
    \/ \E r \in Runs : RunStep(r)
    \/ \E b \in Rebuilds : RebuildStep(b)
    \/ Review

Spec == Init /\ [][Next]_vars

-----------------------------------------------------------------------------
(* Properties.                                                              *)

Kinds == {"MATCHED", "CREATED_NEW", "AMBIGUOUS", "REJECTED"}

\* Type invariant.  A decision has a company unless it leaves its entity
\* unresolved: company_required_unless_unresolved of the decisions' table.
TypeOK ==
    /\ situation \in Situations
    /\ \A k \in evidence : k.table \in {"entity", "version", "body", "sighting", "normalization"}
    /\ \A d \in decisions :
          /\ d.kind \in Kinds /\ d.n \in 1..Cardinality(decisions)
          /\ d.company \in Companies \cup {None}
          /\ d.company = None <=> d.kind \in {"AMBIGUOUS", "REJECTED"}
    /\ \A b \in batches : b.id \in BatchIds
    /\ \A p \in projection : p.by \in Rebuilds /\ p.row.company \in Companies
    /\ \A r \in Runs : run[r].at \in
          {"idle", "search", "ingest", "resolve", "write", "claim"} \cup Over
    /\ reviews \in 0..MaxReviews

Stored(table, k) == {l \in evidence : l.table = table /\ l.entity = k.entity /\ l.content = k.content}

\* What is committed of a record is all of it, although another run may have
\* stored half of it, or PostgreSQL have refused it after its entity: a
\* version has its entity, bytes, a sighting and an interpretation, and claims
\* are made of versions that are stored (ingest_record and its savepoint).
EvidenceIsWhole ==
    /\ \A k \in evidence :
          /\ k.table # "entity" => Stored("version", k) # {}
          /\ k.table = "version" =>
                \A table \in {"body", "sighting", "normalization"} : Stored(table, k) # {}
          /\ \E l \in evidence : l.table = "version" /\ l.entity = k.entity
          /\ Key("entity", k.entity, None, None) \in evidence
    /\ \A b \in batches : Stored("normalization", b.version) # {}

\* A run that completed leaves nothing it saw behind: of each version it
\* sighted, stored by it or by another run before, a decision that was in force
\* when the run began or later either names no company or is claimed under.
NothingIsStranded ==
    \A k \in {l \in evidence : l.table = "sighting" /\ run[l.of].at = "done"} :
        \E d \in decisions \ run[k.of].past :
            /\ d.entity = k.entity
            /\ \/ d.company = None
               \/ \E b \in batches : b.version.entity = k.entity
                                    /\ b.version.content = k.content /\ b.n = d.n

\* A rebuild that met no other rebuild is refused by a constraint for one of
\* two reasons: an employee range of its rows ends before it begins
\* (employee_envelope_order), or an entity nobody had decided about when it
\* looked for the head rows was decided about before it selected the heads, and
\* has a head row already (rebuild_heads).  Its rows never collide, a domain two
\* companies claim as their identity included.  (A deadlock with runs over head
\* rows, or a crash, may end it as well.)
LoneRefusalIsExplained ==
    \A b \in Rebuilds :
        rebuild[b].at = "refused" /\ rebuild[b].alone
            => \/ \E p \in rebuild[b].rows : ~IsEnvelope(p.row)
               \/ \E d \in rebuild[b].heads : d.entity \notin rebuild[b].found

\* When a rebuild commits, the claims of every entity it found decided are
\* rows of the company that entity is resolved to at that very moment, and of
\* no other: nobody has decided since the rebuild read the heads.
AttributionIsCurrent ==
    [][\A b \in Rebuilds :
          rebuild[b].at = "inserted" /\ rebuild'[b].at = "done" /\ rebuild[b].alone =>
              \A d \in rebuild[b].heads, p \in projection', c \in batches :
                  c.version.entity = d.entity /\ c.id \in p.row.from
                      => p.row.company = HeadOf(decisions, d.entity).company]_vars

-----------------------------------------------------------------------------
(* Statements of the repository's documentation that do not hold: see the   *)
(* README.                                                                  *)

\* Evidence that was stored is kept: runs.py:8.
PaidEvidenceIsKept ==
    [][\A r \in Runs : run'[r].at = "refused" => run[r].wrote \subseteq evidence']_vars

\* A run that completed its fetch has seen every record on offer: runs.py:9.
FetchIsComplete ==
    \A r \in Runs : run[r].at = "done" /\ ~Ask(r).unreachable =>
        \A i \in 1..Len(Ask(r).offers) :
            IsIngestible(Ask(r).provider, Ask(r).offers[i]) /\ ~Ask(r).offers[i].unstorable =>
                \E k \in evidence : /\ k.table = "sighting" /\ k.of = r
                                    /\ k.content = Ask(r).offers[i].content

\* Loading what is stored never makes a rebuild fail.
RebuildNeverRefused ==
    \A b \in Rebuilds : rebuild[b].alone => rebuild[b].at # "refused"

\* A key shown to cover two organizations matches nothing: resolution.py:232.
CollidersAreParked ==
    \A b \in batches : b.version.entity.kind = "DERIVED" =>
        Cardinality({Candidate(k.content, k.of).name :
                        k \in {l \in evidence : l.table = "normalization"
                                                 /\ l.entity = b.version.entity}} \ {None}) <= 1

\* A claim contributes to no company its entity is not resolved to, with or
\* without overlapping rebuilds: projection.py:155.
ClaimsProjectOnce ==
    \A b \in batches :
        Cardinality({p.row.company : p \in {q \in projection : b.id \in q.row.from}}) <= 1
=============================================================================
