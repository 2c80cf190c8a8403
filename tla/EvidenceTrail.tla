-------------------------- MODULE EvidenceTrail ---------------------------
(* How a research attempt turns web pages into evidence and claims: what it  *)
(* retrieves, the bodies, artifacts, texts and extractions it shares with    *)
(* every other attempt, the evidence it cites, and the retention command     *)
(* that prunes payloads meanwhile.  An attempt is one transaction; the rows  *)
(* it shares are unique, so it takes them one at a time and waits for an     *)
(* uncommitted one.                                                          *)
EXTENDS Corroboration, DocumentReading, SequencesExt

CONSTANTS
    Attempts,      \* research attempts, each run once
    Company,       \* the company an attempt is about
    Plan,          \* the sources it discovers, best candidates first
    Conditional,   \* whether it asks only for what has changed
    Budget,        \* the requests it may make
    Extractors,    \* the extractors deployed, in order
    Sources,       \* normalized locators
    Website,       \* what a source may answer: a body, a failure, another source
    Document,      \* what a body says, its media type, its artifact and the
                   \* sources it declares to be itself
    Publisher,     \* the publisher of a source
    Tier,          \* the trust tier of its class, in percent
    Domain,        \* its registrable domain
    Tagged,        \* sources that send a validator with their bodies
    Declared,      \* the content type a source declares
    BodyHorizon,   \* ages after which a body of a declared type is pruned
    TextHorizon,   \* age after which a text is pruned
    PruneDates,    \* the dates the retention command is given
    MaxChanges,    \* page changes explored
    MaxVersions    \* versions of the extractors explored

VARIABLES
    page,      \* what each source answers now: <<"body", b>>, <<"fails", how>>
               \* or <<"redirects", s>>
    changes,   \* page changes so far
    version,   \* the version of the extractors deployed
    clock,     \* one tick per attempt begun
    db,        \* committed rows
    pruned,    \* payloads removed
    txn        \* the transaction of each attempt

\* Pages answer with documents, refusals and other sources, which do not redirect
\* themselves; attempts plan to read sources; confidences are numbers, and so are
\* publishers and artifacts, in their sort order; sources and bodies are finitely many.
ASSUME TrailAssumption ==
    /\ \A s \in Sources :
          /\ 1 \in DOMAIN Website[s]
          /\ \A answer \in ToSet(Website[s]) :
                \/ answer[1] = "body" /\ answer[2] \in DOMAIN Document
                \/ answer[1] = "fails" /\ answer[2] # "OK"
                \/ /\ answer[1] = "redirects" /\ answer[2] \in Sources
                   /\ \A next \in ToSet(Website[answer[2]]) : next[1] # "redirects"
    /\ \A b \in DOMAIN Document : Document[b].declares \in Seq(ToSet(Document[b].declares))
    /\ \A a \in Attempts : Plan[a] \in Seq(Sources)
    /\ Extractors \in Seq(ToSet(Extractors))
    /\ \A x \in ToSet(Extractors) : x.confidence \in Nat
    /\ MaxVersions \in Nat \ {0}
    /\ None \notin {"R-DISPATCH-001", "divergence"} /\ None \notin Int
    /\ IsFiniteSet(Sources) /\ \A s \in Sources : Publisher[s] \in Int
    /\ IsFiniteSet(DOMAIN Document) /\ \A b \in DOMAIN Document : Document[b].artifact \in Int

vars == <<page, changes, version, clock, db, pruned, txn>>

NoRows == [rows |-> {}, bodies |-> {}, fetches |-> {}, extractions |-> {}, usages |-> {},
           evidence |-> {}, candidates |-> {}, claims |-> {}, links |-> {}, edges |-> {}]

Idle == [stage |-> "idle", at |-> 0, version |-> 0, plan |-> <<>>, todo |-> <<>>, waiting |-> FALSE,
         got |-> <<>>, blank |-> {}, observed |-> {}, failed |-> FALSE, own |-> NoRows,
         outcome |-> None]

Init ==
    /\ page = [s \in Sources |-> Website[s][1]]
    /\ changes = 0
    /\ version = 1
    /\ clock = 0
    /\ db = NoRows
    /\ pruned = {}
    /\ txn = [a \in Attempts |-> Idle]

-----------------------------------------------------------------------------
(* What a transaction sees: what is committed, and what it wrote itself.     *)

Seen(a, table) == db[table] \cup txn[a].own[table]

\* Mutant of HeldByAnother: nobody waits at a unique index.
MutNobodyHolds(a, row) == FALSE

HeldByAnother(a, row) == \E b \in Attempts \ {a} : row \in txn[b].own.rows

Ended(a, outcome) == [Idle EXCEPT !.stage = "done", !.outcome = outcome]

Set(a, fields) == txn' = [txn EXCEPT ![a] = fields]

Abort(a, outcome) ==
    /\ Set(a, Ended(a, outcome))
    /\ UNCHANGED <<page, changes, version, clock, db, pruned>>

\* A row to insert: its unique key and, from the body on, the retrieval it is
\* derived from.
SourceRow(s) == [key |-> <<"source", s>>]
BodyRow(got) == [key |-> <<"body", got.body>>, got |-> got]

\* The derivation and the text of a body are keyed by the body: whoever holds
\* the body, or finds it committed, meets nobody there.
ArtifactRow(got) == [key |-> <<"artifact", Document[got.body].artifact>>, got |-> got]

\* A sampled contract gets an execution slot of its own.
ExtractionId(a, b, x) ==
    [body |-> b, extractor |-> x.id, version |-> txn[a].version,
     slot |-> IF x.sampled THEN a ELSE None, scope |-> {}]

ExtractionRow(a, got, x) ==
    [key |-> <<"extraction", ExtractionId(a, got.body, x)>>, got |-> got, extractor |-> x]

-----------------------------------------------------------------------------
(* Discovery and retrieval.                                                  *)

\* One question per company, executed by one worker at a time.
Begin(a) ==
    /\ txn[a].stage = "idle"
    /\ \A b \in Attempts : Company[b] = Company[a] => txn[b].stage \in {"idle", "done"}
    /\ clock' = clock + 1
    /\ Set(a, [Idle EXCEPT !.stage = "fetching", !.at = clock + 1,
                           !.version = version, !.plan = Plan[a],
                           !.todo = [i \in DOMAIN Plan[a] |-> SourceRow(Plan[a][i])]])
    /\ UNCHANGED <<page, changes, version, db, pruned>>

\* The latest retrieval of the source that yielded bytes, by anybody.
LastSuccess(a, s) ==
    {f \in Seen(a, "fetches") :
        /\ f.source = s /\ f.outcome = "OK"
        /\ \A g \in Seen(a, "fetches") : g.source = s /\ g.outcome = "OK" => g.at <= f.at}

\* A redirect is followed; its target answers for the source.
Redirects(s) == page[s][1] = "redirects"
Answering(s) == IF Redirects(s) THEN page[s][2] ELSE s
Answer(s) == page[Answering(s)]

Validated(a, s) ==
    {f \in LastSuccess(a, s) :
        Conditional[a] /\ Answering(s) \in Tagged /\ Answer(s) = <<"body", f.body>>}

Outcome(a, s) ==
    IF Answer(s)[1] # "body" THEN Answer(s)[2] ELSE IF Validated(a, s) # {} THEN "NOT_MODIFIED" ELSE "OK"

Fetched(a, s) ==
    [source |-> s, attempt |-> a, at |-> txn[a].at, outcome |-> Outcome(a, s),
     body |-> IF Answer(s)[1] = "body" THEN Answer(s)[2] ELSE None, declared |-> Declared[Answering(s)]]

Edge(a, kind, from, to) == [kind |-> kind, from |-> from, to |-> to, attempt |-> a]

RedirectEdges(a, s) ==
    IF Redirects(s) THEN {Edge(a, "REDIRECTS_TO", s, Answering(s))} ELSE {}

\* A request for the source and one for the target of a redirect.
Spent(a) ==
    Cardinality(txn[a].own.fetches) + Cardinality({e \in txn[a].own.edges : e.kind = "REDIRECTS_TO"})

Fetch(a) ==
    /\ txn[a].stage = "fetching" /\ txn[a].todo = <<>> /\ txn[a].plan # <<>>
    /\ Spent(a) < Budget[a]
    /\ LET s == Head(txn[a].plan)
           got == IF Outcome(a, s) = "OK" THEN <<[source |-> s, body |-> Answer(s)[2]]>> ELSE <<>>
           target == IF Redirects(s) THEN <<SourceRow(Answering(s))>> ELSE <<>>
           own == [txn[a].own EXCEPT !.fetches = @ \cup {Fetched(a, s)},
                                     !.edges = @ \cup RedirectEdges(a, s)]
       IN  Set(a, [txn[a] EXCEPT !.plan = Tail(@),
                                 !.todo = [i \in DOMAIN got |-> BodyRow(got[i])] \o target,
                                 !.got = @ \o got,
                                 !.failed = @ \/ Answer(s)[1] # "body",
                                 !.own = own])
    /\ UNCHANGED <<page, changes, version, clock, db, pruned>>

RowsToRead(a, got) ==
    LET asked(x) == IF x.media = Document[got.body].media THEN <<ExtractionRow(a, got, x)>> ELSE <<>>
    IN  <<ArtifactRow(got)>> \o FlattenSeq([i \in DOMAIN Extractors |-> asked(Extractors[i])])

\* A body that declares a canonical address or a translation names a source.
DeclaredRows(got) ==
    LET named(d) == IF d.source # got.source THEN <<SourceRow(d.source)>> ELSE <<>>
        declared == Document[got.body].declares
    IN  FlattenSeq([i \in DOMAIN declared |-> named(declared[i])])

EndFetching(a) ==
    /\ txn[a].stage = "fetching" /\ txn[a].todo = <<>>
    /\ txn[a].plan = <<>> \/ Spent(a) >= Budget[a]
    /\ LET got == txn[a].got
       IN  Set(a, [txn[a] EXCEPT !.stage = "extracting",
                                 !.plan = <<>>,
                                 !.todo = FlattenSeq([i \in DOMAIN got |-> RowsToRead(a, got[i])])
                                          \o FlattenSeq([i \in DOMAIN got |-> DeclaredRows(got[i])])])
    /\ UNCHANGED <<page, changes, version, clock, db, pruned>>

-----------------------------------------------------------------------------
(* Reading.                                                                  *)

\* A text retained by nobody reads as the empty text.
TextRead(a, b) == IF b \in txn[a].blank THEN Blank(Document[b]) ELSE Document[b]

Stored(a, id) == CHOOSE e \in Seen(a, "extractions") : e.id = id

\* Evidence for every observation; what waits does so for a reviewer, the rest
\* is to be asserted.
Citing(a, row, said, role, waits) ==
    LET cited(o) == [extraction |-> row.key[2], source |-> row.got.source, attempt |-> a,
                     body |-> row.got.body, span |-> o.span]
        found == {[says |-> o, evidence |-> cited(o)] : o \in said}
        used == [attempt |-> a, extraction |-> row.key[2], role |-> role]
        own == [txn[a].own EXCEPT !.usages = @ \cup {used},
                                  !.evidence = @ \cup {f.evidence : f \in found},
                                  !.candidates = @ \cup (IF waits THEN found ELSE {})]
    IN  [txn[a] EXCEPT !.todo = Tail(@), !.waiting = FALSE, !.own = own,
                       !.observed = @ \cup (IF waits THEN {} ELSE found)]

MustWait(x) == x.sampled \/ x.confidence < 60

\* Mutant of Cite: a reading that is reused cites nothing.
MutOnlyNewReadings(a, row, said, role) ==
    Citing(a, row, IF role = "CREATED" THEN said ELSE {}, role, MustWait(row.extractor))

\* Mutant of Cite: what a sampled contract read is asserted.
MutSampledAsserts(a, row, said, role) == Citing(a, row, said, role, FALSE)

\* Whoever made the reading.
Cite(a, row, said, role) == Citing(a, row, said, role, MustWait(row.extractor))

\* An extraction is selected first, then inserted without ON CONFLICT.
Extract(a, row) ==
    LET id == row.key[2]
        says == Reading(row.extractor, TextRead(a, row.got.body))
        created == Cite(a, row, says, "CREATED")
        own == [created.own EXCEPT !.rows = @ \cup {row.key},
                                   !.extractions = @ \cup {[id |-> id, says |-> says]}]
    IN  IF row.key \in Seen(a, "rows")
        THEN Set(a, IF txn[a].waiting THEN Ended(a, "integrity")
                    ELSE Cite(a, row, Stored(a, id).says, "REUSED"))
        ELSE Set(a, IF Raises(row.extractor, TextRead(a, row.got.body)) THEN Ended(a, "raised")
                    ELSE [created EXCEPT !.own = own])

\* The other shared rows are inserted ON CONFLICT DO NOTHING and read again.
Share(a, row) ==
    LET stored == IF row.key[1] = "body" /\ row.key \notin Seen(a, "rows")
                  THEN {[body |-> row.got.body, at |-> txn[a].at]} ELSE {}
        emptied == IF row.key[1] = "artifact" /\ <<"text", row.got.body>> \in pruned
                   THEN {row.got.body} ELSE {}
        own == [txn[a].own EXCEPT !.rows = @ \cup ({row.key} \ db.rows), !.bodies = @ \cup stored]
    IN  Set(a, [txn[a] EXCEPT !.todo = Tail(@), !.waiting = FALSE, !.own = own,
                              !.blank = @ \cup emptied])

Insert(a) ==
    /\ txn[a].todo # <<>>
    /\ LET row == Head(txn[a].todo)
       IN  IF row.key \notin Seen(a, "rows") /\ HeldByAnother(a, row.key)
           THEN ~txn[a].waiting /\ Set(a, [txn[a] EXCEPT !.waiting = TRUE])
           ELSE IF row.key[1] = "extraction" THEN Extract(a, row) ELSE Share(a, row)
    /\ UNCHANGED <<page, changes, version, clock, db, pruned>>

-----------------------------------------------------------------------------
(* Relating sources and asserting claims.                                    *)

Pairs(a) ==
    {p \in ToSet(txn[a].got) \X ToSet(txn[a].got) : p[1].source < p[2].source}

MirrorEdges(a) ==
    {Edge(a, "MIRROR_CANDIDATE", p[1].source, p[2].source) :
        p \in {q \in Pairs(a) : /\ Document[q[1].body].artifact = Document[q[2].body].artifact
                                /\ Domain[q[1].source] # Domain[q[2].source]}}

DeclaredEdges(a) ==
    UNION {{Edge(a, d.kind, g.source, d.source) :
               d \in {e \in ToSet(Document[g.body].declares) : e.source # g.source}} :
           g \in ToSet(txn[a].got)}

Origin(e) == <<e.source, Document[e.body].artifact>>
Voice(e) == <<Publisher[e.source], Document[e.body].artifact>>

Voices(evidence) == MaximumMatching({Voice(e) : e \in evidence})

Derived(fact, evidence, inferred) ==
    Confidence(fact, {Tier[e.source] : e \in evidence}, Voices(evidence), inferred)

\* Mutant of Fingerprint: the lineage is the documents alone.
MutByDocument(company, says, evidence, rule) ==
    [company |-> company, key |-> says.key, value |-> says.value, unit |-> says.unit,
     fact |-> says.fact, rule |-> rule, lineage |-> {Document[e.body].artifact : e \in evidence}]

\* A claim is one assertion from one evidence lineage.
Fingerprint(company, says, evidence, rule) ==
    [company |-> company, key |-> says.key, value |-> says.value, unit |-> says.unit,
     fact |-> says.fact, rule |-> rule, lineage |-> {Origin(e) : e \in evidence}]

LinkedTo(tables, id) == {l.evidence : l \in {k \in tables.links : k.claim = id}}

\* What is found is grouped by value and by lineage.
Assertions(company, found) ==
    LET group(f) == {g \in found : /\ g.says.key = f.says.key /\ g.says.value = f.says.value
                                   /\ g.says.unit = f.says.unit /\ g.says.fact = f.says.fact
                                   /\ Origin(g.evidence) = Origin(f.evidence)}
    IN  {[id |-> Fingerprint(company, f.says, {g.evidence : g \in group(f)}, None),
          evidence |-> {g.evidence : g \in group(f)}] : f \in found}

\* The claims and links there are once the assertions are made.  Confidence is
\* derived when a claim is created and never rewritten.
AfterAsserting(tables, assertions) ==
    LET known == {c.id : c \in tables.claims}
        new == {s \in assertions : s.id \notin known}
        created == {[id |-> s.id,
                     confidence |-> Derived(s.id.fact, s.evidence, s.id.rule # None)] : s \in new}
        linked == UNION {{[claim |-> s.id, evidence |-> e] : e \in s.evidence} : s \in assertions}
    IN  [tables EXCEPT !.claims = @ \cup created, !.links = @ \cup linked]

\* The guard on a claim that gained a link.
Diverges(tables, assertions) ==
    \E c \in tables.claims :
        /\ c.id \in {s.id : s \in assertions}
        /\ c.confidence # Derived(c.id.fact, LinkedTo(tables, c.id), c.id.rule # None)

\* R-DISPATCH-001: emergency service in several locations.
Inferred(company, tables) ==
    LET inputs(key) == {c.id : c \in {d \in tables.claims : /\ d.id.company = company
                                       /\ d.id.key = key /\ Dispatches(d.id)}}
        both == inputs("emergency_service") \cup inputs("branch_count")
        evidence == UNION {LinkedTo(tables, id) : id \in both}
        says == [key |-> "dispatch_centralization", value |-> <<"LIKELY_REQUIRED", Nothing>>,
                 unit |-> Nothing, fact |-> "INFERENCE"]
    IN  IF inputs("emergency_service") = {} \/ inputs("branch_count") = {} THEN {}
        ELSE {[id |-> Fingerprint(company, says, evidence, "R-DISPATCH-001"), evidence |-> evidence]}

Together(a) == [table \in DOMAIN NoRows |-> Seen(a, table)]

AssertClaims(a) ==
    /\ txn[a].stage = "extracting" /\ txn[a].todo = <<>>
    /\ LET assertions == Assertions(Company[a], txn[a].observed)
           asserted == AfterAsserting(Together(a), assertions)
           inferred == AfterAsserting(asserted, Inferred(Company[a], asserted))
           own == [txn[a].own EXCEPT !.edges = @ \cup DeclaredEdges(a) \cup MirrorEdges(a),
                                     !.claims = inferred.claims \ db.claims,
                                     !.links = inferred.links \ db.links]
       IN  Set(a, IF Diverges(inferred, assertions \cup Inferred(Company[a], asserted))
                  THEN Ended(a, "divergence")
                  ELSE [txn[a] EXCEPT !.stage = "asserted", !.own = own])
    /\ UNCHANGED <<page, changes, version, clock, db, pruned>>

Commit(a) ==
    /\ txn[a].stage = "asserted"
    /\ db' = Together(a)
    /\ Set(a, Ended(a, IF txn[a].failed THEN "partial" ELSE "completed"))
    /\ UNCHANGED <<page, changes, version, clock, pruned>>

-----------------------------------------------------------------------------
(* A reviewer confirms a candidate: a human extraction of that observation on *)
(* that retrieval, its evidence and its claim.                               *)

HumanId(c) ==
    [body |-> c.evidence.body, extractor |-> "analyst_confirmation", version |-> 2, slot |-> None,
     scope |-> {<<c.says, c.evidence.source, c.evidence.attempt>>}]

Confirm(c) ==
    LET evidence == [c.evidence EXCEPT !.extraction = HumanId(c)]
        company == Company[c.evidence.attempt]
        assertion == [id |-> Fingerprint(company, c.says, {evidence}, None), evidence |-> {evidence}]
        confirmed == AfterAsserting(
            [db EXCEPT !.extractions = @ \cup {[id |-> HumanId(c), says |-> {c.says}]},
                       !.evidence = @ \cup {evidence}], {assertion})
    IN  /\ \A e \in db.extractions : e.id # HumanId(c)
        /\ \A a \in Attempts : \A claim \in txn[a].own.claims : claim.id # assertion.id
        /\ ~Diverges(confirmed, {assertion})
        /\ db' = confirmed
        /\ UNCHANGED <<page, changes, version, clock, pruned, txn>>

-----------------------------------------------------------------------------
(* Retention, faults and the world.                                          *)

\* The age of a body is measured against the horizon of the type that one of
\* its retrievals declared, whichever the query returns first.
Expired(body, asOf) ==
    {f \in db.fetches : f.body = body.body /\ body.at + BodyHorizon[f.declared] < asOf}

\* The command plans and prunes in one transaction; nobody else updates a payload.
Prune(asOf) ==
    LET retained == {b \in db.bodies : <<"body", b.body>> \notin pruned}
        may == {b \in retained : Expired(b, asOf) # {}}
        must == {b \in may : Expired(b, asOf) = {f \in db.fetches : f.body = b.body}}
        texts == {<<"text", b.body>> : b \in {c \in db.bodies : c.at + TextHorizon < asOf}}
    IN  /\ \E chosen \in SUBSET may :
            /\ must \subseteq chosen
            /\ pruned' = pruned \cup texts \cup {<<"body", b.body>> : b \in chosen}
        /\ UNCHANGED <<page, changes, version, clock, db, txn>>

WaitsFor(a, b) ==
    txn[a].waiting /\ a # b /\ Head(txn[a].todo).key \in txn[b].own.rows

\* Mutant of InWaitCycle: a deadlock goes unnoticed.
MutUnnoticed(a) == FALSE

InWaitCycle(a) ==
    \E S \in SUBSET Attempts : a \in S /\ \A b \in S : \E c \in S : WaitsFor(b, c)

DeadlockVictim(a) == InWaitCycle(a) /\ Abort(a, "deadlock")

Crash(a) == txn[a].stage \notin {"idle", "done"} /\ Abort(a, "crashed")

PageChanges(s) ==
    /\ changes < MaxChanges
    /\ \E i \in DOMAIN Website[s] :
        Website[s][i] # page[s] /\ page' = [page EXCEPT ![s] = Website[s][i]]
    /\ changes' = changes + 1
    /\ UNCHANGED <<version, clock, db, pruned, txn>>

Deploy ==
    /\ version < MaxVersions
    /\ version' = version + 1
    /\ UNCHANGED <<page, changes, clock, db, pruned, txn>>

Step(a) ==
    Fetch(a) \/ EndFetching(a) \/ Insert(a) \/ AssertClaims(a) \/ Commit(a) \/ DeadlockVictim(a)

Next ==
    \/ \E a \in Attempts : Begin(a) \/ Step(a) \/ Crash(a)
    \/ \E c \in db.candidates : Confirm(c)
    \/ \E asOf \in PruneDates : Prune(asOf)
    \/ \E s \in Sources : PageChanges(s)
    \/ Deploy

Spec == Init /\ [][Next]_vars

\* An attempt once begun goes on; nothing else is obliged to happen.
FairSpec == Spec /\ \A a \in Attempts : WF_vars(Step(a))
-----------------------------------------------------------------------------
(* Properties.                                                               *)

Outcomes == {None, "completed", "partial", "crashed", "deadlock", "integrity", "raised", "divergence"}

\* Every variable stays in its domain; a row is held by one attempt and not
\* committed; whatever is committed refers to committed rows.
TypeOK ==
    /\ \A s \in Sources : page[s] \in ToSet(Website[s])
    /\ clock \in Nat /\ version \in 1..MaxVersions
    /\ pruned \subseteq ({"body", "text"} \X DOMAIN Document)
    /\ \A a \in Attempts : /\ txn[a].outcome \in Outcomes
                          /\ \A row \in txn[a].own.rows : row \notin db.rows /\ ~HeldByAnother(a, row)
    /\ \A f \in db.fetches : f.body # None => \E b \in db.bodies : b.body = f.body
    /\ \A e \in db.evidence : /\ \E x \in db.extractions : x.id = e.extraction /\ x.id.body = e.body
                             /\ \E f \in db.fetches : /\ f.source = e.source /\ f.attempt = e.attempt
                                                     /\ f.body = e.body

EvidenceFor(company, key) ==
    UNION {LinkedTo(db, c.id) : c \in {d \in db.claims : d.id.company = company /\ d.id.key = key}}

\* The count of voices behind what is known of an attribute is the size of the
\* largest set of evidence in which no publisher and no document occurs twice,
\* whatever order the rows come in (independent_publisher_count).
VoicesAreWitnesses ==
    \A c \in db.claims :
        LET edges == {Voice(e) : e \in EvidenceFor(c.id.company, c.id.key)}
        IN  MaximumMatching(edges) = LargestIndependent(edges)

\* No attempt finds that new evidence would change a confidence already stored,
\* and what is stored is what the links derive (_assert_confidence_still_holds).
ConfidenceStands ==
    /\ \A a \in Attempts : txn[a].outcome # "divergence"
    /\ \A c \in db.claims : c.confidence = Derived(c.id.fact, LinkedTo(db, c.id), c.id.rule # None)

Used(f, x) ==
    {u.extraction : u \in {v \in db.usages : /\ v.attempt = f.attempt /\ v.extraction.body = f.body
                                             /\ v.extraction.extractor = x.id}}

\* Whatever an extractor reads in a body is cited for every retrieval of it, by
\* whichever attempt and from whichever source, also where the reading was made
\* by another attempt (run_extraction, create_evidence_item).
RetrievalsAreCited ==
    \A f \in db.fetches : f.outcome = "OK" =>
        \A x \in ToSet(Extractors) : x.media = Document[f.body].media =>
            \E id \in Used(f, x) : \E r \in db.extractions : r.id = id
                /\ \A o \in r.says : \E e \in db.evidence :
                       /\ e.extraction = id /\ e.source = f.source /\ e.attempt = f.attempt
                       /\ e.span = o.span

\* A claim rests on what an extractor may assert, or on a reviewer who confirmed
\* that very reading of that very retrieval (_extract, record_human_extraction).
ClaimsAreAccountable ==
    \A l \in db.links :
        \/ \E x \in ToSet(Extractors) : /\ x.id = l.evidence.extraction.extractor
                                        /\ ~x.sampled /\ x.confidence >= 60
        \/ \E c \in db.candidates : /\ l.evidence.extraction = HumanId(c)
                                    /\ l.evidence = [c.evidence EXCEPT !.extraction = HumanId(c)]
                                    /\ l.claim.rule = None => c.says.key = l.claim.key

\* Every attempt that began ends.
EveryAttemptEnds == \A a \in Attempts : txn[a].stage \notin {"idle", "done"} ~> txn[a].stage = "done"

\* No extraction is an empty derivation that looks like a successful one
\* (retention.py:50-55).
NothingIsReadFromNothing ==
    \A r \in db.extractions : \A x \in ToSet(Extractors) :
        x.id = r.id.extractor => r.says = Reading(x, Document[r.id.body])

\* A pruned body is recoverable by fetching the page again while it exists
\* (M3_OPERATIONAL_RESEARCH_DESIGN.md:1431).
RefetchRecovers ==
    [][\A f \in db'.fetches \ db.fetches : f.outcome = "OK" => <<"body", f.body>> \notin pruned']_vars

\* Attempts that meet on a document converge, as they do on a source
\* (acquisition.py:54).
AttemptsConverge == \A a \in Attempts : txn[a].outcome \notin {"integrity", "deadlock"}

\* An attempt that finds a page unmodified has nothing to re-read (pipeline.py:477).
UnmodifiedWasRead ==
    \A f \in db.fetches : f.outcome = "NOT_MODIFIED" =>
        \E g \in db.fetches : /\ g.outcome = "OK" /\ g.body = f.body /\ g.source = f.source
                             /\ Company[g.attempt] = Company[f.attempt]

=============================================================================
