-------------------------- MODULE ResolutionChain --------------------------
(***************************************************************************)
(* Entity resolution of the discovery subsystem: the append-only chain of  *)
(* decisions that says which canonical company a provider entity is, the   *)
(* head cache kept beside it, and the claims written under a decision.     *)
(*                                                                         *)
(* Three kinds of database transaction meet here:                          *)
(*   resolvers   one `discovery run`, resolving the versions it sighted;   *)
(*   reviewers   one POST /entity-resolution/decisions, after a GET;       *)
(*   rebuilders  one projection rebuild, which rewrites the head cache.    *)
(*                                                                         *)
(* Every transaction is READ COMMITTED: each statement sees what had been  *)
(* committed when it began plus what its own transaction wrote.  A step    *)
(* below is one statement (or several that nothing else can observe in     *)
(* between).  Statements that wait for another transaction are disabled    *)
(* until that transaction ends: inserting a decision under a key another   *)
(* open transaction has inserted, and writing a head row another open      *)
(* transaction has written.                                                *)
(***************************************************************************)
EXTENDS Naturals

CONSTANTS
    Entities,        \* provider entities
    Versions,        \* provider record versions, numbered in id order
    EntityOf,        \* the provider entity each version belongs to
    Resolvers,       \* transactions that run resolve_run
    Reviewers,       \* transactions that record a human decision
    Rebuilders,      \* transactions that rebuild the projections
    KnownCompanies,  \* companies already in the registry
    None,            \* no decision, no company
    Untouched        \* a head row a transaction has not written

Txns == Resolvers \cup Reviewers \cup Rebuilders

\* A transaction decides each version (a reviewer: its entity) at most once,
\* so the pair names the decision row, and the company minted on the way.
DecisionIds == Txns \X (Versions \cup Entities)
MintedCompanies == Resolvers \X Versions
Companies == KnownCompanies \cup MintedCompanies

\* CREATED_NEW is what only a resolver writes: its company is its own.  A
\* reviewer's decision that names a company is MATCHED here.
Verdicts == {"MATCHED", "CREATED_NEW", "AMBIGUOUS", "REJECTED"}

Decision == [id: DecisionIds,
             entity: Entities,
             supersedes: DecisionIds \cup {None},
             verdict: Verdicts,
             company: Companies \cup {None}]

Claim == [version: Versions, decision: DecisionIds, txn: Resolvers]

HeadRow == DecisionIds \cup {None}

Stages == {"viewing", "scan", "insert", "upsert", "claim", "delete", "reinsert", "done"}

ASSUME TxnsAssumption ==
    /\ Resolvers \cap Reviewers = {}
    /\ Resolvers \cap Rebuilders = {}
    /\ Reviewers \cap Rebuilders = {}

ASSUME VersionsAssumption ==
    /\ Versions \subseteq Nat
    /\ EntityOf \in [Versions -> Entities]

ASSUME NoneAssumption ==
    /\ None \notin DecisionIds \cup Companies \cup Decision
    /\ Untouched \notin DecisionIds \cup {None}

VARIABLES
    rows,       \* entity_resolution_decisions, uncommitted rows included
    companies,  \* companies, the ones minted by open transactions included
    head,       \* entity_resolution_heads as committed
    claims,     \* company_claims, one per (version, decision) batch written
    status,     \* of each transaction: idle, active, committed, aborted
    pc,         \* the statement an active transaction is about to run
    todo,       \* versions left to resolve, or head rows left to delete
    at,         \* the version a resolver is working on, a reviewer's entity
    row,        \* the decision at hand: to insert, or to cache and claim under
    viewed,     \* the head a reviewer looked at before deciding
    staged,     \* each transaction's uncommitted writes to the head cache
    copy        \* decisions a rebuild selected and has not reinserted yet

vars == <<rows, companies, head, claims, status, pc, todo, at, row, viewed,
          staged, copy>>

-----------------------------------------------------------------------------
(* Visibility, the effective head, and the unique indexes.                  *)

Writer(d) == d.id[1]

Committed == {d \in rows : status[Writer(d)] = "committed"}

Visible(t) == {d \in rows : status[Writer(d)] = "committed" \/ Writer(d) = t}

CommittedCompanies ==
    KnownCompanies \cup {c \in companies \cap MintedCompanies :
                            status[c[1]] = "committed"}

\* The decisions on e that nothing in S supersedes.
HeadsIn(S, e) ==
    {d \in S : d.entity = e /\ \A s \in S : s.supersedes # d.id}

\* What current_head may return to t: a head t can see, or nothing.
HeadsSeenBy(t, e) ==
    IF HeadsIn(Visible(t), e) = {} THEN {None} ELSE HeadsIn(Visible(t), e)

\* Rows that hold the unique key d would take: uq_resolution_root when d
\* supersedes nothing, uq_resolution_supersedes when it does.
MutOneRootDropped(d) ==
    {r \in rows : r.supersedes = d.supersedes /\ d.supersedes # None}
Rivals(d) ==
    {r \in rows : r.supersedes = d.supersedes /\ (d.supersedes # None \/ r.entity = d.entity)}

MutRejectedIsOpen(d) == d # None /\ d.verdict \notin {"AMBIGUOUS", "REJECTED"}
IsSettled(d) == d # None /\ d.verdict # "AMBIGUOUS"

HoldersOfHead(t, e) == {s \in Txns \ {t} : staged[s][e] # Untouched}

HoldersOfKey(t) ==
    {s \in Txns \ {t} : status[s] = "active" /\ \E r \in Rivals(row[t]) : Writer(r) = s}

-----------------------------------------------------------------------------
Init ==
    /\ rows = {}
    /\ companies = KnownCompanies
    /\ head = [e \in Entities |-> None]
    /\ claims = {}
    /\ status = [t \in Txns |-> "idle"]
    /\ pc = [t \in Txns |-> "done"]
    /\ todo = [t \in Txns |-> {}]
    /\ at = [t \in Txns |-> None]
    /\ row = [t \in Txns |-> None]
    /\ viewed = [t \in Txns |-> None]
    /\ staged = [t \in Txns |-> [e \in Entities |-> Untouched]]
    /\ copy = [t \in Txns |-> {}]

-----------------------------------------------------------------------------
(* Resolvers.                                                               *)

\* A discovery run opens its transaction having sighted some versions.
BeginRun(r) ==
    /\ status[r] = "idle"
    /\ status' = [status EXCEPT ![r] = "active"]
    /\ pc' = [pc EXCEPT ![r] = "scan"]
    /\ \E sighted \in SUBSET Versions :
          /\ sighted # {}
          /\ todo' = [todo EXCEPT ![r] = sighted]
    /\ UNCHANGED <<rows, companies, head, claims, at, row, viewed, staged, copy>>

\* resolve() returns a decision it does not write: the head is settled, or
\* the new conclusion is AMBIGUOUS like the head it would supersede.
KeepHead(r, h) ==
    /\ row' = [row EXCEPT ![r] = h]
    /\ pc' = [pc EXCEPT ![r] = "claim"]
    /\ UNCHANGED companies

\* resolve() concludes something new about version v of entity e.
Conclude(r, v, h, verdict, company) ==
    /\ row' = [row EXCEPT ![r] =
                  [id |-> <<r, v>>,
                   entity |-> EntityOf[v],
                   supersedes |-> IF h = None THEN None ELSE h.id,
                   verdict |-> verdict,
                   company |-> company]]
    /\ pc' = [pc EXCEPT ![r] = "insert"]
    /\ companies' = IF verdict = "CREATED_NEW" THEN companies \cup {company}
                                               ELSE companies

\* What resolve() may conclude about an entity that is not settled.  Which
\* of these it is depends on names and domains, abstracted here to a choice:
\* no identity, a collision or a middling score park the entity; a domain or
\* a high score matches a registered company; otherwise one is minted.
Conclusions(r, v) ==
    {<<"AMBIGUOUS", None>>, <<"CREATED_NEW", <<r, v>> >>}
        \cup ({"MATCHED"} \X CommittedCompanies)

\* resolve() on the next version in id order, up to the write.
Resolve(r) ==
    /\ status[r] = "active" /\ pc[r] = "scan"
    /\ \E v \in todo[r] :
          /\ \A w \in todo[r] : v <= w
          /\ at' = [at EXCEPT ![r] = v]
          /\ \E h \in HeadsSeenBy(r, EntityOf[v]) :
                \/ IsSettled(h) /\ KeepHead(r, h)
                \/ /\ ~IsSettled(h)
                   /\ \E c \in Conclusions(r, v) :
                         IF h # None /\ c[1] = "AMBIGUOUS"
                           THEN KeepHead(r, h)
                           ELSE Conclude(r, v, h, c[1], c[2])
    /\ UNCHANGED <<rows, head, claims, status, todo, viewed, staged, copy>>

\* _write_decision: the INSERT waits for an open transaction that holds the
\* same unique key, and succeeds when no row holds it.
InsertDecision(t) ==
    /\ status[t] = "active" /\ pc[t] = "insert"
    /\ Rivals(row[t]) = {}
    /\ rows' = rows \cup {row[t]}
    /\ pc' = [pc EXCEPT ![t] = "upsert"]
    /\ UNCHANGED <<companies, head, claims, status, todo, at, row, viewed, staged, copy>>

\* A resolver that lost the race deletes the company it minted on the way in.
MutKeepMinted(r) == companies
WithoutMinted(r) == companies \ {<<r, at[r]>>}

MutRetryBlindly(r) ==
    /\ status[r] = "active" /\ pc[r] = "insert"
    /\ Rivals(row[r]) # {}
    /\ UNCHANGED vars

\* _write_decision lost: the key was taken by a committed row.  The savepoint
\* rolls back, the head is read again and adopted unexamined, and the company
\* minted for this attempt is deleted.
AdoptWinner(r) ==
    /\ status[r] = "active" /\ pc[r] = "insert"
    /\ Rivals(row[r]) # {}
    /\ HoldersOfKey(r) = {}
    /\ \E h \in HeadsSeenBy(r, row[r].entity) :
          /\ h # None
          /\ row' = [row EXCEPT ![r] = h]
    /\ companies' = WithoutMinted(r)
    /\ pc' = [pc EXCEPT ![r] = "upsert"]
    /\ UNCHANGED <<rows, head, claims, status, todo, at, viewed, staged, copy>>

MutDoNothing(t) ==
    IF head[row[t].entity] = None THEN row[t].id ELSE head[row[t].entity]
MutCacheCompany(t) == row[t].company
NewHeadRow(t) == row[t].id

\* _upsert_head: INSERT ... ON CONFLICT DO UPDATE waits for the row lock and
\* then overwrites whatever the row holds.
UpsertHead(t) ==
    /\ status[t] = "active" /\ pc[t] = "upsert"
    /\ HoldersOfHead(t, row[t].entity) = {}
    /\ staged' = [staged EXCEPT ![t][row[t].entity] = NewHeadRow(t)]
    /\ pc' = [pc EXCEPT ![t] = IF t \in Resolvers THEN "claim" ELSE "done"]
    /\ UNCHANGED <<rows, companies, head, claims, status, todo, at, row, viewed, copy>>

\* The (version, decision) pairs t can see claims for: _already_claimed.
AlreadyClaimed(t, v, d) ==
    \E c \in claims : /\ c.version = v /\ c.decision = d
                      /\ c.txn = t \/ status[c.txn] = "committed"

\* resolve_run's claim step, which ends the work on this version.
WriteClaims(r) ==
    /\ status[r] = "active" /\ pc[r] = "claim"
    /\ IF row[r].company # None /\ ~AlreadyClaimed(r, at[r], row[r].id)
         THEN claims' = claims \cup
                  {[version |-> at[r], decision |-> row[r].id, txn |-> r]}
         ELSE UNCHANGED claims
    /\ todo' = [todo EXCEPT ![r] = @ \ {at[r]}]
    /\ pc' = [pc EXCEPT ![r] = IF todo'[r] = {} THEN "done" ELSE "scan"]
    /\ UNCHANGED <<rows, companies, head, status, at, row, viewed, staged, copy>>

-----------------------------------------------------------------------------
(* Reviewers.                                                               *)

\* A reviewer reads the queue, or an entity, in a transaction of its own.
View(h) ==
    /\ status[h] = "idle" /\ pc[h] = "done"
    /\ \E e \in Entities :
          /\ at' = [at EXCEPT ![h] = e]
          /\ \E d \in HeadsSeenBy(h, e) : viewed' = [viewed EXCEPT ![h] = d]
    /\ pc' = [pc EXCEPT ![h] = "viewing"]
    /\ UNCHANGED <<rows, companies, head, claims, status, todo, row, staged, copy>>

\* The verdicts a request may carry: an unresolved one without a company, a
\* resolving one with a company that exists.
HumanVerdicts ==
    ({"AMBIGUOUS", "REJECTED"} \X {None}) \cup ({"MATCHED"} \X CommittedCompanies)

\* append_human_decision reads the head again, whatever the reviewer saw.
PostDecision(h) ==
    /\ status[h] = "idle" /\ pc[h] = "viewing"
    /\ status' = [status EXCEPT ![h] = "active"]
    /\ \E d \in HeadsSeenBy(h, at[h]), c \in HumanVerdicts :
          row' = [row EXCEPT ![h] =
                    [id |-> <<h, at[h]>>,
                     entity |-> at[h],
                     supersedes |-> IF d = None THEN None ELSE d.id,
                     verdict |-> c[1],
                     company |-> c[2]]]
    /\ pc' = [pc EXCEPT ![h] = "insert"]
    /\ UNCHANGED <<rows, companies, head, claims, todo, at, viewed, staged, copy>>

-----------------------------------------------------------------------------
(* Rebuilders.                                                              *)

\* rebuild_heads: DELETE of the head rows committed when it starts.
BeginRebuild(b) ==
    /\ status[b] = "idle"
    /\ status' = [status EXCEPT ![b] = "active"]
    /\ pc' = [pc EXCEPT ![b] = "delete"]
    /\ todo' = [todo EXCEPT ![b] = {e \in Entities : head[e] # None}]
    /\ UNCHANGED <<rows, companies, head, claims, at, row, viewed, staged, copy>>

DeleteHead(b) ==
    /\ status[b] = "active" /\ pc[b] = "delete"
    /\ \E e \in todo[b] :
          /\ HoldersOfHead(b, e) = {}
          /\ staged' = [staged EXCEPT ![b][e] = None]
          /\ todo' = [todo EXCEPT ![b] = @ \ {e}]
    /\ UNCHANGED <<rows, companies, head, claims, status, pc, at, row, viewed, copy>>

SelectHeads(b) ==
    /\ status[b] = "active" /\ pc[b] = "delete" /\ todo[b] = {}
    /\ copy' = [copy EXCEPT ![b] = UNION {HeadsIn(Visible(b), e) : e \in Entities}]
    /\ pc' = [pc EXCEPT ![b] = "reinsert"]
    /\ UNCHANGED <<rows, companies, head, claims, status, todo, at, row, viewed, staged>>

\* The primary key is free when b deleted the row, or nobody committed one.
KeyIsFree(b, e) == staged[b][e] = None \/ (staged[b][e] = Untouched /\ head[e] = None)

ReinsertHead(b) ==
    /\ status[b] = "active" /\ pc[b] = "reinsert"
    /\ \E d \in copy[b] :
          /\ HoldersOfHead(b, d.entity) = {}
          /\ KeyIsFree(b, d.entity)
          /\ staged' = [staged EXCEPT ![b][d.entity] = d.id]
          /\ copy' = [copy EXCEPT ![b] = @ \ {d}]
    /\ UNCHANGED <<rows, companies, head, claims, status, pc, todo, at, row, viewed>>

-----------------------------------------------------------------------------
(* How a transaction ends.                                                  *)

IsDone(t) ==
    /\ status[t] = "active"
    /\ pc[t] = "done" \/ (pc[t] = "reinsert" /\ copy[t] = {})

Commit(t) ==
    /\ IsDone(t)
    /\ status' = [status EXCEPT ![t] = "committed"]
    /\ head' = [e \in Entities |->
                  IF staged[t][e] = Untouched THEN head[e] ELSE staged[t][e]]
    /\ staged' = [staged EXCEPT ![t] = [e \in Entities |-> Untouched]]
    /\ pc' = [pc EXCEPT ![t] = "done"]
    /\ UNCHANGED <<rows, companies, claims, todo, at, row, viewed, copy>>

\* Everything an aborted transaction wrote is gone.
RollBack(t) ==
    /\ status' = [status EXCEPT ![t] = "aborted"]
    /\ rows' = {d \in rows : Writer(d) # t}
    /\ companies' = companies \ {c \in MintedCompanies : c[1] = t}
    /\ claims' = {c \in claims : c.txn # t}
    /\ staged' = [staged EXCEPT ![t] = [e \in Entities |-> Untouched]]
    /\ pc' = [pc EXCEPT ![t] = "done"]
    /\ todo' = [todo EXCEPT ![t] = {}]
    /\ row' = [row EXCEPT ![t] = None]
    /\ copy' = [copy EXCEPT ![t] = {}]
    /\ UNCHANGED <<head, at, viewed>>

\* The IntegrityError of a reviewer who lost the race is not caught.
RefuseReviewer(h) ==
    /\ status[h] = "active" /\ pc[h] = "insert"
    /\ Rivals(row[h]) # {}
    /\ HoldersOfKey(h) = {}
    /\ RollBack(h)

\* Nor is that of a rebuild whose head row somebody else committed meanwhile.
RefuseRebuild(b) ==
    /\ status[b] = "active" /\ pc[b] = "reinsert"
    /\ \E d \in copy[b] :
          HoldersOfHead(b, d.entity) = {} /\ ~KeyIsFree(b, d.entity)
    /\ RollBack(b)

\* The process or its connection dies.
Crash(t) == status[t] = "active" /\ RollBack(t)

\* The transactions a blocked transaction waits for; one that is not open
\* is at "viewing" or "done".
WaitsFor(t) ==
    CASE pc[t] = "insert" -> HoldersOfKey(t)
      [] pc[t] = "upsert" -> HoldersOfHead(t, row[t].entity)
      [] pc[t] = "delete" /\ \A e \in todo[t] : HoldersOfHead(t, e) # {} ->
            UNION {HoldersOfHead(t, e) : e \in todo[t]}
      [] pc[t] = "reinsert" /\ \A d \in copy[t] : HoldersOfHead(t, d.entity) # {} ->
            UNION {HoldersOfHead(t, d.entity) : d \in copy[t]}
      [] OTHER -> {}

InWaitCycle(t) ==
    \E T \in SUBSET Txns : t \in T /\ \A s \in T : WaitsFor(s) \cap T # {}

\* PostgreSQL aborts one transaction of a cycle of waits.
DeadlockVictim(t) == status[t] = "active" /\ InWaitCycle(t) /\ RollBack(t)

-----------------------------------------------------------------------------
ResolverStep(r) == \/ Resolve(r) \/ InsertDecision(r) \/ AdoptWinner(r)
                   \/ UpsertHead(r) \/ WriteClaims(r) \/ Commit(r)

ReviewerStep(h) == \/ InsertDecision(h) \/ RefuseReviewer(h)
                   \/ UpsertHead(h) \/ Commit(h)

RebuilderStep(b) == \/ DeleteHead(b) \/ SelectHeads(b) \/ ReinsertHead(b)
                    \/ RefuseRebuild(b) \/ Commit(b)

Next ==
    \/ \E r \in Resolvers : BeginRun(r) \/ ResolverStep(r)
    \/ \E h \in Reviewers : View(h) \/ PostDecision(h) \/ ReviewerStep(h)
    \/ \E b \in Rebuilders : BeginRebuild(b) \/ RebuilderStep(b)
    \/ \E t \in Txns : Crash(t) \/ DeadlockVictim(t)

Spec == Init /\ [][Next]_vars

\* A transaction that has begun keeps running its statements, and the server
\* breaks deadlocks.  Nothing has to begin, and nothing has to crash.
FairSpec ==
    /\ Spec
    /\ \A r \in Resolvers : WF_vars(ResolverStep(r))
    /\ \A h \in Reviewers : WF_vars(ReviewerStep(h))
    /\ \A b \in Rebuilders : WF_vars(RebuilderStep(b))
    /\ WF_vars(\E t \in Txns : DeadlockVictim(t))

-----------------------------------------------------------------------------
(* Properties.                                                              *)

\* Every variable has the shape of the table or of the local state it models.
TypeOK ==
    /\ rows \subseteq Decision
    /\ companies \subseteq Companies
    /\ head \in [Entities -> HeadRow]
    /\ claims \subseteq Claim
    /\ status \in [Txns -> {"idle", "active", "committed", "aborted"}]
    /\ pc \in [Txns -> Stages]
    /\ todo \in [Txns -> SUBSET (Versions \cup Entities)]
    /\ at \in [Txns -> Versions \cup Entities \cup {None}]
    /\ row \in [Txns -> Decision \cup {None}]
    /\ viewed \in [Txns -> Decision \cup {None}]
    /\ staged \in [Txns -> [Entities -> HeadRow \cup {Untouched}]]
    /\ copy \in [Txns -> SUBSET Decision]

\* Exactly one of the decisions in S about e is superseded by none of them,
\* when there are any.
HasOneHead(S, e) ==
    (\E d \in S : d.entity = e) =>
        \E d \in HeadsIn(S, e) : \A o \in HeadsIn(S, e) : o = d

\* The decisions about an entity form one chain with one head, for a reader
\* of committed data and inside every open transaction, however resolvers and
\* reviewers interleave: current_head() needs no ORDER BY (resolution.py:283).
OneHead ==
    \A e \in Entities :
        /\ HasOneHead(Committed, e)
        /\ \A t \in Txns : status[t] = "active" => HasOneHead(Visible(t), e)

\* Local state of a transaction fits the statement it is about to run.
LocalOK ==
    /\ \A r \in Resolvers :
          /\ todo[r] \subseteq Versions
          /\ pc[r] \in {"insert", "upsert", "claim"} => at[r] \in Versions
    /\ \A h \in Reviewers :
          /\ at[h] \in Entities \cup {None}
          /\ pc[h] = "viewing" => at[h] \in Entities
    /\ \A t \in Txns :
          pc[t] \in {"insert", "upsert", "claim"} => row[t] \in Decision

\* Only open and committed transactions have rows; ids and unique keys are
\* each held by one row; a decision supersedes a row of its own entity that
\* its writer could see.
RowsOK ==
    /\ \A d \in rows : status[Writer(d)] \in {"active", "committed"}
    /\ \A d, o \in rows : d.id = o.id => d = o
    /\ \A d, o \in rows : o \in Rivals(d) => d = o
    /\ \A d \in rows : d.supersedes # None =>
          \E o \in Visible(Writer(d)) : o.id = d.supersedes /\ o.entity = d.entity

\* A row about to be inserted is its writer's, has a fresh id, and supersedes
\* a decision on its own entity that the writer can see.
PlanOK ==
    \A t \in Txns : status[t] = "active" /\ pc[t] = "insert" =>
        /\ Writer(row[t]) = t
        /\ t \in Resolvers => row[t].id[2] = at[t]
        /\ \A d \in rows : d.id # row[t].id
        /\ row[t].supersedes # None =>
              \E o \in Visible(t) : /\ o.id = row[t].supersedes
                                    /\ o.entity = row[t].entity

\* Versions a resolver has still to decide have no row of its own yet.
FreshOK ==
    \A r \in Resolvers, d \in rows :
        status[r] = "active" /\ Writer(d) = r =>
            /\ pc[r] \in {"scan", "insert"} => d.id[2] \notin todo[r]
            /\ d.id[2] \notin todo[r] \ {at[r]}

\* Only one open transaction at a time has decided about an entity, and its
\* first decision stands on the committed head.
StandsOnCommitted(d) ==
    IF d.supersedes = None
      THEN \A o \in Committed : o.entity # d.entity
      ELSE \E h \in HeadsIn(Committed, d.entity) : h.id = d.supersedes

PendingOK ==
    \A d \in rows : status[Writer(d)] = "active" =>
        /\ \A o \in rows :
              o.entity = d.entity /\ status[Writer(o)] = "active"
                => Writer(o) = Writer(d)
        /\ \E f \in rows : /\ f.entity = d.entity /\ Writer(f) = Writer(d)
                            /\ StandsOnCommitted(f)

HasRoot(S, e) ==
    (\E d \in S : d.entity = e) => \E d \in S : d.entity = e /\ d.supersedes = None

Rooted ==
    \A e \in Entities :
        /\ HasRoot(Committed, e)
        /\ \A t \in Txns : status[t] = "active" => HasRoot(Visible(t), e)

\* The inductive invariant behind OneHead.  The unique indexes alone do not
\* give one head: they have to meet a writer that only ever supersedes a row
\* it can see, so that two open transactions that extend a chain of one
\* entity are after the same key.
ChainInv == /\ TypeOK /\ LocalOK /\ RowsOK /\ PlanOK /\ FreshOK
            /\ PendingOK /\ Rooted /\ OneHead

\* A company minted by a resolver is never left behind by a lost race: once
\* committed, a committed decision of that resolver names it
\* (_write_decision, resolution.py:389-395).
NoOrphanCompany ==
    \A c \in CommittedCompanies \ KnownCompanies :
        \E d \in Committed : d.company = c /\ Writer(d) = c[1]

\* Its strengthening: a minted company has a decision of its resolver, or is
\* the one of the row its resolver is about to insert.
MintedInv ==
    \A c \in companies \ KnownCompanies :
        \/ \E d \in rows : d.company = c /\ Writer(d) = c[1]
        \/ /\ status[c[1]] = "active" /\ pc[c[1]] = "insert"
           /\ row[c[1]].company = c /\ c[2] = at[c[1]]

\* Only a person reopens or overrides a settled entity: a decision a resolver
\* commits supersedes nothing, or a decision that was left AMBIGUOUS
\* (resolve, resolution.py:181-190), even when a reviewer commits in between.
MachineNeverOverrides ==
    \A d \in Committed, o \in rows :
        Writer(d) \in Resolvers /\ d.supersedes = o.id => o.verdict = "AMBIGUOUS"

\* Its strengthening to rows not yet committed, or not yet inserted.
OverrideInv ==
    /\ \A d, o \in rows :
          Writer(d) \in Resolvers /\ d.supersedes = o.id => ~IsSettled(o)
    /\ \A r \in Resolvers, o \in rows :
          status[r] = "active" /\ pc[r] = "insert" /\ row[r].supersedes = o.id
            => ~IsSettled(o)

CacheAgrees(e) ==
    IF HeadsIn(Committed, e) = {} THEN head[e] = None
    ELSE \E d \in HeadsIn(Committed, e) : head[e] = d.id

\* The head cache says what the chain says: C12, design 6.4 "the two must
\* agree".  Readers of claims and projections go through the cache.
HeadCacheAgrees == \A e \in Entities : CacheAgrees(e)

\* The only step that takes the cache away from the chain is the commit of a
\* resolver that lost a race and cached the head it had re-read, a decision of
\* somebody else: a winner's upsert, a reviewer's, a rebuild's and a rollback
\* never do (resolution.py:425-440).
StaleOnlyByAdoption ==
    [][\A e \in Entities :
          CacheAgrees(e) /\ ~CacheAgrees(e)' =>
              \E r \in Resolvers :
                  /\ status[r] = "active" /\ status'[r] = "committed"
                  /\ staged[r][e] \notin {Untouched, None, head[e]}
                  /\ staged[r][e][1] # r]_vars

\* No transaction that began waits for ever, even when two runs take the same
\* entities in opposite orders.
EveryTransactionEnds ==
    \A t \in Txns : status[t] = "active" ~> status[t] \in {"committed", "aborted"}

-----------------------------------------------------------------------------
(* What the documentation says and the code does not do; so is              *)
(* HeadCacheAgrees above.                                                   *)

\* A (version, decision) pair that already has claims is not written again
\* (design, defect 31; _already_claimed, runs.py:276).
ClaimedOnce ==
    \A c, o \in {x \in claims : status[x.txn] = "committed"} :
        c.version = o.version /\ c.decision = o.decision => c = o

\* A reviewer's decision is never attached to a head the reviewer did not see
\* (design, "Deliberately left as-is").
ReviewerSawWhatIsSuperseded ==
    \A d \in Committed :
        Writer(d) \in Reviewers =>
            d.supersedes = IF viewed[Writer(d)] = None
                             THEN None ELSE viewed[Writer(d)].id

\* A resolver that lost the race re-evaluates against the head that won: with
\* a company in hand it does not settle for an AMBIGUOUS head (design 6.3).
LoserReevaluates ==
    [][\A r \in Resolvers :
          (pc[r] = "insert" /\ pc'[r] = "upsert" /\ IsSettled(row[r]))
            => IsSettled(row'[r])]_vars
=============================================================================
