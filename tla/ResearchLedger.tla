--------------------------- MODULE ResearchLedger ---------------------------
(***************************************************************************)
(* The account of one research question: attempts that read a company's    *)
(* sources, the claims they assert, the observations they leave to people, *)
(* the gaps they raise for what they do not hold, the reviews that decide  *)
(* an observation, and the profile derived from all of it.                 *)
(*                                                                         *)
(* Three kinds of database transaction meet here, all READ COMMITTED:      *)
(*   attempts    one run_pipeline call, committed as a whole;              *)
(*   reviewers   one POST .../decision on a review candidate;              *)
(*   rebuilders  one explicit rebuild of the profiles.                     *)
(* A step is one statement, or several that nothing else can observe in    *)
(* between.  Attempts of one question exclude each other (uq_attempt_live  *)
(* and uq_attempt_number make the second INSERT wait for the first).       *)
(*                                                                         *)
(* Locks, all held until the transaction ends:                             *)
(*   the candidate row (FOR UPDATE), by a reviewer;                        *)
(*   the gap row, FOR UPDATE by a reviewer that ends it, FOR KEY SHARE by  *)
(*   any transaction that has appended an event to it (the foreign key);   *)
(*   the advisory lock of the company profile.                             *)
(***************************************************************************)
EXTENDS Naturals

CONSTANTS
    Keys,          \* target attributes of the question
    Sources,       \* sources discovery finds
    PursuedFor,    \* attributes the plan pursues at each source
    Readings,      \* what one page may say: sets of <<attribute, quality>>
    Attempts,      \* transactions that run the pipeline
    Reviewers,     \* transactions that decide a review candidate
    Rebuilders,    \* transactions that rebuild the profiles
    None           \* no candidate

Txns == Attempts \cup Reviewers \cup Rebuilders

\* FACT is asserted; WEAK (below the review threshold) and SAMPLED (a model
\* read it) wait for a person.
Qualities == {"FACT", "WEAK", "SAMPLED"}

\* The three ways of not having an attribute, and two doubts about having it.
Missing == {"UNRESOLVABLE_SOURCE", "INSUFFICIENT_EVIDENCE", "NO_EVIDENCE"}
Doubts == {"STALE_EVIDENCE", "CONTRADICTED"}
Gap == [key: Keys, kind: Missing \cup Doubts]

Candidate == [attempt: Attempts, source: Sources, key: Keys,
              reason: {"WEAK", "SAMPLED"}]

Claim == [key: Keys, source: Sources, txn: Txns]

Review == [txn: Reviewers, candidate: Candidate, decision: {"CONFIRM", "REJECT"},
           operative: BOOLEAN]

\* Event kinds a caller of gaps.py appends; nothing calls abandon_gap.
Event == [gap: Gap, kind: {"RAISED", "ATTEMPTED", "RESOLVED"}, at: Nat, txn: Txns]

Profile == [covered: SUBSET Keys, open: SUBSET Gap]

ASSUME LedgerAssumption ==
    /\ Attempts \cap Reviewers = {}
    /\ Attempts \cap Rebuilders = {}
    /\ Reviewers \cap Rebuilders = {}
    /\ PursuedFor \in [Sources -> SUBSET Keys]
    /\ Readings \subseteq SUBSET (Keys \X Qualities)
    /\ None \notin Candidate

VARIABLES
    claims,      \* company_claims of this company
    candidates,  \* research_review_candidates
    reviews,     \* research_evidence_reviews
    gaps,        \* operational_research_gaps of this run, with their creator
    events,      \* operational_research_gap_events
    profile,     \* the stored projections, as committed
    clock,       \* wall clock, advanced when a transaction reads it
    status,      \* of each transaction, and how it ended
    pc,          \* the statement an active transaction is about to run
    now,         \* the time a transaction stamps on everything it writes
    todo,        \* gaps an attempt has still to raise
    strong,      \* <<attribute, source>> an attempt has still to assert
    weak,        \* attributes an attempt deferred for low confidence
    unreachable, \* attributes all of whose sources failed permanently
    asked,       \* the candidate and decision a reviewer posted
    operative,   \* reviewers whose decision is the first on its candidate
    holds,       \* explicit locks: rows locked FOR UPDATE and the profile lock
    draft        \* the profile a transaction has derived and not committed

work == <<todo, strong, weak, unreachable, asked, operative>>
tables == <<claims, candidates, reviews, gaps, events>>
vars == <<tables, profile, clock, status, pc, now, work, holds, draft>>

NoProfile == [covered |-> {}, open |-> {}]

-----------------------------------------------------------------------------
(* Visibility and locks.                                                    *)

Sees(t, owner) == status[owner] = "committed" \/ owner = t

Locked(t, lock) == \E s \in Txns \ {t} : lock \in holds[s]

\* The advisory lock pg_advisory_xact_lock takes in every rebuild.
ProfileLock == [lock |-> "profile"]
MutNoLock(t) == TRUE
ProfileLockFree(t) == ~Locked(t, ProfileLock)

MutNoCandidateLock(t, c) == TRUE
CandidateLockFree(t, c) == ~Locked(t, c)

\* Transactions that keep a gap row from being locked: one that holds it, or
\* one that appended an event to it and holds a key share of it.
GapHolders(t, g) ==
    {s \in Txns \ {t} : g \in holds[s]
                          \/ (status[s] = "active" /\ \E e \in events : e.gap = g /\ e.txn = s)}

EventsOn(t, g) == {e \in events : e.gap = g /\ Sees(t, e.txn)}

\* Latest by time, ties by position in the lifecycle.
Rank == [RAISED |-> 0, ATTEMPTED |-> 1, RESOLVED |-> 2, ABANDONED |-> 2]

Latest(S) ==
    {e \in S : \A o \in S : o.at < e.at \/ (o.at = e.at /\ Rank[o.kind] <= Rank[e.kind])}

IsOpen(S) == \E e \in Latest(S) : e.kind # "RESOLVED"

IsTerminal(S) == \E e \in Latest(S) : e.kind = "RESOLVED"

OpenGaps(t) == {g \in Gap : IsOpen(EventsOn(t, g))}

Evidenced(t) == {k \in Keys : \E c \in claims : c.key = k /\ Sees(t, c.txn)}

-----------------------------------------------------------------------------
Init ==
    /\ claims = {} /\ candidates = {} /\ reviews = {} /\ gaps = {} /\ events = {}
    /\ profile = NoProfile
    /\ clock = 0
    /\ status = [t \in Txns |-> "idle"]
    /\ pc = [t \in Txns |-> "done"]
    /\ now = [t \in Txns |-> 0]
    /\ todo = [a \in Attempts |-> {}]
    /\ strong = [a \in Attempts |-> {}]
    /\ weak = [a \in Attempts |-> {}]
    /\ unreachable = [a \in Attempts |-> {}]
    /\ asked = [h \in Reviewers |-> None]
    /\ operative = {}
    /\ holds = [t \in Txns |-> {}]
    /\ draft = [t \in Txns |-> NoProfile]

At(t, stage) == status[t] = "active" /\ pc[t] = stage

Begin(t, stage) ==
    /\ status[t] = "idle"
    /\ status' = [status EXCEPT ![t] = "active"]
    /\ pc' = [pc EXCEPT ![t] = stage]
    /\ clock' = clock + 1
    /\ now' = [now EXCEPT ![t] = clock + 1]

Goto(t, stage) == pc' = [pc EXCEPT ![t] = stage]

\* Transaction-scoped locks are gone when the transaction is; a session's
\* would not be.
MutSessionLock(t) == holds[t] \cap {ProfileLock}
HoldsAfter(t) == {}

\* Everything an aborted transaction wrote is gone, and its locks with it.
Abort(t, how) ==
    /\ status' = [status EXCEPT ![t] = how]
    /\ claims' = {c \in claims : c.txn # t}
    /\ candidates' = {c \in candidates : c.attempt # t}
    /\ reviews' = {r \in reviews : r.txn # t}
    /\ events' = {e \in events : e.txn # t}
    /\ gaps' = gaps \ {g \in gaps : \E e \in events : e.gap = g /\ e.txn = t /\ e.kind = "RAISED"}
    /\ holds' = [holds EXCEPT ![t] = HoldsAfter(t)]
    /\ draft' = [draft EXCEPT ![t] = NoProfile]
    /\ todo' = [a \in Attempts |-> IF a = t THEN {} ELSE todo[a]]
    /\ strong' = [a \in Attempts |-> IF a = t THEN {} ELSE strong[a]]
    /\ operative' = operative \ {t}
    /\ Goto(t, "done")
    /\ UNCHANGED <<profile, clock, now, weak, unreachable, asked>>

-----------------------------------------------------------------------------
(* Attempts.                                                                *)

\* What came of pursuing a source: a page that was read, a failure that will
\* not resolve by trying again, or nothing new (a 304, a transient failure, a
\* document that failed to canonicalize, a source the budget left unvisited).
Visits == {[outcome |-> "READ", says |-> r] : r \in Readings}
            \cup {[outcome |-> "PERMANENT", says |-> {}],
                  [outcome |-> "NOTHING", says |-> {}]}

\* Attributes every source pursued for them failed permanently for.
Unreachable(visit) ==
    {k \in Keys :
        LET pursued == {s \in Sources : k \in PursuedFor[s]}
        IN  pursued # {} /\ \A s \in pursued : visit[s].outcome = "PERMANENT"}

\* Stages DISCOVERING to EXTRACTING.  Evidence is the attempt's own, so its
\* candidates are new; nobody sees any of it before the attempt commits.
StartAttempt(a) ==
    /\ Begin(a, "assert")
    /\ \A b \in Attempts : status[b] # "active"
    /\ \E visit \in [Sources -> Visits] :
          /\ strong' = [strong EXCEPT ![a] =
                          {p \in Keys \X Sources : <<p[1], "FACT">> \in visit[p[2]].says}]
          /\ candidates' = candidates \cup
                {c \in Candidate : c.attempt = a
                                     /\ <<c.key, c.reason>> \in visit[c.source].says}
          /\ weak' = [weak EXCEPT ![a] =
                        {k \in Keys : \E s \in Sources : <<k, "WEAK">> \in visit[s].says}]
          /\ unreachable' = [unreachable EXCEPT ![a] = Unreachable(visit)]
    /\ UNCHANGED <<claims, reviews, gaps, events, profile, todo, asked, operative,
                   holds, draft>>

\* The same assertion, inserted by a transaction that is still open: the
\* unique fingerprint makes the second INSERT wait.
ClaimInFlight(t, k, s) ==
    \E c \in claims : /\ c.key = k /\ c.source = s
                      /\ c.txn # t /\ status[c.txn] = "active"

\* assert_claim: a claim with this fingerprint is there already, or is new.
Asserted(t, pairs) ==
    claims \cup
        {c \in Claim : /\ c.txn = t /\ <<c.key, c.source>> \in pairs
                       /\ \A o \in claims : o.key = c.key => o.source # c.source}

\* _assert and _infer.
AssertClaims(a) ==
    /\ At(a, "assert")
    /\ \A p \in strong[a] : ~ClaimInFlight(a, p[1], p[2])
    /\ claims' = Asserted(a, strong[a])
    /\ strong' = [strong EXCEPT ![a] = {}]
    /\ Goto(a, "profile")
    /\ UNCHANGED <<candidates, reviews, gaps, events, profile, clock, status, now,
                   todo, weak, unreachable, asked, operative, holds, draft>>

\* Every targeted attribute not held is exactly one kind of gap, in order of
\* how much the kind explains.
MissingKind(a, k) ==
    CASE k \in unreachable[a] -> "UNRESOLVABLE_SOURCE"
      [] k \notin unreachable[a] /\ k \in weak[a] -> "INSUFFICIENT_EVIDENCE"
      [] OTHER -> "NO_EVIDENCE"

\* What is held counts for the whole company, whoever asserted it.
Held(a) == Evidenced(a)

\* rebuild_company_profile, which takes the lock, and then the reads of
\* _raise_gaps.  Staleness depends on dates and contradiction on values: any
\* held attribute may be in either state.
BeginGaps(a) ==
    /\ At(a, "profile")
    /\ ProfileLockFree(a)
    /\ holds' = [holds EXCEPT ![a] = @ \cup {ProfileLock}]
    /\ draft' = [draft EXCEPT ![a].covered = Evidenced(a)]
    /\ \E doubts \in SUBSET [key: Evidenced(a), kind: Doubts] :
          todo' = [todo EXCEPT ![a] =
                     doubts \cup {[key |-> k, kind |-> MissingKind(a, k)] :
                                     k \in Keys \ Held(a)}]
    /\ Goto(a, "raise")
    /\ UNCHANGED <<tables, profile, clock, status, now, strong, weak, unreachable,
                   asked, operative>>

MutAbandons(t, g, kind) == [gap |-> g, kind |-> IF kind = "RESOLVED" THEN "ABANDONED" ELSE kind,
                            at |-> now[t], txn |-> t]

\* _append_event: the row every event becomes.
NewEvent(t, g, kind) == [gap |-> g, kind |-> kind, at |-> now[t], txn |-> t]

\* raise_gap on a gap nobody raised before.
RaiseGap(a) ==
    /\ At(a, "raise")
    /\ \E g \in todo[a] :
          /\ g \notin gaps
          /\ gaps' = gaps \cup {g}
          /\ events' = events \cup {NewEvent(a, g, "RAISED")}
          /\ todo' = [todo EXCEPT ![a] = @ \ {g}]
    /\ UNCHANGED <<claims, candidates, reviews, profile, clock, status, pc, now,
                   strong, weak, unreachable, asked, operative, holds, draft>>

\* record_attempt on one that exists.  The transition trigger refuses it when
\* the latest event is terminal, with an exception no caller translates; the
\* foreign key then waits for a transaction that holds the gap row FOR UPDATE.
RecordAttempt(a) ==
    /\ At(a, "raise")
    /\ \E g \in todo[a] \cap gaps :
          IF IsTerminal(EventsOn(a, g))
            THEN Abort(a, "trigger")
            ELSE /\ ~Locked(a, g)
                 /\ events' = events \cup {NewEvent(a, g, "ATTEMPTED")}
                 /\ todo' = [todo EXCEPT ![a] = @ \ {g}]
                 /\ UNCHANGED <<claims, candidates, reviews, gaps, profile, clock, status,
                                pc, now, strong, weak, unreachable, asked, operative,
                                holds, draft>>

\* rebuild_plan_profile and the terminal status.
FinishAttempt(a) ==
    /\ At(a, "raise") /\ todo[a] = {}
    /\ draft' = [draft EXCEPT ![a].open = OpenGaps(a)]
    /\ Goto(a, "commit")
    /\ UNCHANGED <<tables, profile, clock, status, now, work, holds>>

-----------------------------------------------------------------------------
(* Reviewers.                                                               *)

\* A decision arrives about a candidate its author found in the queue.  The
\* clock is read before the candidate row is locked.
Decide(h) ==
    /\ Begin(h, "lock")
    /\ \E c \in candidates, d \in {"CONFIRM", "REJECT"} :
          /\ status[c.attempt] = "committed"
          /\ asked' = [asked EXCEPT ![h] = [candidate |-> c, decision |-> d]]
    /\ UNCHANGED <<tables, profile, todo, strong, weak, unreachable, operative,
                   holds, draft>>

\* The first decision on a candidate is the operative one.
LockCandidate(h) ==
    LET c == asked[h].candidate IN
    /\ At(h, "lock")
    /\ CandidateLockFree(h, c)
    /\ holds' = [holds EXCEPT ![h] = @ \cup {c}]
    /\ operative' = IF \E r \in reviews : r.candidate = c /\ r.operative /\ Sees(h, r.txn)
                      THEN operative ELSE operative \cup {h}
    /\ Goto(h, "confirm")
    /\ UNCHANGED <<tables, profile, clock, status, now, todo, strong, weak,
                   unreachable, asked, draft>>

IsConfirmation(h) == h \in operative /\ asked[h].decision = "CONFIRM"

\* An operative confirmation asserts the reading; every decision is recorded.
RecordReview(h) ==
    LET c == asked[h].candidate IN
    /\ At(h, "confirm")
    /\ IF IsConfirmation(h)
         THEN /\ ~ClaimInFlight(h, c.key, c.source)
              /\ claims' = Asserted(h, {<<c.key, c.source>>})
              /\ Goto(h, "read")
         ELSE /\ UNCHANGED claims
              /\ Goto(h, "commit")
    /\ reviews' = reviews \cup {[txn |-> h, candidate |-> c, operative |-> h \in operative,
                                 decision |-> asked[h].decision]}
    /\ UNCHANGED <<candidates, gaps, events, profile, clock, status, now, work,
                   holds, draft>>

\* The only gap a confirmation closes.
GapOf(h) == [key |-> asked[h].candidate.key, kind |-> "INSUFFICIENT_EVIDENCE"]

\* _reconcile reads the status of the gap before anything locks it.
ReadGap(h) ==
    /\ At(h, "read")
    /\ Goto(h, IF IsOpen(EventsOn(h, GapOf(h))) THEN "resolve" ELSE "profile")
    /\ UNCHANGED <<tables, profile, clock, status, now, work, holds, draft>>

MutNobodyEnded(h) == FALSE
AlreadyEnded(h) == \E e \in EventsOn(h, GapOf(h)) : e.kind = "RESOLVED"

\* resolve_gap: lock the gap row, look for a terminal event, append one.
ResolveGap(h) ==
    /\ At(h, "resolve")
    /\ GapHolders(h, GapOf(h)) = {}
    /\ ~AlreadyEnded(h)
    /\ holds' = [holds EXCEPT ![h] = @ \cup {GapOf(h)}]
    /\ events' = events \cup {NewEvent(h, GapOf(h), "RESOLVED")}
    /\ Goto(h, "profile")
    /\ UNCHANGED <<claims, candidates, reviews, gaps, profile, clock, status, now,
                   work, draft>>

-----------------------------------------------------------------------------
(* Reviewers and rebuilders.                                                *)

BeginRebuild(b) ==
    /\ Begin(b, "profile")
    /\ UNCHANGED <<tables, profile, work, holds, draft>>

\* rebuild_all: the company profile and the plan profile, from the ledger.
RebuildAll(t) ==
    /\ At(t, "profile")
    /\ ProfileLockFree(t)
    /\ holds' = [holds EXCEPT ![t] = @ \cup {ProfileLock}]
    /\ draft' = [draft EXCEPT ![t] = [covered |-> Evidenced(t), open |-> OpenGaps(t)]]
    /\ Goto(t, "commit")
    /\ UNCHANGED <<tables, profile, clock, status, now, work>>

-----------------------------------------------------------------------------
(* How a transaction ends.                                                  *)

Commit(t) ==
    /\ At(t, "commit")
    /\ status' = [status EXCEPT ![t] = "committed"]
    /\ profile' = IF ProfileLock \in holds[t] THEN draft[t] ELSE profile
    /\ holds' = [holds EXCEPT ![t] = HoldsAfter(t)]
    /\ draft' = [draft EXCEPT ![t] = NoProfile]
    /\ Goto(t, "done")
    /\ UNCHANGED <<tables, clock, now, work>>

\* IllegalGapTransitionError: another transaction ended the gap first.
RefuseResolution(h) ==
    /\ At(h, "resolve")
    /\ GapHolders(h, GapOf(h)) = {}
    /\ AlreadyEnded(h)
    /\ Abort(h, "refused")

Crash(t) == status[t] = "active" /\ Abort(t, "crashed")

\* The transactions a transaction waits for.
WaitsFor(t) ==
    CASE status[t] # "active" -> {}
      [] At(t, "assert") ->
            {s \in Txns \ {t} : status[s] = "active"
                /\ \E c \in claims : c.txn = s /\ <<c.key, c.source>> \in strong[t]}
      [] At(t, "raise") ->
            IF todo[t] # {} /\ \A g \in todo[t] : Locked(t, g)
              THEN {s \in Txns \ {t} : \E g \in todo[t] : g \in holds[s]}
              ELSE {}
      [] At(t, "lock") -> {s \in Txns \ {t} : asked[t].candidate \in holds[s]}
      [] At(t, "confirm") /\ IsConfirmation(t) ->
            {s \in Txns \ {t} : status[s] = "active"
                /\ \E c \in claims : /\ c.txn = s /\ c.key = asked[t].candidate.key
                                     /\ c.source = asked[t].candidate.source}
      [] At(t, "resolve") -> GapHolders(t, GapOf(t))
      [] At(t, "profile") -> {s \in Txns \ {t} : ProfileLock \in holds[s]}
      [] OTHER -> {}

InWaitCycle(t) ==
    \E T \in SUBSET Txns : t \in T /\ \A s \in T : WaitsFor(s) \cap T # {}

DeadlockVictim(t) == InWaitCycle(t) /\ Abort(t, "deadlock")

-----------------------------------------------------------------------------
AttemptStep(a) == \/ AssertClaims(a) \/ BeginGaps(a) \/ RaiseGap(a) \/ RecordAttempt(a)
                  \/ FinishAttempt(a) \/ Commit(a)

ReviewerStep(h) == \/ LockCandidate(h) \/ RecordReview(h) \/ ReadGap(h) \/ ResolveGap(h)
                   \/ RefuseResolution(h) \/ RebuildAll(h) \/ Commit(h)

RebuilderStep(b) == RebuildAll(b) \/ Commit(b)

Next ==
    \/ \E a \in Attempts : StartAttempt(a) \/ AttemptStep(a)
    \/ \E h \in Reviewers : Decide(h) \/ ReviewerStep(h)
    \/ \E b \in Rebuilders : BeginRebuild(b) \/ RebuilderStep(b)
    \/ \E t \in Txns : Crash(t) \/ DeadlockVictim(t)

Spec == Init /\ [][Next]_vars

\* A transaction that has begun keeps running its statements, and the server
\* breaks deadlocks.  Nothing has to begin, and nothing has to crash.
FairSpec ==
    /\ Spec
    /\ \A a \in Attempts : WF_vars(AttemptStep(a))
    /\ \A h \in Reviewers : WF_vars(ReviewerStep(h))
    /\ \A b \in Rebuilders : WF_vars(RebuilderStep(b))
    /\ WF_vars(\E t \in Txns : DeadlockVictim(t))

-----------------------------------------------------------------------------
(* Properties.                                                              *)

Ends == {"committed", "refused", "trigger", "deadlock", "crashed"}

\* Every variable has the shape of the table or of the local state it models.
TypeOK ==
    /\ claims \subseteq Claim
    /\ candidates \subseteq Candidate
    /\ reviews \subseteq Review
    /\ gaps \subseteq Gap
    /\ events \subseteq Event
    /\ profile \in Profile
    /\ clock \in Nat
    /\ status \in [Txns -> {"idle", "active"} \cup Ends]
    /\ pc \in [Txns -> {"assert", "raise", "lock", "confirm", "read", "resolve",
                        "profile", "commit", "done"}]
    /\ now \in [Txns -> Nat]
    /\ todo \in [Attempts -> SUBSET Gap]
    /\ strong \in [Attempts -> SUBSET (Keys \X Sources)]
    /\ weak \in [Attempts -> SUBSET Keys]
    /\ unreachable \in [Attempts -> SUBSET Keys]
    /\ asked \in [Reviewers -> [candidate: Candidate, decision: {"CONFIRM", "REJECT"}]
                                  \cup {None}]
    /\ operative \subseteq Reviewers
    /\ holds \in [Txns -> SUBSET ({ProfileLock} \cup Candidate \cup Gap)]
    /\ draft \in [Txns -> Profile]

IsCommitted(t) == status[t] = "committed"

CommittedOn(g) == {e \in events : e.gap = g /\ IsCommitted(e.txn)}

CommittedKeys == {k \in Keys : \E c \in claims : c.key = k /\ IsCommitted(c.txn)}

\* A gap ends once, whichever reviewers race for it (M3-ADR-057, M3-ADR-062),
\* and no attempt reports on one that has ended: the transition trigger would
\* raise and lose everything the attempt found (gaps.py:94, 0006:108).
GapEndsOnce ==
    /\ \A e, o \in events :
          e.gap = o.gap /\ e.kind = "RESOLVED" /\ o.kind = "RESOLVED" => e = o
    /\ \A a \in Attempts : status[a] # "trigger"

\* Of all the decisions on one candidate, one is operative: two operators who
\* arrive together do not both act (review_candidate, review.py:359).
OneOperativeReview ==
    \A r, o \in reviews :
        r.candidate = o.candidate /\ r.operative /\ o.operative => r = o

\* An attempt that is about to commit does not report as missing what somebody
\* has come to hold since it looked (_raise_gaps, pipeline.py:766; the lock in
\* profiles.py:260 keeps a confirmation from committing in between).
MissingIsNotHeld ==
    \A e \in events : status[e.txn] = "active" /\ e.gap.kind \in Missing
        /\ e.kind \in {"RAISED", "ATTEMPTED"} => e.gap.key \notin CommittedKeys

\* The stored profiles say what the ledger says, after every commit once one
\* has been derived: nobody's rebuild overwrites a later one with what it read
\* before (profiles.py:1-8, :260).
ProfileAgreesWithLedger ==
    profile # NoProfile =>
        /\ profile.covered = CommittedKeys
        /\ profile.open = {g \in Gap : IsOpen(CommittedOn(g))}

\* No transaction that began waits for ever.
EveryTransactionEnds ==
    \A t \in Txns : status[t] = "active" ~> status[t] \in Ends

-----------------------------------------------------------------------------
(* What the documentation says and the code does not do.                    *)

\* The kinds of not having an attribute are mutually exclusive states
\* (pipeline.py:751).
MissingKindsExclude ==
    \A k \in Keys, m, n \in Missing :
        /\ IsOpen(CommittedOn([key |-> k, kind |-> m]))
        /\ IsOpen(CommittedOn([key |-> k, kind |-> n]))
        => m = n

\* After an operative confirmation the attribute is not listed as missing any
\* more (review.py:443).
ConfirmedIsNotMissing ==
    \A r \in reviews, m \in Missing :
        IsCommitted(r.txn) /\ r.operative /\ r.decision = "CONFIRM"
            => ~IsOpen(CommittedOn([key |-> r.candidate.key, kind |-> m]))

\* A terminal event admits no successor: a gap that was resolved reads as
\* resolved (migration 0004:526).
ResolvedReadsResolved ==
    \A e \in events : IsCommitted(e.txn) /\ e.kind = "RESOLVED"
                        => IsTerminal(CommittedOn(e.gap))

\* A decision about one reading leaves the same attribute's other readings
\* decidable: no confirmation is refused because another one was made
\* (review.py:336).
SiblingsAreUntouched == \A h \in Reviewers : status[h] # "refused"

\* Of two rebuilds at once the loser derives again (profiles.py:261, design
\* table "Profile rebuilt concurrently"): nobody is killed over the lock.
LoserDerivesAgain == \A t \in Txns : status[t] # "deadlock"
=============================================================================
