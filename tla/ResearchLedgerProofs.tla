------------------------ MODULE ResearchLedgerProofs ------------------------
(***************************************************************************)
(* Proofs about ResearchLedger: type correctness, and what the locks of a  *)
(* research question buy: gaps that end once, one operative review per     *)
(* candidate, no report of something missing that is held by then, and a   *)
(* stored profile that agrees with the ledger.                             *)
(***************************************************************************)
EXTENDS ResearchLedger, TLAPS

\* What a transaction sees of the claims and of the events.
SeenClaims(t) == {c \in claims : Sees(t, c.txn)}
SeenEvents(t) == {e \in events : Sees(t, e.txn)}

\* Each kind of transaction has its own statements, and only an open one has
\* locks; a reviewer has been asked something.
PhaseOK ==
    /\ \A t \in Txns : status[t] # "active" => holds[t] = {}
    /\ \A a \in Attempts : status[a] = "active" =>
          pc[a] \in {"assert", "profile", "raise", "commit"}
    /\ \A h \in Reviewers : status[h] = "active" =>
          /\ pc[h] \in {"lock", "confirm", "read", "resolve", "profile", "commit"}
          /\ asked[h] \in [candidate: Candidate, decision: {"CONFIRM", "REJECT"}]
    /\ \A b \in Rebuilders : status[b] = "active" => pc[b] \in {"profile", "commit"}

\* What a transaction has locked by the time it runs a statement.  No lock has
\* two holders.
LocksOK ==
    /\ \A s, t \in Txns : holds[s] \cap holds[t] # {} => s = t
    /\ \A t \in Txns : ProfileLock \in holds[t] => pc[t] \in {"raise", "commit"}
    /\ \A a \in Attempts : At(a, "raise") => ProfileLock \in holds[a]
    /\ \A h \in Reviewers :
          status[h] = "active" /\ pc[h] # "lock" => asked[h].candidate \in holds[h]

\* What a transaction has written by the time it runs a statement: rows belong
\* to open and committed transactions; nobody commits a claim or an event
\* without the profile lock.
WrittenOK ==
    /\ \A c \in claims : status[c.txn] \in {"active", "committed"}
    /\ \A e \in events : status[e.txn] \in {"active", "committed"}
    /\ \A r \in reviews : status[r.txn] \in {"active", "committed"}
    /\ \A c \in claims : status[c.txn] = "active" =>
          /\ pc[c.txn] \notin {"assert", "lock", "confirm"}
          /\ pc[c.txn] = "commit" => ProfileLock \in holds[c.txn]
    /\ \A e \in events : e.kind # "RESOLVED" => e.txn \in Attempts
    /\ \A e \in events : status[e.txn] = "active" =>
          /\ pc[e.txn] \in {"raise", "profile", "commit"}
          /\ pc[e.txn] = "profile" => e.txn \in Reviewers
          /\ pc[e.txn] = "commit" => ProfileLock \in holds[e.txn]

\* Reviews of an open transaction are of the candidate it has locked, and who
\* is about to write an operative one is the first.
ReviewsOK ==
    /\ \A r \in reviews : status[r.txn] = "active" =>
          pc[r.txn] \notin {"lock", "confirm"} /\ r.candidate = asked[r.txn].candidate
    /\ \A h \in Reviewers :
          /\ status[h] = "idle" => h \notin operative
          /\ status[h] = "active" =>
                /\ pc[h] = "lock" => h \notin operative
                /\ pc[h] = "confirm" /\ h \in operative =>
                      \A r \in reviews : r.operative => r.candidate # asked[h].candidate
    /\ OneOperativeReview

\* Somebody holds what a resolved gap was about: the reviewer that resolved it,
\* or a transaction committed by then.
HeldFor(t, k) == \E c \in SeenClaims(t) : c.key = k

ResolvedOK ==
    /\ \A h \in Reviewers : status[h] = "active" /\ pc[h] \in {"read", "resolve"} =>
          HeldFor(h, asked[h].candidate.key)
    /\ \A e \in events : e.kind = "RESOLVED" =>
          /\ e.txn \in Reviewers
          /\ e.gap.kind = "INSUFFICIENT_EVIDENCE"
          /\ HeldFor(e.txn, e.gap.key)
    /\ GapEndsOnce

\* What an attempt reports as missing, or is about to, it does not see held.
MissingOK ==
    /\ \A a \in Attempts : At(a, "raise") =>
          \A g \in todo[a] : g.kind \in Missing => ~HeldFor(a, g.key)
    /\ \A e \in events :
          status[e.txn] = "active" /\ e.txn \in Attempts /\ e.gap.kind \in Missing =>
             ~HeldFor(e.txn, e.gap.key)

\* A draft is what the transaction sees of the ledger: it has the lock.
DraftOK ==
    /\ \A a \in Attempts : At(a, "raise") => draft[a].covered = Evidenced(a)
    /\ \A t \in Txns : At(t, "commit") /\ ProfileLock \in holds[t] =>
          draft[t] = [covered |-> Evidenced(t), open |-> OpenGaps(t)]
    /\ ProfileAgreesWithLedger

\* The inductive invariant.
LedgerInv == /\ TypeOK /\ PhaseOK /\ LocksOK /\ WrittenOK /\ ReviewsOK
             /\ ResolvedOK /\ MissingOK /\ DraftOK
-----------------------------------------------------------------------------
(***************************************************************************)
(* Types.                                                                  *)
(***************************************************************************)

\* What a request is about.
LEMMA AskedType ==
    ASSUME TypeOK, PhaseOK, NEW h \in Reviewers, status[h] = "active"
    PROVE  /\ asked[h] \in [candidate: Candidate, decision: {"CONFIRM", "REJECT"}]
           /\ asked[h].candidate \in Candidate
           /\ asked[h].candidate.key \in Keys /\ asked[h].candidate.source \in Sources
           /\ GapOf(h) \in Gap
<1>1. asked[h] \in [candidate: Candidate, decision: {"CONFIRM", "REJECT"}]
  BY DEF TypeOK, PhaseOK
<1>2. asked[h].candidate \in Candidate
  BY <1>1
<1>3. asked[h].candidate.key \in Keys /\ asked[h].candidate.source \in Sources
  BY <1>2 DEF Candidate
<1>4. GapOf(h) \in Gap
  BY <1>3 DEF GapOf, Gap, Missing
<1> QED
  BY <1>1, <1>2, <1>3, <1>4

\* The lock on a profile is neither a candidate nor a gap.
LEMMA ProfileLockApart == ProfileLock \notin Candidate \cup Gap
<1>1. ASSUME NEW g \in Gap PROVE g # ProfileLock
  BY <1>1 DEF Gap, ProfileLock
<1>2. ASSUME NEW c \in Candidate PROVE c # ProfileLock
  BY <1>2 DEF Candidate, ProfileLock
<1> QED
  BY <1>1, <1>2

LEMMA AbortType ==
    ASSUME TypeOK, NEW t \in Txns, NEW how \in Ends, Abort(t, how)
    PROVE  TypeOK'
  BY DEF TypeOK, Abort, Goto, HoldsAfter, NoProfile, Profile

LEMMA CommitType ==
    ASSUME TypeOK, NEW t \in Txns, Commit(t)
    PROVE  TypeOK'
  BY DEF TypeOK, Commit, At, Goto, HoldsAfter, NoProfile, Profile, Ends, tables, work

LEMMA SeenTypes ==
    ASSUME NEW t
    PROVE  Evidenced(t) \subseteq Keys /\ OpenGaps(t) \subseteq Gap
  BY DEF Evidenced, OpenGaps

LEMMA AttemptType ==
    ASSUME TypeOK, PhaseOK, NEW a \in Attempts,
           \/ StartAttempt(a) \/ AssertClaims(a) \/ BeginGaps(a) \/ RaiseGap(a)
           \/ RecordAttempt(a) \/ FinishAttempt(a)
    PROVE  TypeOK'
<1>0. a \in Txns
  BY DEF Txns
<1>1. CASE StartAttempt(a)
  <2>1. PICK visit \in [Sources -> Visits] :
          /\ strong' = [strong EXCEPT ![a] =
                          {p \in Keys \X Sources : <<p[1], "FACT">> \in visit[p[2]].says}]
          /\ candidates' = candidates \cup
                {c \in Candidate : c.attempt = a
                                     /\ <<c.key, c.reason>> \in visit[c.source].says}
          /\ weak' = [weak EXCEPT ![a] =
                        {k \in Keys : \E s \in Sources : <<k, "WEAK">> \in visit[s].says}]
          /\ unreachable' = [unreachable EXCEPT ![a] = Unreachable(visit)]
    BY <1>1 DEF StartAttempt
  <2>2. Unreachable(visit) \subseteq Keys
    BY DEF Unreachable
  <2>3. /\ strong' \in [Attempts -> SUBSET (Keys \X Sources)]
        /\ weak' \in [Attempts -> SUBSET Keys]
        /\ unreachable' \in [Attempts -> SUBSET Keys]
        /\ candidates' \subseteq Candidate
    BY <2>1, <2>2 DEF TypeOK
  <2> QED
    BY <1>0, <1>1, <2>3 DEF TypeOK, StartAttempt, Begin
<1>2. CASE AssertClaims(a)
  BY <1>0, <1>2 DEF TypeOK, AssertClaims, Asserted, At, Goto
<1>3. CASE BeginGaps(a)
  <2>1. PICK doubts \in SUBSET [key: Evidenced(a), kind: Doubts] :
          todo' = [todo EXCEPT ![a] =
                     doubts \cup {[key |-> k, kind |-> MissingKind(a, k)] :
                                     k \in Keys \ Held(a)}]
    BY <1>3 DEF BeginGaps
  <2>2. \A k \in Keys : [key |-> k, kind |-> MissingKind(a, k)] \in Gap
    BY DEF MissingKind, Gap, Missing
  <2>3. doubts \subseteq Gap
    BY SeenTypes DEF Gap
  <2>4. todo' \in [Attempts -> SUBSET Gap]
    BY <2>1, <2>2, <2>3 DEF TypeOK
  <2>5. draft' \in [Txns -> Profile]
    BY <1>0, <1>3, SeenTypes DEF TypeOK, BeginGaps, Profile
  <2>6. holds' \in [Txns -> SUBSET ({ProfileLock} \cup Candidate \cup Gap)]
    BY <1>0, <1>3 DEF TypeOK, BeginGaps
  <2> QED
    BY <1>0, <1>3, <2>4, <2>5, <2>6 DEF TypeOK, BeginGaps, Goto, tables
<1>4. CASE RaiseGap(a) \/ (RecordAttempt(a) /\ status' = status)
  <2>1. \A g \in todo[a] : /\ g \in Gap
                           /\ NewEvent(a, g, "RAISED") \in Event
                           /\ NewEvent(a, g, "ATTEMPTED") \in Event
    BY <1>0 DEF TypeOK, NewEvent, Event
  <2>2. CASE RaiseGap(a)
    BY <1>0, <2>1, <2>2 DEF TypeOK, RaiseGap
  <2>3. CASE RecordAttempt(a) /\ status' = status
    BY <1>0, <2>1, <2>3, AbortType DEF TypeOK, RecordAttempt, Ends
  <2> QED
    BY <1>4, <2>2, <2>3
<1>5. CASE RecordAttempt(a) /\ status' # status
  BY <1>0, <1>5, AbortType DEF RecordAttempt, Ends
<1>6. CASE FinishAttempt(a)
  <2>1. draft' \in [Txns -> Profile]
    BY <1>0, <1>6, SeenTypes DEF TypeOK, FinishAttempt, Profile
  <2> QED
    BY <1>0, <1>6, <2>1 DEF TypeOK, FinishAttempt, Goto, tables, work
<1> QED
  BY <1>1, <1>2, <1>3, <1>4, <1>5, <1>6
LEMMA ReviewerType ==
    ASSUME TypeOK, PhaseOK, NEW h \in Reviewers,
           \/ Decide(h) \/ LockCandidate(h) \/ RecordReview(h) \/ ReadGap(h)
           \/ ResolveGap(h) \/ RefuseResolution(h)
    PROVE  TypeOK'
<1>0. h \in Txns
  BY DEF Txns
<1>1. CASE Decide(h)
  <2>1. asked' \in [Reviewers -> [candidate: Candidate, decision: {"CONFIRM", "REJECT"}]
                                    \cup {None}]
    BY <1>1 DEF TypeOK, Decide
  <2> QED
    BY <1>0, <1>1, <2>1 DEF TypeOK, Decide, Begin, tables
<1>2. ASSUME status[h] = "active", status' = status
      PROVE  TypeOK'
  <2>0. /\ asked[h] \in [candidate: Candidate, decision: {"CONFIRM", "REJECT"}]
        /\ asked[h].candidate \in Candidate
        /\ asked[h].candidate.key \in Keys /\ asked[h].candidate.source \in Sources
        /\ GapOf(h) \in Gap
    BY <1>2, AskedType
  <2>1. CASE LockCandidate(h)
    <3>1. holds' \in [Txns -> SUBSET ({ProfileLock} \cup Candidate \cup Gap)]
      BY <1>0, <2>0, <2>1 DEF TypeOK, LockCandidate
    <3>2. operative' \subseteq Reviewers
      BY <2>1 DEF TypeOK, LockCandidate
    <3> QED
      BY <1>0, <2>1, <3>1, <3>2 DEF TypeOK, LockCandidate, Goto, tables
  <2>2. CASE RecordReview(h)
    <3>1. claims' \subseteq Claim
      BY <2>2 DEF TypeOK, RecordReview, Asserted
    <3>2. [txn |-> h, candidate |-> asked[h].candidate, operative |-> h \in operative,
           decision |-> asked[h].decision] \in Review
      BY <2>0 DEF Review
    <3>3. pc' \in [Txns -> {"assert", "raise", "lock", "confirm", "read", "resolve",
                            "profile", "commit", "done"}]
      BY <1>0, <2>2 DEF TypeOK, RecordReview, Goto
    <3> QED
      BY <2>2, <3>1, <3>2, <3>3 DEF TypeOK, RecordReview, work
  <2>3. CASE ReadGap(h)
    BY <1>0, <2>3 DEF TypeOK, ReadGap, Goto, tables, work
  <2>4. CASE ResolveGap(h)
    <3>1. NewEvent(h, GapOf(h), "RESOLVED") \in Event
      BY <1>0, <2>0 DEF TypeOK, NewEvent, Event
    <3>2. holds' \in [Txns -> SUBSET ({ProfileLock} \cup Candidate \cup Gap)]
      BY <1>0, <2>0, <2>4 DEF TypeOK, ResolveGap
    <3> QED
      BY <1>0, <2>4, <3>1, <3>2 DEF TypeOK, ResolveGap, Goto, work
  <2>5. CASE RefuseResolution(h)
    BY <1>0, <2>5, AbortType DEF RefuseResolution, Ends
  <2> QED
    BY <1>1, <1>2, <2>1, <2>2, <2>3, <2>4, <2>5 DEF Decide, Begin
<1>3. CASE RefuseResolution(h)
  BY <1>0, <1>3, AbortType DEF RefuseResolution, Ends
<1> QED
  BY <1>1, <1>2, <1>3 DEF LockCandidate, RecordReview, ReadGap, ResolveGap, At

LEMMA RebuildType ==
    ASSUME TypeOK, NEW t \in Txns, BeginRebuild(t) \/ RebuildAll(t)
    PROVE  TypeOK'
<1>1. CASE BeginRebuild(t)
  BY <1>1 DEF TypeOK, BeginRebuild, Begin, tables, work
<1>2. CASE RebuildAll(t)
  <2>1. draft' \in [Txns -> Profile]
    BY <1>2, SeenTypes DEF TypeOK, RebuildAll, Profile
  <2> QED
    BY <1>2, <2>1 DEF TypeOK, RebuildAll, Goto, tables, work
<1> QED
  BY <1>1, <1>2

\* Only an open transaction waits, so only an open one is killed.
LEMMA VictimIsActive ==
    ASSUME NEW t, InWaitCycle(t)
    PROVE  status[t] = "active"
<1>1. WaitsFor(t) # {}
  BY DEF InWaitCycle
<1> QED
  BY <1>1 DEF WaitsFor, At

LEMMA TypeStep == TypeOK /\ PhaseOK /\ [Next]_vars => TypeOK'
<1> SUFFICES ASSUME TypeOK, PhaseOK, [Next]_vars
             PROVE  TypeOK'
  OBVIOUS
<1>1. CASE \E a \in Attempts : StartAttempt(a) \/ AttemptStep(a)
  BY <1>1, AttemptType, CommitType DEF AttemptStep, Txns
<1>2. CASE \E h \in Reviewers : Decide(h) \/ ReviewerStep(h)
  BY <1>2, ReviewerType, RebuildType, CommitType DEF ReviewerStep, Txns
<1>3. CASE \E b \in Rebuilders : BeginRebuild(b) \/ RebuilderStep(b)
  BY <1>3, RebuildType, CommitType DEF RebuilderStep, Txns
<1>4. CASE \E t \in Txns : Crash(t) \/ DeadlockVictim(t)
  BY <1>4, AbortType DEF Crash, DeadlockVictim, Ends
<1>5. CASE UNCHANGED vars
  BY <1>5 DEF TypeOK, vars, tables, work
<1> QED
  BY <1>1, <1>2, <1>3, <1>4, <1>5 DEF Next
-----------------------------------------------------------------------------
(***************************************************************************)
(* A step is one transaction's, and leaves the others and their rows alone. *)
(***************************************************************************)
Alone(t) ==
    /\ \A s \in Txns \ {t} : /\ status'[s] = status[s] /\ pc'[s] = pc[s]
                             /\ holds'[s] = holds[s] /\ draft'[s] = draft[s]
    /\ \A a \in Attempts \ {t} : todo'[a] = todo[a]
    /\ \A h \in Reviewers \ {t} : asked'[h] = asked[h] /\ (h \in operative' <=> h \in operative)
    /\ \A c \in claims \cup claims' : c.txn # t => (c \in claims <=> c \in claims')
    /\ \A e \in events \cup events' : e.txn # t => (e \in events <=> e \in events')
    /\ \A r \in reviews \cup reviews' : r.txn # t => (r \in reviews <=> r \in reviews')

LEMMA AbortAlone ==
    ASSUME TypeOK, NEW t \in Txns, NEW how, Abort(t, how)
    PROVE  Alone(t)
  BY DEF TypeOK, Abort, Goto, Alone

LEMMA AttemptAlone ==
    ASSUME TypeOK, NEW a \in Attempts,
           \/ StartAttempt(a) \/ AssertClaims(a) \/ BeginGaps(a) \/ RaiseGap(a)
           \/ RecordAttempt(a) \/ FinishAttempt(a)
    PROVE  Alone(a)
<1>0. a \in Txns
  BY DEF Txns
<1>1. CASE StartAttempt(a)
  BY <1>0, <1>1 DEF TypeOK, StartAttempt, Begin, Alone
<1>2. CASE AssertClaims(a)
  BY <1>0, <1>2 DEF TypeOK, AssertClaims, Asserted, Goto, Alone
<1>3. CASE BeginGaps(a)
  BY <1>0, <1>3 DEF TypeOK, BeginGaps, Goto, Alone, tables
<1>4. CASE RaiseGap(a)
  BY <1>0, <1>4 DEF TypeOK, RaiseGap, NewEvent, Alone
<1>5. CASE RecordAttempt(a)
  <2>1. CASE \E g \in todo[a] \cap gaps : Abort(a, "trigger")
    BY <1>0, <2>1, AbortAlone
  <2>2. CASE \E g \in todo[a] \cap gaps :
                /\ events' = events \cup {NewEvent(a, g, "ATTEMPTED")}
                /\ todo' = [todo EXCEPT ![a] = @ \ {g}]
                /\ UNCHANGED <<claims, candidates, reviews, gaps, profile, clock, status,
                               pc, now, strong, weak, unreachable, asked, operative,
                               holds, draft>>
    BY <1>0, <2>2 DEF TypeOK, NewEvent, Alone
  <2> QED
    BY <1>5, <2>1, <2>2 DEF RecordAttempt
<1>6. CASE FinishAttempt(a)
  BY <1>0, <1>6 DEF TypeOK, FinishAttempt, Goto, Alone, tables, work
<1> QED
  BY <1>1, <1>2, <1>3, <1>4, <1>5, <1>6

LEMMA ReviewerAlone ==
    ASSUME TypeOK, NEW h \in Reviewers,
           \/ Decide(h) \/ LockCandidate(h) \/ RecordReview(h) \/ ReadGap(h)
           \/ ResolveGap(h) \/ RefuseResolution(h)
    PROVE  Alone(h)
<1>0. h \in Txns
  BY DEF Txns
<1>1. CASE Decide(h)
  BY <1>0, <1>1 DEF TypeOK, Decide, Begin, Alone, tables
<1>2. CASE LockCandidate(h)
  BY <1>0, <1>2 DEF TypeOK, LockCandidate, Goto, Alone, tables
<1>3. CASE RecordReview(h)
  BY <1>0, <1>3 DEF TypeOK, RecordReview, Asserted, Goto, Alone, work
<1>4. CASE ReadGap(h)
  BY <1>0, <1>4 DEF TypeOK, ReadGap, Goto, Alone, tables, work
<1>5. CASE ResolveGap(h)
  BY <1>0, <1>5 DEF TypeOK, ResolveGap, NewEvent, Goto, Alone, work
<1>6. CASE RefuseResolution(h)
  BY <1>0, <1>6, AbortAlone DEF RefuseResolution
<1> QED
  BY <1>1, <1>2, <1>3, <1>4, <1>5, <1>6

LEMMA CommonAlone ==
    ASSUME TypeOK, NEW t \in Txns, BeginRebuild(t) \/ RebuildAll(t) \/ Commit(t)
    PROVE  Alone(t)
<1>1. CASE BeginRebuild(t)
  BY <1>1 DEF TypeOK, BeginRebuild, Begin, Alone, tables, work
<1>2. CASE RebuildAll(t)
  BY <1>2 DEF TypeOK, RebuildAll, Goto, Alone, tables, work
<1>3. CASE Commit(t)
  BY <1>3 DEF TypeOK, Commit, Goto, Alone, tables, work
<1> QED
  BY <1>1, <1>2, <1>3

\* Until t commits, nobody else sees what it does.
LEMMA Unseen ==
    ASSUME TypeOK, TypeOK', NEW t \in Txns, Alone(t),
           status[t] # "committed", status'[t] # "committed"
    PROVE  /\ \A s \in Txns \ {t} : /\ SeenClaims(s)' = SeenClaims(s)
                                    /\ SeenEvents(s)' = SeenEvents(s)
           /\ {c \in claims : IsCommitted(c.txn)}' = {c \in claims : IsCommitted(c.txn)}
           /\ {e \in events : IsCommitted(e.txn)}' = {e \in events : IsCommitted(e.txn)}
<1>1. \A c \in claims \cup claims' : c.txn \in Txns
  BY DEF TypeOK, Claim
<1>2. \A e \in events \cup events' : e.txn \in Txns
  BY DEF TypeOK, Event
<1>3. ASSUME NEW c \in claims \cup claims', NEW s \in Txns \ {t}
      PROVE  c \in SeenClaims(s)' <=> c \in SeenClaims(s)
  BY <1>1, <1>3 DEF Alone, SeenClaims, Sees
<1>4. ASSUME NEW e \in events \cup events', NEW s \in Txns \ {t}
      PROVE  e \in SeenEvents(s)' <=> e \in SeenEvents(s)
  BY <1>2, <1>4 DEF Alone, SeenEvents, Sees
<1>5. ASSUME NEW s \in Txns \ {t}
      PROVE  SeenClaims(s)' = SeenClaims(s) /\ SeenEvents(s)' = SeenEvents(s)
  <2>1. SeenClaims(s) \subseteq claims /\ SeenClaims(s)' \subseteq claims'
    BY DEF SeenClaims
  <2>2. SeenEvents(s) \subseteq events /\ SeenEvents(s)' \subseteq events'
    BY DEF SeenEvents
  <2> QED
    BY <1>3, <1>4, <2>1, <2>2
<1>6. {c \in claims : IsCommitted(c.txn)}' = {c \in claims : IsCommitted(c.txn)}
  BY <1>1 DEF Alone, IsCommitted
<1>7. {e \in events : IsCommitted(e.txn)}' = {e \in events : IsCommitted(e.txn)}
  BY <1>2 DEF Alone, IsCommitted
<1> QED
  BY <1>5, <1>6, <1>7

\* What a transaction sees held, and open, follows from what it sees.
LEMMA SeenDecides ==
    ASSUME NEW t
    PROVE  /\ Evidenced(t) = {k \in Keys : HeldFor(t, k)}
           /\ \A g : EventsOn(t, g) = {e \in SeenEvents(t) : e.gap = g}
  BY DEF Evidenced, HeldFor, SeenClaims, SeenEvents, EventsOn
-----------------------------------------------------------------------------
(***************************************************************************)
(* The steps of the system.                                                *)
(***************************************************************************)

\* record_attempt without the exception of the trigger.
Records(a) ==
    /\ At(a, "raise")
    /\ \E g \in todo[a] \cap gaps :
          /\ events' = events \cup {NewEvent(a, g, "ATTEMPTED")}
          /\ todo' = [todo EXCEPT ![a] = @ \ {g}]
          /\ UNCHANGED <<claims, candidates, reviews, gaps, profile, clock, status,
                         pc, now, strong, weak, unreachable, asked, operative,
                         holds, draft>>

Fails(t) ==
    /\ status[t] = "active"
    /\ \E how \in Ends \ {"committed", "trigger"} : Abort(t, how)

AttemptWorks(a) == \/ StartAttempt(a) \/ AssertClaims(a) \/ BeginGaps(a) \/ RaiseGap(a)
                   \/ Records(a) \/ FinishAttempt(a)

ReviewerWorks(h) == \/ Decide(h) \/ LockCandidate(h) \/ RecordReview(h) \/ ReadGap(h)
                    \/ ResolveGap(h)

Rebuilds(t) ==
    \/ t \in Rebuilders /\ BeginRebuild(t)
    \/ t \notin Attempts /\ RebuildAll(t)

\* An attempt never reports on a gap that has been resolved: what resolved it
\* is held, and it does not report as missing what it sees held.
LEMMA NoTrigger ==
    ASSUME LedgerInv, NEW a \in Attempts, RecordAttempt(a)
    PROVE  Records(a)
<1>1. PICK g \in todo[a] \cap gaps :
         IF IsTerminal(EventsOn(a, g))
           THEN Abort(a, "trigger")
           ELSE /\ ~Locked(a, g)
                /\ events' = events \cup {NewEvent(a, g, "ATTEMPTED")}
                /\ todo' = [todo EXCEPT ![a] = @ \ {g}]
                /\ UNCHANGED <<claims, candidates, reviews, gaps, profile, clock, status,
                               pc, now, strong, weak, unreachable, asked, operative,
                               holds, draft>>
  BY DEF RecordAttempt
<1>2. ASSUME IsTerminal(EventsOn(a, g)) PROVE FALSE
  <2>1. PICK e \in EventsOn(a, g) : e.kind = "RESOLVED"
    BY <1>2 DEF IsTerminal, Latest
  <2>2. e \in events /\ e.gap = g /\ Sees(a, e.txn)
    BY <2>1 DEF EventsOn
  <2>3. e.txn \in Reviewers /\ g.kind = "INSUFFICIENT_EVIDENCE" /\ HeldFor(e.txn, g.key)
    BY <2>1, <2>2 DEF LedgerInv, ResolvedOK
  <2>4. status[e.txn] = "committed"
    BY <2>2, <2>3, LedgerAssumption DEF Sees
  <2>5. HeldFor(a, g.key)
    BY <2>3, <2>4 DEF HeldFor, SeenClaims, Sees
  <2>6. At(a, "raise")
    BY DEF RecordAttempt
  <2> QED
    BY <2>3, <2>5, <2>6 DEF LedgerInv, MissingOK, Missing
<1> QED
  BY <1>1, <1>2 DEF Records, RecordAttempt

LEMMA StepCases ==
    ASSUME LedgerInv, [Next]_vars
    PROVE  \/ \E a \in Attempts : AttemptWorks(a)
           \/ \E h \in Reviewers : ReviewerWorks(h)
           \/ \E t \in Txns : Rebuilds(t) \/ Commit(t) \/ Fails(t)
           \/ UNCHANGED vars
<1>1. CASE \E a \in Attempts : StartAttempt(a) \/ AttemptStep(a)
  BY <1>1, NoTrigger DEF AttemptStep, AttemptWorks, Txns
<1>2. CASE \E h \in Reviewers : Decide(h) \/ ReviewerStep(h)
  <2>1. PICK h \in Reviewers : Decide(h) \/ ReviewerStep(h)
    BY <1>2
  <2>2. h \in Txns \ Attempts
    BY LedgerAssumption DEF Txns
  <2>3. RefuseResolution(h) => Fails(h)
    BY DEF RefuseResolution, Fails, At, Ends
  <2> QED
    BY <2>1, <2>2, <2>3 DEF ReviewerStep, ReviewerWorks, Rebuilds
<1>3. CASE \E b \in Rebuilders : BeginRebuild(b) \/ RebuilderStep(b)
  BY <1>3, LedgerAssumption DEF RebuilderStep, Rebuilds, Txns
<1>4. CASE \E t \in Txns : Crash(t) \/ DeadlockVictim(t)
  BY <1>4, VictimIsActive DEF Crash, DeadlockVictim, Fails, Ends
<1> QED
  BY <1>1, <1>2, <1>3, <1>4 DEF Next

\* The steps that do not show to others leave them alone.
LEMMA WorksAlone ==
    ASSUME TypeOK, NEW t \in Txns,
           \/ t \in Attempts /\ AttemptWorks(t)
           \/ t \in Reviewers /\ ReviewerWorks(t)
           \/ Rebuilds(t) \/ Fails(t)
    PROVE  Alone(t) /\ status[t] # "committed" /\ status'[t] # "committed"
<1>1. CASE t \in Attempts /\ AttemptWorks(t)
  <2>1. Alone(t)
    <3>1. CASE Records(t)
      BY <3>1 DEF TypeOK, Records, NewEvent, Alone
    <3> QED
      BY <1>1, <3>1, AttemptAlone DEF AttemptWorks
  <2>2. status[t] # "committed" /\ status'[t] # "committed"
    BY <1>1 DEF TypeOK, AttemptWorks, StartAttempt, Begin, AssertClaims, BeginGaps, RaiseGap,
                Records, FinishAttempt, At, tables
  <2> QED
    BY <2>1, <2>2
<1>2. CASE t \in Reviewers /\ ReviewerWorks(t)
  <2>1. Alone(t)
    BY <1>2, ReviewerAlone DEF ReviewerWorks
  <2>2. status[t] # "committed" /\ status'[t] # "committed"
    BY <1>2 DEF TypeOK, ReviewerWorks, Decide, Begin, LockCandidate, RecordReview, ReadGap,
                ResolveGap, At, tables, work
  <2> QED
    BY <2>1, <2>2
<1>3. CASE Rebuilds(t)
  <2>1. status[t] # "committed" /\ status'[t] # "committed"
    BY <1>3 DEF TypeOK, Rebuilds, BeginRebuild, Begin, RebuildAll, At
  <2> QED
    BY <1>3, <2>1, CommonAlone DEF Rebuilds
<1>4. CASE Fails(t)
  <2>1. status[t] # "committed" /\ status'[t] # "committed"
    BY <1>4 DEF TypeOK, Fails, Abort, Ends
  <2> QED
    BY <1>4, <2>1, AbortAlone DEF Fails
<1> QED
  BY <1>1, <1>2, <1>3, <1>4
-----------------------------------------------------------------------------
(***************************************************************************)
(* Phases and locks.                                                       *)
(***************************************************************************)
LEMMA PhaseStep ==
    ASSUME LedgerInv, [Next]_vars
    PROVE  PhaseOK'
<1>0. TypeOK /\ PhaseOK
  BY DEF LedgerInv
<1>1. ASSUME NEW a \in Attempts, AttemptWorks(a) PROVE PhaseOK'
  <2>1. a \in Txns /\ a \notin Reviewers /\ a \notin Rebuilders
    BY LedgerAssumption DEF Txns
  <2>2. /\ \A t \in Txns : status'[t] # "active" => holds'[t] = {}
        /\ status'[a] = "active" /\ pc'[a] \in {"assert", "profile", "raise", "commit"}
    BY <1>0, <1>1, <2>1 DEF TypeOK, PhaseOK, AttemptWorks, StartAttempt, Begin, AssertClaims,
       BeginGaps, RaiseGap, Records, FinishAttempt, At, Goto, tables, work
  <2>3. Alone(a)
    BY <1>0, <1>1, <2>1, WorksAlone
  <2> QED
    BY <1>0, <2>1, <2>2, <2>3 DEF PhaseOK, Alone, Txns
<1>2. ASSUME NEW h \in Reviewers, ReviewerWorks(h) PROVE PhaseOK'
  <2>1. h \in Txns /\ h \notin Attempts /\ h \notin Rebuilders
    BY LedgerAssumption DEF Txns
  <2>2. /\ \A t \in Txns : status'[t] # "active" => holds'[t] = {}
        /\ status'[h] = "active"
        /\ asked'[h] \in [candidate: Candidate, decision: {"CONFIRM", "REJECT"}]
        /\ pc'[h] \in {"lock", "confirm", "read", "resolve", "profile", "commit"}
    <3>1. CASE Decide(h)
      <4>1. asked'[h] \in [candidate: Candidate, decision: {"CONFIRM", "REJECT"}]
        BY <1>0, <3>1 DEF TypeOK, Decide
      <4> QED
        BY <1>0, <2>1, <3>1, <4>1 DEF TypeOK, PhaseOK, Decide, Begin
    <3> QED
      BY <1>0, <1>2, <2>1, <3>1 DEF TypeOK, PhaseOK, ReviewerWorks, LockCandidate,
         RecordReview, ReadGap, ResolveGap, At, Goto, tables, work
  <2>3. Alone(h)
    BY <1>0, <1>2, <2>1, WorksAlone
  <2> QED
    BY <1>0, <2>1, <2>2, <2>3 DEF PhaseOK, Alone, Txns
<1>3. ASSUME NEW t \in Txns, Rebuilds(t) PROVE PhaseOK'
  <2>1. CASE t \in Rebuilders /\ BeginRebuild(t)
    <3>1. t \notin Attempts /\ t \notin Reviewers
      BY <2>1, LedgerAssumption
    <3> QED
      BY <1>0, <2>1, <3>1 DEF TypeOK, PhaseOK, BeginRebuild, Begin, work
  <2>2. CASE t \notin Attempts /\ RebuildAll(t)
    BY <1>0, <2>2 DEF TypeOK, PhaseOK, RebuildAll, At, Goto, work
  <2> QED
    BY <1>3, <2>1, <2>2 DEF Rebuilds
<1>4. ASSUME NEW t \in Txns, Commit(t) PROVE PhaseOK'
  BY <1>0, <1>4 DEF TypeOK, PhaseOK, Commit, At, Goto, HoldsAfter, work, Txns
<1>5. ASSUME NEW t \in Txns, Fails(t) PROVE PhaseOK'
  BY <1>0, <1>5 DEF TypeOK, PhaseOK, Fails, Abort, Goto, HoldsAfter, Ends, Txns
<1>6. CASE UNCHANGED vars
  BY <1>0, <1>6 DEF PhaseOK, vars, work
<1> QED
  BY <1>1, <1>2, <1>3, <1>4, <1>5, <1>6, StepCases
\* Taking locks nobody has, or dropping some, leaves none with two holders.
LEMMA OneHolder ==
    ASSUME LocksOK, NEW t \in Txns, Alone(t),
           \A l \in holds'[t] \ holds[t] : ~Locked(t, l)
    PROVE  \A s, u \in Txns : holds'[s] \cap holds'[u] # {} => s = u
<1> SUFFICES ASSUME NEW s \in Txns, NEW u \in Txns, NEW l \in holds'[s] \cap holds'[u]
             PROVE  s = u
  OBVIOUS
<1>1. CASE s # t /\ u # t
  <2>1. l \in holds[s] \cap holds[u]
    BY <1>1 DEF Alone
  <2> QED
    BY <2>1 DEF LocksOK
<1>2. ASSUME NEW v \in Txns, v # t, l \in holds'[v], l \in holds'[t] PROVE FALSE
  <2>1. l \in holds[v]
    BY <1>2 DEF Alone
  <2>2. l \in holds[t]
    BY <1>2, <2>1 DEF Locked
  <2>3. holds[v] \cap holds[t] # {}
    BY <2>1, <2>2
  <2> QED
    BY <1>2, <2>3 DEF LocksOK
<1> QED
  BY <1>1, <1>2

\* The other parts of LocksOK for everybody but t.
LEMMA LocksOfOthers ==
    ASSUME LocksOK, NEW t \in Txns, Alone(t),
           \A l \in holds'[t] \ holds[t] : ~Locked(t, l),
           ProfileLock \in holds'[t] => pc'[t] \in {"raise", "commit"},
           t \in Attempts /\ status'[t] = "active" /\ pc'[t] = "raise" => ProfileLock \in holds'[t],
           t \in Reviewers /\ status'[t] = "active" /\ pc'[t] # "lock" =>
              asked'[t].candidate \in holds'[t]
    PROVE  LocksOK'
<1>1. \A s, u \in Txns : holds'[s] \cap holds'[u] # {} => s = u
  BY OneHolder
<1>2. ASSUME NEW a \in Attempts, status'[a] = "active", pc'[a] = "raise"
      PROVE  ProfileLock \in holds'[a]
  BY <1>2 DEF LocksOK, Alone, At, Txns
<1>3. ASSUME NEW h \in Reviewers, status'[h] = "active", pc'[h] # "lock"
      PROVE  asked'[h].candidate \in holds'[h]
  BY <1>3 DEF LocksOK, Alone, Txns
<1>4. ASSUME NEW u \in Txns, ProfileLock \in holds'[u]
      PROVE  pc'[u] \in {"raise", "commit"}
  BY <1>4 DEF LocksOK, Alone
<1> QED
  BY <1>1, <1>2, <1>3, <1>4 DEF LocksOK, At, ProfileLock

LEMMA LocksStep ==
    ASSUME LedgerInv, [Next]_vars
    PROVE  LocksOK'
<1>0. TypeOK /\ LocksOK /\ PhaseOK
  BY DEF LedgerInv
<1>1. ASSUME NEW a \in Attempts, AttemptWorks(a) PROVE LocksOK'
  <2>1. a \in Txns /\ a \notin Reviewers /\ Alone(a)
    BY <1>0, <1>1, WorksAlone, LedgerAssumption DEF Txns
  <2>2. CASE BeginGaps(a)
    <3>1. /\ holds'[a] = holds[a] \cup {ProfileLock} /\ ~Locked(a, ProfileLock)
          /\ pc'[a] = "raise"
      BY <1>0, <2>1, <2>2 DEF TypeOK, BeginGaps, ProfileLockFree, Goto
    <3> QED
      BY <1>0, <2>1, <3>1, LocksOfOthers
  <2>3. CASE ~BeginGaps(a)
    <3>1. holds' = holds /\ (pc'[a] = "raise" => At(a, "raise"))
      BY <1>0, <1>1, <2>1, <2>3 DEF TypeOK, AttemptWorks, StartAttempt, Begin, AssertClaims,
         RaiseGap, Records, FinishAttempt, At, Goto
    <3>2. ProfileLock \in holds[a] => pc'[a] \in {"raise", "commit"}
      <4>1. ProfileLock \in holds[a] => At(a, "raise")
        BY <1>0, <1>1, <2>1, <2>3 DEF PhaseOK, LocksOK, AttemptWorks, StartAttempt, Begin,
           AssertClaims, RaiseGap, Records, FinishAttempt, At
      <4> QED
        BY <1>0, <1>1, <2>1, <2>3, <4>1 DEF TypeOK, AttemptWorks, StartAttempt, Begin,
           AssertClaims, RaiseGap, Records, FinishAttempt, At, Goto
    <3> QED
      BY <1>0, <2>1, <3>1, <3>2, LocksOfOthers DEF LocksOK
  <2> QED
    BY <2>2, <2>3
<1>2. ASSUME NEW h \in Reviewers, ReviewerWorks(h) PROVE LocksOK'
  <2>1. h \in Txns /\ h \notin Attempts /\ Alone(h)
    BY <1>0, <1>2, WorksAlone, LedgerAssumption DEF Txns
  <2>2. CASE Decide(h)
    <3>1. holds' = holds /\ pc'[h] = "lock" /\ holds[h] = {}
      BY <1>0, <2>1, <2>2 DEF TypeOK, PhaseOK, Decide, Begin
    <3> QED
      BY <1>0, <2>1, <3>1, LocksOfOthers
  <2>3. CASE LockCandidate(h)
    <3>1. /\ holds'[h] = holds[h] \cup {asked[h].candidate} /\ asked' = asked
          /\ ~Locked(h, asked[h].candidate)
      BY <1>0, <2>1, <2>3 DEF TypeOK, LockCandidate, CandidateLockFree
    <3>2. ProfileLock \notin holds'[h]
      <4>1. asked[h].candidate \in Candidate /\ ProfileLock \notin holds[h]
        BY <1>0, <2>1, <2>3, AskedType DEF LocksOK, LockCandidate, At
      <4> QED
        BY <3>1, <4>1, ProfileLockApart
    <3> QED
      BY <1>0, <2>1, <3>1, <3>2, LocksOfOthers
  <2>4. CASE RecordReview(h) \/ ReadGap(h)
    <3>1. /\ holds' = holds /\ asked' = asked /\ status[h] = "active" /\ pc[h] # "lock"
          /\ ProfileLock \notin holds[h]
      BY <1>0, <2>1, <2>4 DEF TypeOK, LocksOK, RecordReview, ReadGap, At, work
    <3> QED
      BY <1>0, <2>1, <3>1, LocksOfOthers DEF LocksOK
  <2>5. CASE ResolveGap(h)
    <3>1. /\ holds'[h] = holds[h] \cup {GapOf(h)} /\ asked' = asked
          /\ status[h] = "active" /\ pc[h] # "lock" /\ GapHolders(h, GapOf(h)) = {}
      BY <1>0, <2>1, <2>5 DEF TypeOK, ResolveGap, At, work
    <3>2. ~Locked(h, GapOf(h))
      BY <3>1 DEF GapHolders, Locked
    <3>3. ProfileLock \notin holds'[h]
      <4>1. GapOf(h) \in Gap /\ ProfileLock \notin holds[h]
        BY <1>0, <2>1, <2>5, AskedType DEF LocksOK, ResolveGap, At
      <4> QED
        BY <3>1, <4>1, ProfileLockApart
    <3> QED
      BY <1>0, <2>1, <3>1, <3>2, <3>3, LocksOfOthers DEF LocksOK
  <2> QED
    BY <1>2, <2>2, <2>3, <2>4, <2>5 DEF ReviewerWorks
<1>3. ASSUME NEW t \in Txns, Rebuilds(t) PROVE LocksOK'
  <2>1. t \notin Attempts /\ Alone(t)
    BY <1>0, <1>3, WorksAlone, LedgerAssumption DEF Rebuilds
  <2>2. CASE t \in Rebuilders /\ BeginRebuild(t)
    <3>1. holds' = holds /\ t \notin Reviewers /\ holds[t] = {}
      BY <1>0, <2>2, LedgerAssumption DEF PhaseOK, BeginRebuild, Begin
    <3> QED
      BY <1>0, <2>1, <3>1, LocksOfOthers
  <2>3. CASE RebuildAll(t)
    <3>1. /\ holds'[t] = holds[t] \cup {ProfileLock} /\ asked' = asked
          /\ status[t] = "active" /\ pc[t] # "lock" /\ ~Locked(t, ProfileLock)
          /\ pc'[t] = "commit"
      BY <1>0, <2>3 DEF TypeOK, RebuildAll, ProfileLockFree, At, Goto, work
    <3> QED
      BY <1>0, <2>1, <3>1, LocksOfOthers DEF LocksOK
  <2> QED
    BY <1>3, <2>2, <2>3 DEF Rebuilds
<1>4. ASSUME NEW t \in Txns, Commit(t) \/ Fails(t) PROVE LocksOK'
  <2>1. Alone(t)
    BY <1>0, <1>4, WorksAlone, CommonAlone
  <2>2. holds'[t] = {} /\ status'[t] # "active"
    BY <1>0, <1>4 DEF TypeOK, Commit, Fails, Abort, HoldsAfter, Ends
  <2> QED
    BY <1>0, <2>1, <2>2, LocksOfOthers
<1>5. CASE UNCHANGED vars
  BY <1>0, <1>5 DEF LocksOK, At, vars, work
<1> QED
  BY <1>1, <1>2, <1>3, <1>4, <1>5, StepCases
-----------------------------------------------------------------------------
(***************************************************************************)
(* Who has written what.                                                   *)
(***************************************************************************)

\* What t itself has written after the step suits the statement it is at.
WritesWell(t) ==
    /\ \A c \in claims' : c.txn = t =>
          /\ status'[t] \in {"active", "committed"}
          /\ status'[t] = "active" =>
                /\ pc'[t] \notin {"assert", "lock", "confirm"}
                /\ pc'[t] = "commit" => ProfileLock \in holds'[t]
    /\ \A e \in events' : e.txn = t =>
          /\ status'[t] \in {"active", "committed"}
          /\ e.kind # "RESOLVED" => t \in Attempts
          /\ status'[t] = "active" =>
                /\ pc'[t] \in {"raise", "profile", "commit"}
                /\ pc'[t] = "profile" => t \in Reviewers
                /\ pc'[t] = "commit" => ProfileLock \in holds'[t]
    /\ \A r \in reviews' : r.txn = t => status'[t] \in {"active", "committed"}

\* So do the rows of everybody else.
LEMMA WrittenByOthers ==
    ASSUME TypeOK, TypeOK', WrittenOK, NEW t \in Txns, Alone(t), WritesWell(t)
    PROVE  WrittenOK'
<1> USE DEF WritesWell
<1>1. ASSUME NEW c \in claims'
      PROVE  /\ status'[c.txn] \in {"active", "committed"}
             /\ status'[c.txn] = "active" =>
                   /\ pc'[c.txn] \notin {"assert", "lock", "confirm"}
                   /\ pc'[c.txn] = "commit" => ProfileLock \in holds'[c.txn]
  <2>1. c.txn \in Txns
    BY DEF TypeOK, Claim
  <2>2. CASE c.txn # t
    <3>1. /\ c \in claims /\ status'[c.txn] = status[c.txn] /\ pc'[c.txn] = pc[c.txn]
          /\ holds'[c.txn] = holds[c.txn]
      BY <2>1, <2>2 DEF Alone
    <3> QED
      BY <3>1 DEF WrittenOK
  <2> QED
    BY <2>2
<1>2. ASSUME NEW e \in events'
      PROVE  /\ status'[e.txn] \in {"active", "committed"}
             /\ e.kind # "RESOLVED" => e.txn \in Attempts
             /\ status'[e.txn] = "active" =>
                   /\ pc'[e.txn] \in {"raise", "profile", "commit"}
                   /\ pc'[e.txn] = "profile" => e.txn \in Reviewers
                   /\ pc'[e.txn] = "commit" => ProfileLock \in holds'[e.txn]
  <2>1. e.txn \in Txns
    BY DEF TypeOK, Event
  <2>2. CASE e.txn # t
    <3>1. /\ e \in events /\ status'[e.txn] = status[e.txn] /\ pc'[e.txn] = pc[e.txn]
          /\ holds'[e.txn] = holds[e.txn]
      BY <2>1, <2>2 DEF Alone
    <3> QED
      BY <3>1 DEF WrittenOK
  <2> QED
    BY <2>2
<1>3. ASSUME NEW r \in reviews'
      PROVE  status'[r.txn] \in {"active", "committed"}
  <2>1. r.txn \in Txns
    BY DEF TypeOK, Review, Txns
  <2> QED
    BY <2>1 DEF Alone, WrittenOK
<1> QED
  BY <1>1, <1>2, <1>3 DEF WrittenOK, ProfileLock
LEMMA WrittenStep ==
    ASSUME LedgerInv, TypeOK', [Next]_vars
    PROVE  WrittenOK'
<1>0. TypeOK /\ WrittenOK /\ LocksOK
  BY DEF LedgerInv
<1>1. ASSUME NEW a \in Attempts, AttemptWorks(a) PROVE WrittenOK'
  <2>1. a \in Txns /\ a \notin Reviewers /\ Alone(a)
    BY <1>0, <1>1, WorksAlone, LedgerAssumption DEF Txns
  <2>2. CASE StartAttempt(a)
    <3>1. WritesWell(a)
      BY <1>0, <2>2 DEF WrittenOK, WritesWell, StartAttempt, Begin
    <3> QED
      BY <1>0, <2>1, <3>1, WrittenByOthers
  <2>3. CASE AssertClaims(a)
    <3>1. WritesWell(a)
      BY <1>0, <2>1, <2>3 DEF TypeOK, WrittenOK, WritesWell, AssertClaims, At, Goto
    <3> QED
      BY <1>0, <2>1, <3>1, WrittenByOthers
  <2>4. CASE BeginGaps(a)
    <3>1. WritesWell(a)
      BY <1>0, <2>1, <2>4 DEF TypeOK, WrittenOK, WritesWell, BeginGaps, At, Goto, tables
    <3> QED
      BY <1>0, <2>1, <3>1, WrittenByOthers
  <2>5. CASE RaiseGap(a)
    <3>1. WritesWell(a)
      BY <1>0, <2>1, <2>5 DEF WrittenOK, WritesWell, RaiseGap, At
    <3> QED
      BY <1>0, <2>1, <3>1, WrittenByOthers
  <2>6. CASE Records(a)
    <3>1. WritesWell(a)
      BY <1>0, <2>1, <2>6 DEF WrittenOK, WritesWell, Records, At
    <3> QED
      BY <1>0, <2>1, <3>1, WrittenByOthers
  <2>7. CASE FinishAttempt(a)
    <3>1. ProfileLock \in holds[a]
      BY <1>0, <2>7 DEF LocksOK, FinishAttempt
    <3>2. WritesWell(a)
      BY <1>0, <2>1, <2>7, <3>1 DEF TypeOK, WrittenOK, WritesWell, FinishAttempt, At, Goto, tables
    <3> QED
      BY <1>0, <2>1, <3>2, WrittenByOthers
  <2> QED
    BY <1>1, <2>2, <2>3, <2>4, <2>5, <2>6, <2>7 DEF AttemptWorks
<1>2. ASSUME NEW h \in Reviewers, ReviewerWorks(h) PROVE WrittenOK'
  <2>1. h \in Txns /\ Alone(h)
    BY <1>0, <1>2, WorksAlone DEF Txns
  <2>2. CASE Decide(h)
    <3>1. WritesWell(h)
      BY <1>0, <2>2 DEF WrittenOK, WritesWell, Decide, Begin, tables
    <3> QED
      BY <1>0, <2>1, <3>1, WrittenByOthers
  <2>3. CASE LockCandidate(h)
    <3>1. WritesWell(h)
      BY <1>0, <2>1, <2>3 DEF WrittenOK, WritesWell, LockCandidate, At, tables
    <3> QED
      BY <1>0, <2>1, <3>1, WrittenByOthers
  <2>4. CASE RecordReview(h)
    <3>0. /\ \A c \in claims : c.txn # h
          /\ \A e \in events : e.txn # h
      BY <1>0, <2>4 DEF WrittenOK, RecordReview, At
    <3>1. WritesWell(h)
      BY <1>0, <2>1, <2>4, <3>0 DEF TypeOK, WritesWell, RecordReview, At, Goto
    <3> QED
      BY <1>0, <2>1, <3>1, WrittenByOthers
  <2>5. CASE ReadGap(h)
    <3>1. WritesWell(h)
      BY <1>0, <2>1, <2>5 DEF TypeOK, WrittenOK, WritesWell, ReadGap, At, Goto, tables
    <3> QED
      BY <1>0, <2>1, <3>1, WrittenByOthers
  <2>6. CASE ResolveGap(h)
    <3>0. /\ NewEvent(h, GapOf(h), "RESOLVED").kind = "RESOLVED"
          /\ NewEvent(h, GapOf(h), "RESOLVED").txn = h
      BY DEF NewEvent
    <3>1. WritesWell(h)
      BY <1>0, <2>1, <2>6, <3>0 DEF TypeOK, WrittenOK, WritesWell, ResolveGap, At, Goto
    <3> QED
      BY <1>0, <2>1, <3>1, WrittenByOthers
  <2> QED
    BY <1>2, <2>2, <2>3, <2>4, <2>5, <2>6 DEF ReviewerWorks
<1>3. ASSUME NEW t \in Txns, Rebuilds(t) PROVE WrittenOK'
  <2>1. Alone(t)
    BY <1>0, <1>3, WorksAlone
  <2>2. CASE BeginRebuild(t)
    <3>1. WritesWell(t)
      BY <1>0, <2>2 DEF WrittenOK, WritesWell, BeginRebuild, Begin, tables
    <3> QED
      BY <1>0, <2>1, <3>1, WrittenByOthers
  <2>3. CASE RebuildAll(t)
    <3>1. WritesWell(t)
      BY <1>0, <2>3 DEF TypeOK, WrittenOK, WritesWell, RebuildAll, At, Goto, tables
    <3> QED
      BY <1>0, <2>1, <3>1, WrittenByOthers
  <2> QED
    BY <1>3, <2>2, <2>3 DEF Rebuilds
<1>4. ASSUME NEW t \in Txns, Commit(t) PROVE WrittenOK'
  <2>1. Alone(t)
    BY <1>0, <1>4, CommonAlone
  <2>2. status'[t] = "committed"
    BY <1>0, <1>4 DEF TypeOK, Commit
  <2>3. WritesWell(t)
    BY <1>0, <1>4, <2>2 DEF WritesWell, WrittenOK, Commit, tables
  <2> QED
    BY <1>0, <2>1, <2>3, WrittenByOthers
<1>5. ASSUME NEW t \in Txns, Fails(t) PROVE WrittenOK'
  <2>1. Alone(t)
    BY <1>0, <1>5, WorksAlone
  <2>2. WritesWell(t)
    BY <1>5 DEF WritesWell, Fails, Abort
  <2> QED
    BY <1>0, <2>1, <2>2, WrittenByOthers
<1>6. CASE UNCHANGED vars
  BY <1>0, <1>6 DEF WrittenOK, vars, tables
<1> QED
  BY <1>1, <1>2, <1>3, <1>4, <1>5, <1>6, StepCases
-----------------------------------------------------------------------------
(***************************************************************************)
(* Reviews.                                                                *)
(***************************************************************************)

\* A step by anybody who is not at the first two statements of a decision.
LEMMA ReviewsQuiet ==
    ASSUME TypeOK, ReviewsOK, NEW t \in Txns, Alone(t), reviews' \subseteq reviews,
           t \in Reviewers => status'[t] # "idle",
           t \in Reviewers /\ status'[t] = "active" =>
              /\ status[t] = "active" /\ asked'[t] = asked[t]
              /\ pc'[t] \notin {"lock", "confirm"}
    PROVE  ReviewsOK'
<1>1. ASSUME NEW r \in reviews', status'[r.txn] = "active"
      PROVE  pc'[r.txn] \notin {"lock", "confirm"} /\ r.candidate = asked'[r.txn].candidate
  <2>1. r \in reviews /\ r.txn \in Reviewers /\ r.txn \in Txns
    BY DEF TypeOK, Review, Txns
  <2> QED
    BY <1>1, <2>1 DEF ReviewsOK, Alone
<1>2. ASSUME NEW h \in Reviewers
      PROVE  /\ status'[h] = "idle" => h \notin operative'
             /\ status'[h] = "active" =>
                   /\ pc'[h] = "lock" => h \notin operative'
                   /\ pc'[h] = "confirm" /\ h \in operative' =>
                         \A r \in reviews' : r.operative => r.candidate # asked'[h].candidate
  BY <1>2 DEF ReviewsOK, Alone, Txns
<1>3. OneOperativeReview'
  BY DEF ReviewsOK, OneOperativeReview
<1> QED
  BY <1>1, <1>2, <1>3 DEF ReviewsOK

LEMMA DecideReviews ==
    ASSUME LedgerInv, NEW h \in Reviewers, Decide(h)
    PROVE  ReviewsOK'
<1>0. TypeOK /\ ReviewsOK /\ WrittenOK /\ h \in Txns
  BY DEF LedgerInv, Txns
<1>1. /\ reviews' = reviews /\ operative' = operative /\ status[h] = "idle"
      /\ pc' = [pc EXCEPT ![h] = "lock"] /\ status' = [status EXCEPT ![h] = "active"]
  BY DEF Decide, Begin, tables
<1>2. Alone(h)
  BY <1>0, ReviewerAlone
<1>3. ASSUME NEW r \in reviews, status'[r.txn] = "active"
      PROVE  pc'[r.txn] \notin {"lock", "confirm"} /\ r.candidate = asked'[r.txn].candidate
  <2>1. r.txn \in Reviewers /\ r.txn \in Txns /\ r.txn # h
    BY <1>0, <1>1 DEF TypeOK, Review, Txns, WrittenOK
  <2> QED
    BY <1>0, <1>2, <1>3, <2>1 DEF ReviewsOK, Alone
<1>4. ASSUME NEW s \in Reviewers
      PROVE  /\ status'[s] = "idle" => s \notin operative
             /\ status'[s] = "active" =>
                   /\ pc'[s] = "lock" => s \notin operative
                   /\ pc'[s] = "confirm" /\ s \in operative =>
                         \A r \in reviews : r.operative => r.candidate # asked'[s].candidate
  <2>1. CASE s = h
    BY <1>0, <1>1, <2>1 DEF TypeOK, ReviewsOK
  <2>2. CASE s # h
    BY <1>0, <1>2, <2>2 DEF ReviewsOK, Alone, Txns
  <2> QED
    BY <2>1, <2>2
<1> QED
  BY <1>0, <1>1, <1>3, <1>4 DEF ReviewsOK, OneOperativeReview

\* The candidate lock shows every operative review there is, or will be, to
\* whoever takes it.
LEMMA LockReviews ==
    ASSUME LedgerInv, NEW h \in Reviewers, LockCandidate(h)
    PROVE  ReviewsOK'
<1>0. /\ TypeOK /\ ReviewsOK /\ WrittenOK /\ LocksOK /\ h \in Txns
      /\ status[h] = "active" /\ pc[h] = "lock"
  BY DEF LedgerInv, Txns, LockCandidate, At
<1> DEFINE c == asked[h].candidate
<1>1. /\ reviews' = reviews /\ asked' = asked /\ status' = status
      /\ pc' = [pc EXCEPT ![h] = "confirm"] /\ ~Locked(h, c)
      /\ operative' = IF \E r \in reviews : r.candidate = c /\ r.operative /\ Sees(h, r.txn)
                        THEN operative ELSE operative \cup {h}
  BY DEF LockCandidate, tables, Goto, CandidateLockFree
<1>2. ASSUME NEW r \in reviews, r.operative, r.candidate = c PROVE Sees(h, r.txn)
  <2>1. r.txn \in Reviewers /\ r.txn \in Txns /\ status[r.txn] \in {"active", "committed"}
    BY <1>0 DEF TypeOK, Review, Txns, WrittenOK
  <2>2. CASE status[r.txn] = "active" /\ r.txn # h
    <3>1. c \in holds[r.txn]
      BY <1>0, <1>2, <2>1, <2>2 DEF ReviewsOK, LocksOK
    <3> QED
      BY <1>1, <2>1, <2>2, <3>1 DEF Locked
  <2> QED
    BY <2>1, <2>2 DEF Sees
<1>3. ASSUME NEW r \in reviews, status[r.txn] = "active"
      PROVE  pc'[r.txn] \notin {"lock", "confirm"} /\ r.candidate = asked[r.txn].candidate
  BY <1>0, <1>1, <1>3 DEF ReviewsOK, TypeOK
<1>4. ASSUME NEW s \in Reviewers
      PROVE  /\ status[s] = "idle" => s \notin operative'
             /\ status[s] = "active" =>
                   /\ pc'[s] = "lock" => s \notin operative'
                   /\ pc'[s] = "confirm" /\ s \in operative' =>
                         \A r \in reviews : r.operative => r.candidate # asked[s].candidate
  <2>1. CASE s = h
    <3>1. pc'[h] = "confirm"
      BY <1>0, <1>1 DEF TypeOK
    <3>2. h \in operative' => ~\E r \in reviews : r.candidate = c /\ r.operative /\ Sees(h, r.txn)
      BY <1>0, <1>1 DEF ReviewsOK
    <3> QED
      BY <1>0, <1>2, <2>1, <3>1, <3>2
  <2>2. CASE s # h
    <3>1. pc'[s] = pc[s] /\ (s \in operative' <=> s \in operative)
      BY <1>0, <1>1, <2>2 DEF TypeOK
    <3> QED
      BY <1>0, <3>1 DEF ReviewsOK
  <2> QED
    BY <2>1, <2>2
<1> QED
  BY <1>0, <1>1, <1>3, <1>4 DEF ReviewsOK, OneOperativeReview

\* Under the lock the first decision is still the first when it is recorded.
LEMMA RecordReviews ==
    ASSUME LedgerInv, NEW h \in Reviewers, RecordReview(h)
    PROVE  ReviewsOK'
<1>0. /\ TypeOK /\ ReviewsOK /\ LocksOK /\ h \in Txns
      /\ status[h] = "active" /\ pc[h] = "confirm"
  BY DEF LedgerInv, Txns, RecordReview, At
<1> DEFINE c == asked[h].candidate
           new == [txn |-> h, candidate |-> c, operative |-> h \in operative,
                   decision |-> asked[h].decision]
<1>1. /\ reviews' = reviews \cup {new}
      /\ asked' = asked /\ status' = status /\ operative' = operative
      /\ pc'[h] \notin {"lock", "confirm"}
      /\ \A s \in Txns : s # h => pc'[s] = pc[s]
  BY <1>0 DEF RecordReview, work, Goto, TypeOK
<1>2. new.txn = h /\ new.candidate = c /\ (new.operative <=> h \in operative)
  OBVIOUS
<1>3. ASSUME NEW r \in reviews', status[r.txn] = "active"
      PROVE  pc'[r.txn] \notin {"lock", "confirm"} /\ r.candidate = asked[r.txn].candidate
  <2>1. CASE r = new
    BY <1>1, <1>2, <2>1
  <2>2. CASE r \in reviews
    <3>1. r.txn \in Txns
      BY <1>0, <2>2 DEF TypeOK, Review, Txns
    <3> QED
      BY <1>0, <1>1, <1>3, <2>2, <3>1 DEF ReviewsOK
  <2> QED
    BY <1>1, <2>1, <2>2
<1>4. ASSUME NEW s \in Reviewers
      PROVE  /\ status[s] = "idle" => s \notin operative
             /\ status[s] = "active" =>
                   /\ pc'[s] = "lock" => s \notin operative
                   /\ pc'[s] = "confirm" /\ s \in operative =>
                         \A r \in reviews' : r.operative => r.candidate # asked[s].candidate
  <2>1. s \in Txns
    BY DEF Txns
  <2>2. CASE s = h
    BY <1>0, <1>1, <2>2
  <2>3. CASE s # h
    <3>1. pc'[s] = pc[s]
      BY <1>1, <2>1, <2>3
    <3>2. ASSUME status[s] = "active", pc[s] = "confirm" PROVE asked[s].candidate # c
      <4>1. asked[s].candidate \in holds[s] /\ c \in holds[h]
        BY <1>0, <3>2 DEF LocksOK
      <4>2. holds[s] \cap holds[h] = {}
        BY <1>0, <2>1, <2>3 DEF LocksOK
      <4> QED
        BY <4>1, <4>2
    <3> QED
      BY <1>0, <1>1, <1>2, <3>1, <3>2 DEF ReviewsOK
  <2> QED
    BY <2>2, <2>3
<1>5. ASSUME NEW r \in reviews', NEW o \in reviews',
             r.candidate = o.candidate, r.operative, o.operative
      PROVE  r = o
  <2>1. h \in operative => \A x \in reviews : x.operative => x.candidate # c
    BY <1>0 DEF ReviewsOK
  <2>2. CASE r \in reviews /\ o \in reviews
    BY <1>0, <1>5, <2>2 DEF ReviewsOK, OneOperativeReview
  <2> QED
    BY <1>1, <1>2, <1>5, <2>1, <2>2
<1> QED
  BY <1>1, <1>3, <1>4, <1>5 DEF ReviewsOK, OneOperativeReview

LEMMA ReviewsStep ==
    ASSUME LedgerInv, [Next]_vars
    PROVE  ReviewsOK'
<1>0. TypeOK /\ ReviewsOK
  BY DEF LedgerInv
<1>1. ASSUME NEW a \in Attempts, AttemptWorks(a) PROVE ReviewsOK'
  <2>1. a \in Txns /\ a \notin Reviewers /\ Alone(a)
    BY <1>0, <1>1, WorksAlone, LedgerAssumption DEF Txns
  <2>2. reviews' = reviews
    BY <1>1 DEF AttemptWorks, StartAttempt, AssertClaims, BeginGaps, RaiseGap, Records,
       FinishAttempt, tables
  <2> QED
    BY <1>0, <2>1, <2>2, ReviewsQuiet
<1>2. ASSUME NEW h \in Reviewers, ReadGap(h) \/ ResolveGap(h) PROVE ReviewsOK'
  <2>1. h \in Txns /\ Alone(h)
    BY <1>0, <1>2, ReviewerAlone DEF Txns
  <2>2. /\ reviews' = reviews /\ asked' = asked /\ status' = status /\ status[h] = "active"
        /\ pc'[h] \notin {"lock", "confirm"}
    BY <1>0, <1>2, <2>1 DEF TypeOK, ReadGap, ResolveGap, At, Goto, tables, work
  <2> QED
    BY <1>0, <2>1, <2>2, ReviewsQuiet
<1>3. ASSUME NEW t \in Txns, Rebuilds(t) \/ Commit(t) \/ Fails(t) PROVE ReviewsOK'
  <2>1. Alone(t)
    BY <1>0, <1>3, WorksAlone, CommonAlone
  <2>2. reviews' \subseteq reviews
    BY <1>3 DEF Rebuilds, BeginRebuild, RebuildAll, Commit, Fails, Abort, tables
  <2>3. CASE t \in Rebuilders /\ BeginRebuild(t)
    BY <1>0, <2>1, <2>2, <2>3, ReviewsQuiet, LedgerAssumption
  <2>4. CASE RebuildAll(t)
    <3>1. /\ status' = status /\ status[t] = "active" /\ asked' = asked
          /\ pc'[t] \notin {"lock", "confirm"}
      BY <1>0, <2>4 DEF TypeOK, RebuildAll, At, Goto, work
    <3> QED
      BY <1>0, <2>1, <2>2, <3>1, ReviewsQuiet
  <2>5. CASE Commit(t) \/ Fails(t)
    <3>1. status'[t] \notin {"idle", "active"}
      BY <1>0, <2>5 DEF TypeOK, Commit, Fails, Abort, Ends
    <3> QED
      BY <1>0, <2>1, <2>2, <3>1, ReviewsQuiet
  <2> QED
    BY <1>3, <2>3, <2>4, <2>5 DEF Rebuilds
<1>4. CASE UNCHANGED vars
  BY <1>0, <1>4 DEF ReviewsOK, OneOperativeReview, vars, tables, work
<1> QED
  BY <1>1, <1>2, <1>3, <1>4, StepCases, DecideReviews, LockReviews, RecordReviews
     DEF ReviewerWorks
-----------------------------------------------------------------------------
(***************************************************************************)
(* Resolved gaps.                                                          *)
(***************************************************************************)

\* What is seen stays to be seen, unless the transaction that sees it goes.
LEMMA SeenKept ==
    ASSUME TypeOK, NEW t \in Txns, Alone(t), status[t] # "committed",
           NEW s \in Txns, s # t \/ claims \subseteq claims'
    PROVE  \A k : HeldFor(s, k) => HeldFor(s, k)'
<1>1. \A c \in claims : c.txn \in Txns
  BY DEF TypeOK, Claim
<1>2. \A c \in SeenClaims(s) : c \in claims' /\ (c.txn = s \/ status'[c.txn] = "committed")
  BY <1>1 DEF SeenClaims, Sees, Alone
<1> QED
  BY <1>2 DEF HeldFor, SeenClaims, Sees

\* A step that resolves nothing, by anybody who is not about to.
LEMMA ResolvedQuiet ==
    ASSUME TypeOK, ResolvedOK, NEW t \in Txns, Alone(t), status[t] # "committed",
           \A e \in events' : e.kind = "RESOLVED" => e \in events,
           claims \subseteq claims' \/ (status'[t] # "active" /\ \A e \in events' : e.txn # t),
           t \in Reviewers /\ status'[t] = "active" /\ pc'[t] \in {"read", "resolve"} =>
              HeldFor(t, asked[t].candidate.key)' /\ asked'[t] = asked[t],
           t \in Attempts => status'[t] # "trigger"
    PROVE  ResolvedOK'
<1>1. ASSUME NEW h \in Reviewers, status'[h] = "active", pc'[h] \in {"read", "resolve"}
      PROVE  HeldFor(h, asked[h].candidate.key)'
  <2>1. h \in Txns
    BY DEF Txns
  <2>2. CASE h # t
    <3>1. /\ status[h] = "active" /\ pc[h] \in {"read", "resolve"} /\ asked'[h] = asked[h]
      BY <1>1, <2>1, <2>2 DEF Alone
    <3>2. HeldFor(h, asked[h].candidate.key)
      BY <3>1 DEF ResolvedOK
    <3> QED
      BY <2>1, <2>2, <3>1, <3>2, SeenKept DEF HeldFor
  <2> QED
    BY <1>1, <2>2
<1>2. ASSUME NEW e \in events', e.kind = "RESOLVED"
      PROVE  /\ e.txn \in Reviewers /\ e.gap.kind = "INSUFFICIENT_EVIDENCE"
             /\ HeldFor(e.txn, e.gap.key)'
  <2>1. e \in events /\ e.txn \in Txns
    BY <1>2 DEF TypeOK, Event
  <2>2. HeldFor(e.txn, e.gap.key)
    BY <1>2, <2>1 DEF ResolvedOK
  <2>3. e.txn # t \/ claims \subseteq claims'
    OBVIOUS
  <2> QED
    BY <1>2, <2>1, <2>2, <2>3, SeenKept DEF ResolvedOK
<1>3. GapEndsOnce'
  BY DEF ResolvedOK, GapEndsOnce, Alone, Txns
<1> QED
  BY <1>1, <1>2, <1>3 DEF ResolvedOK

\* A confirmation leaves its attribute held, by itself or by somebody before.
LEMMA ConfirmedIsHeld ==
    ASSUME LedgerInv, TypeOK', NEW h \in Reviewers, RecordReview(h), IsConfirmation(h)
    PROVE  HeldFor(h, asked[h].candidate.key)'
<1>0. TypeOK /\ WrittenOK /\ PhaseOK /\ h \in Txns /\ status[h] = "active"
  BY DEF LedgerInv, RecordReview, At, Txns
<1> DEFINE k == asked[h].candidate.key
           s == asked[h].candidate.source
           new == [key |-> k, source |-> s, txn |-> h]
<1>1. ~ClaimInFlight(h, k, s) /\ claims' = Asserted(h, {<<k, s>>})
      /\ status' = status /\ asked' = asked
  BY DEF RecordReview, work
<1>2. CASE \E o \in claims : o.key = k /\ o.source = s
  <2>1. PICK o \in claims : o.key = k /\ o.source = s
    BY <1>2
  <2>2. o.txn = h \/ status[o.txn] = "committed"
    BY <1>0, <1>1, <2>1 DEF ClaimInFlight, WrittenOK
  <2>3. o \in claims'
    BY <1>1 DEF Asserted
  <2> QED
    BY <1>1, <2>1, <2>2, <2>3 DEF HeldFor, SeenClaims, Sees
<1>3. CASE ~\E o \in claims : o.key = k /\ o.source = s
  <2>1. new \in Claim
    BY <1>0, AskedType DEF Claim
  <2>2. new \in claims'
    BY <1>1, <1>3, <2>1 DEF Asserted
  <2> QED
    BY <1>1, <2>2 DEF HeldFor, SeenClaims, Sees
<1> QED
  BY <1>2, <1>3

\* Whoever resolves a gap has it locked against those who have touched it, and
\* sees what the others did: nobody resolved it before.
LEMMA ResolveOnce ==
    ASSUME LedgerInv, NEW h \in Reviewers, ResolveGap(h)
    PROVE  ResolvedOK'
<1>0. /\ TypeOK /\ WrittenOK /\ ResolvedOK /\ h \in Txns /\ h \notin Attempts
      /\ status[h] = "active" /\ pc[h] = "resolve"
  BY LedgerAssumption DEF LedgerInv, ResolveGap, At, Txns
<1> DEFINE g == GapOf(h)
           new == NewEvent(h, g, "RESOLVED")
<1>1. /\ events' = events \cup {new} /\ claims' = claims /\ status' = status /\ asked' = asked
      /\ pc' = [pc EXCEPT ![h] = "profile"] /\ GapHolders(h, g) = {} /\ ~AlreadyEnded(h)
  BY DEF ResolveGap, Goto, work
<1>2. \A s, k : HeldFor(s, k)' <=> HeldFor(s, k)
  BY <1>1 DEF HeldFor, SeenClaims, Sees
<1>3. /\ new.kind = "RESOLVED" /\ new.txn = h /\ new.gap = g
      /\ g.kind = "INSUFFICIENT_EVIDENCE" /\ g.key = asked[h].candidate.key
  BY DEF NewEvent, GapOf
<1>4. HeldFor(h, g.key)
  BY <1>0, <1>3 DEF ResolvedOK
<1>5. ASSUME NEW e \in events, e.kind = "RESOLVED", e.gap = g PROVE FALSE
  <2>1. e.txn \in Txns /\ status[e.txn] \in {"active", "committed"}
    BY <1>0 DEF TypeOK, Event, WrittenOK
  <2>2. ~Sees(h, e.txn)
    BY <1>1, <1>5 DEF AlreadyEnded, EventsOn
  <2>3. e.txn \in GapHolders(h, g)
    BY <1>5, <2>1, <2>2 DEF GapHolders, Sees
  <2> QED
    BY <1>1, <2>3
<1>6. ASSUME NEW s \in Reviewers, status[s] = "active", pc'[s] \in {"read", "resolve"}
      PROVE  HeldFor(s, asked[s].candidate.key)
  BY <1>0, <1>1, <1>6 DEF ResolvedOK, TypeOK
<1>7. ASSUME NEW e \in events', e.kind = "RESOLVED"
      PROVE  e.txn \in Reviewers /\ e.gap.kind = "INSUFFICIENT_EVIDENCE" /\ HeldFor(e.txn, e.gap.key)
  BY <1>0, <1>1, <1>3, <1>4, <1>7 DEF ResolvedOK
<1>8. GapEndsOnce'
  BY <1>0, <1>1, <1>3, <1>5 DEF ResolvedOK, GapEndsOnce
<1> QED
  BY <1>1, <1>2, <1>6, <1>7, <1>8 DEF ResolvedOK

LEMMA ResolvedStep ==
    ASSUME LedgerInv, TypeOK', [Next]_vars
    PROVE  ResolvedOK'
<1>0. TypeOK /\ ResolvedOK
  BY DEF LedgerInv
<1>1. ASSUME NEW a \in Attempts, AttemptWorks(a) PROVE ResolvedOK'
  <2>1. a \in Txns /\ a \notin Reviewers /\ Alone(a) /\ status[a] # "committed"
    BY <1>0, <1>1, WorksAlone, LedgerAssumption DEF Txns
  <2>2. claims \subseteq claims' /\ \A e \in events' : e.kind = "RESOLVED" => e \in events
    <3>1. \A g : /\ NewEvent(a, g, "RAISED").kind # "RESOLVED"
                 /\ NewEvent(a, g, "ATTEMPTED").kind # "RESOLVED"
      BY DEF NewEvent
    <3>2. CASE RaiseGap(a)
      BY <3>1, <3>2 DEF RaiseGap
    <3>3. CASE Records(a)
      BY <3>1, <3>3 DEF Records
    <3>4. CASE StartAttempt(a) \/ AssertClaims(a) \/ BeginGaps(a) \/ FinishAttempt(a)
      BY <3>4 DEF StartAttempt, AssertClaims, Asserted, BeginGaps, FinishAttempt, tables
    <3> QED
      BY <1>1, <3>2, <3>3, <3>4 DEF AttemptWorks
  <2>3. status'[a] # "trigger"
    BY <1>0, <1>1, <2>1 DEF TypeOK, AttemptWorks, StartAttempt, Begin, AssertClaims, BeginGaps,
       RaiseGap, Records, FinishAttempt, At
  <2> QED
    BY <1>0, <2>1, <2>2, <2>3, ResolvedQuiet
<1>2. ASSUME NEW h \in Reviewers, Decide(h) \/ LockCandidate(h) \/ RecordReview(h) \/ ReadGap(h)
      PROVE  ResolvedOK'
  <2>1. h \in Txns /\ h \notin Attempts /\ Alone(h) /\ status[h] # "committed"
    BY <1>0, <1>2, WorksAlone, LedgerAssumption DEF Txns, ReviewerWorks
  <2>2. claims \subseteq claims' /\ events' = events
    BY <1>2 DEF Decide, LockCandidate, RecordReview, Asserted, ReadGap, tables
  <2>3. CASE Decide(h) \/ LockCandidate(h)
    <3>1. pc'[h] \notin {"read", "resolve"}
      BY <1>0, <2>1, <2>3 DEF TypeOK, Decide, Begin, LockCandidate, Goto
    <3> QED
      BY <1>0, <2>1, <2>2, <3>1, ResolvedQuiet
  <2>4. CASE RecordReview(h)
    <3>1. asked' = asked /\ (pc'[h] \in {"read", "resolve"} => IsConfirmation(h))
      BY <1>0, <2>1, <2>4 DEF TypeOK, RecordReview, Goto, work
    <3>2. pc'[h] \in {"read", "resolve"} => HeldFor(h, asked[h].candidate.key)'
      BY <2>4, <3>1, ConfirmedIsHeld
    <3> QED
      BY <1>0, <2>1, <2>2, <3>1, <3>2, ResolvedQuiet
  <2>5. CASE ReadGap(h)
    <3>1. asked' = asked /\ HeldFor(h, asked[h].candidate.key)
      BY <1>0, <2>5 DEF ReadGap, At, work, ResolvedOK
    <3>2. HeldFor(h, asked[h].candidate.key)'
      BY <2>5, <3>1 DEF ReadGap, HeldFor, SeenClaims, Sees, tables, work
    <3> QED
      BY <1>0, <2>1, <2>2, <3>1, <3>2, ResolvedQuiet
  <2> QED
    BY <1>2, <2>3, <2>4, <2>5
<1>3. ASSUME NEW t \in Txns, Rebuilds(t) PROVE ResolvedOK'
  <2>1. Alone(t) /\ status[t] # "committed"
    BY <1>0, <1>3, WorksAlone
  <2>2. /\ claims' = claims /\ events' = events
        /\ status'[t] = "active" /\ pc'[t] \notin {"read", "resolve"}
    BY <1>0, <1>3 DEF TypeOK, Rebuilds, BeginRebuild, Begin, RebuildAll, At, Goto, tables
  <2> QED
    BY <1>0, <2>1, <2>2, ResolvedQuiet
<1>4. ASSUME NEW t \in Txns, Commit(t) \/ Fails(t) PROVE ResolvedOK'
  <2>1. Alone(t) /\ status[t] # "committed"
    BY <1>0, <1>4, WorksAlone, CommonAlone DEF Commit, At
  <2>2. status'[t] \notin {"active", "trigger"}
    BY <1>0, <1>4 DEF TypeOK, Commit, Fails, Abort, Ends
  <2>3. \/ claims' = claims /\ events' = events
        \/ events' = {e \in events : e.txn # t}
    BY <1>4 DEF Commit, Fails, Abort, tables
  <2> QED
    BY <1>0, <2>1, <2>2, <2>3, ResolvedQuiet
<1>5. CASE UNCHANGED vars
  BY <1>0, <1>5 DEF ResolvedOK, GapEndsOnce, HeldFor, SeenClaims, Sees, vars, tables, work
<1> QED
  BY <1>1, <1>2, <1>3, <1>4, <1>5, StepCases, ResolveOnce DEF ReviewerWorks
-----------------------------------------------------------------------------
(***************************************************************************)
(* What the profile lock buys.                                             *)
(***************************************************************************)

\* While s has the profile lock nothing appears to it but its own work: who
\* would commit a claim or an event needs the lock.
LEMMA LockHides ==
    ASSUME LedgerInv, TypeOK', NEW t \in Txns, Alone(t),
           Commit(t) \/ (status[t] # "committed" /\ status'[t] # "committed"),
           NEW s \in Txns, s # t, ProfileLock \in holds[s]
    PROVE  /\ SeenClaims(s)' = SeenClaims(s) /\ SeenEvents(s)' = SeenEvents(s)
           /\ \A k : HeldFor(s, k)' <=> HeldFor(s, k)
           /\ Evidenced(s)' = Evidenced(s) /\ OpenGaps(s)' = OpenGaps(s)
<1>0. TypeOK /\ LocksOK /\ WrittenOK
  BY DEF LedgerInv
<1>1. SeenClaims(s)' = SeenClaims(s) /\ SeenEvents(s)' = SeenEvents(s)
  <2>1. CASE status[t] # "committed" /\ status'[t] # "committed"
    BY <1>0, <2>1, Unseen
  <2>2. CASE Commit(t)
    <3>1. /\ claims' = claims /\ events' = events /\ status[t] = "active" /\ pc[t] = "commit"
      BY <2>2 DEF Commit, At, tables
    <3>2. holds[s] \cap holds[t] = {}
      BY <1>0 DEF LocksOK
    <3>3. /\ \A c \in claims : c.txn # t
          /\ \A e \in events : e.txn # t
      BY <1>0, <3>1, <3>2 DEF WrittenOK
    <3>4. \A u \in Txns \ {t} : status'[u] = status[u]
      BY DEF Alone
    <3>5. /\ \A c \in claims : c.txn \in Txns
          /\ \A e \in events : e.txn \in Txns
      BY <1>0 DEF TypeOK, Claim, Event
    <3> QED
      BY <3>1, <3>3, <3>4, <3>5 DEF SeenClaims, SeenEvents, Sees
  <2> QED
    BY <2>1, <2>2
<1>2. \A k : HeldFor(s, k)' <=> HeldFor(s, k)
  BY <1>1 DEF HeldFor
<1>3. Evidenced(s)' = Evidenced(s)
  BY <1>1 DEF Evidenced, SeenClaims
<1>4. \A g : EventsOn(s, g)' = EventsOn(s, g)
  BY <1>1 DEF EventsOn, SeenEvents
<1>5. OpenGaps(s)' = OpenGaps(s)
  BY <1>4 DEF OpenGaps, IsOpen, Latest
<1> QED
  BY <1>1, <1>2, <1>3, <1>5

\* What t itself reports as missing after the step it does not see held.
ReportsMissing(t) ==
    t \in Attempts /\ status'[t] = "active" =>
        /\ pc'[t] = "raise" => \A g \in todo'[t] : g.kind \in Missing => ~HeldFor(t, g.key)'
        /\ \A e \in events' : e.txn = t /\ e.gap.kind \in Missing => ~HeldFor(t, e.gap.key)'

LEMMA MissingByOthers ==
    ASSUME LedgerInv, TypeOK', NEW t \in Txns, Alone(t), ReportsMissing(t),
           Commit(t) \/ (status[t] # "committed" /\ status'[t] # "committed")
    PROVE  MissingOK'
<1>0. TypeOK /\ LocksOK /\ WrittenOK /\ MissingOK
  BY DEF LedgerInv
<1>1. ASSUME NEW a \in Attempts, At(a, "raise")', NEW g \in todo'[a], g.kind \in Missing
      PROVE  ~HeldFor(a, g.key)'
  <2>1. CASE a # t
    <3>1. a \in Txns /\ At(a, "raise") /\ g \in todo[a]
      BY <1>1, <2>1 DEF Txns, Alone, At
    <3>2. ProfileLock \in holds[a] /\ ~HeldFor(a, g.key)
      BY <1>0, <1>1, <3>1 DEF LocksOK, MissingOK
    <3> QED
      BY <2>1, <3>1, <3>2, LockHides
  <2> QED
    BY <1>1, <2>1 DEF ReportsMissing, At
<1>2. ASSUME NEW e \in events', status'[e.txn] = "active", e.txn \in Attempts,
             e.gap.kind \in Missing
      PROVE  ~HeldFor(e.txn, e.gap.key)'
  <2>1. CASE e.txn # t
    <3>1. e.txn \in Txns /\ e \in events /\ status[e.txn] = "active"
      BY <1>2, <2>1 DEF Txns, Alone
    <3>2. At(e.txn, "raise") \/ At(e.txn, "commit")
      BY <1>0, <1>2, <3>1, LedgerAssumption DEF WrittenOK, At
    <3>3. ProfileLock \in holds[e.txn]
      BY <1>0, <1>2, <3>1, <3>2 DEF LocksOK, WrittenOK, At
    <3>4. ~HeldFor(e.txn, e.gap.key)
      BY <1>0, <1>2, <3>1 DEF MissingOK
    <3> QED
      BY <2>1, <3>1, <3>3, <3>4, LockHides
  <2>2. CASE e.txn = t
    BY <1>2, <2>2 DEF ReportsMissing
  <2> QED
    BY <2>1, <2>2
<1> QED
  BY <1>1, <1>2 DEF MissingOK

LEMMA MissingStep ==
    ASSUME LedgerInv, TypeOK', [Next]_vars
    PROVE  MissingOK'
<1>0. TypeOK /\ PhaseOK /\ WrittenOK /\ MissingOK
  BY DEF LedgerInv
<1>1. ASSUME NEW a \in Attempts, AttemptWorks(a) PROVE MissingOK'
  <2>1. /\ a \in Txns /\ a \notin Reviewers /\ Alone(a)
        /\ status[a] # "committed" /\ status'[a] # "committed"
    BY <1>0, <1>1, WorksAlone, LedgerAssumption DEF Txns
  <2>2. CASE StartAttempt(a) \/ AssertClaims(a)
    <3>1. pc'[a] # "raise" /\ events' = events /\ \A e \in events : e.txn # a
      BY <1>0, <2>1, <2>2 DEF TypeOK, WrittenOK, StartAttempt, Begin, AssertClaims, At, Goto
    <3>2. ReportsMissing(a)
      BY <3>1 DEF ReportsMissing
    <3> QED
      BY <2>1, <3>2, MissingByOthers
  <2>3. CASE BeginGaps(a)
    <3>1. PICK doubts \in SUBSET [key: Evidenced(a), kind: Doubts] :
            todo' = [todo EXCEPT ![a] =
                       doubts \cup {[key |-> k, kind |-> MissingKind(a, k)] :
                                       k \in Keys \ Held(a)}]
      BY <2>3 DEF BeginGaps
    <3>2. \A k : HeldFor(a, k)' <=> HeldFor(a, k)
      BY <2>3 DEF BeginGaps, HeldFor, SeenClaims, Sees, tables
    <3>3. \A e \in events : e.txn # a
      BY <1>0, <2>1, <2>3 DEF WrittenOK, BeginGaps, At
    <3>4. ASSUME NEW g \in todo'[a], g.kind \in Missing PROVE ~HeldFor(a, g.key)
      <4>1. \A d \in doubts : d.kind \notin Missing
        BY DEF Doubts, Missing
      <4>2. PICK k \in Keys \ Held(a) : g = [key |-> k, kind |-> MissingKind(a, k)]
        BY <1>0, <3>1, <3>4, <4>1 DEF TypeOK
      <4>3. g.key \in Keys /\ g.key \notin Evidenced(a)
        BY <4>2 DEF Held
      <4> QED
        BY <4>3, SeenDecides
    <3>5. ReportsMissing(a)
      BY <2>3, <3>2, <3>3, <3>4 DEF ReportsMissing, BeginGaps, tables
    <3> QED
      BY <2>1, <3>5, MissingByOthers
  <2>4. CASE RaiseGap(a) \/ Records(a)
    <3>1. PICK g \in todo[a], kind \in {"RAISED", "ATTEMPTED"} :
            /\ events' = events \cup {NewEvent(a, g, kind)}
            /\ todo' = [todo EXCEPT ![a] = @ \ {g}]
      BY <2>4 DEF RaiseGap, Records
    <3>2. \A k : HeldFor(a, k)' <=> HeldFor(a, k)
      BY <2>4 DEF RaiseGap, Records, HeldFor, SeenClaims, Sees
    <3>3. At(a, "raise") /\ status' = status
      BY <2>4 DEF RaiseGap, Records
    <3>4. \A d \in todo[a] : d.kind \in Missing => ~HeldFor(a, d.key)
      BY <1>0, <3>3 DEF MissingOK
    <3>5. NewEvent(a, g, kind).gap = g
      BY DEF NewEvent
    <3>6. \A e \in events : e.txn = a /\ e.gap.kind \in Missing => ~HeldFor(a, e.gap.key)
      BY <1>0, <3>3 DEF MissingOK, At
    <3>7. todo'[a] \subseteq todo[a]
      BY <1>0, <3>1 DEF TypeOK
    <3>8. ReportsMissing(a)
      BY <3>1, <3>2, <3>4, <3>5, <3>6, <3>7 DEF ReportsMissing
    <3> QED
      BY <2>1, <3>8, MissingByOthers
  <2>5. CASE FinishAttempt(a)
    <3>1. /\ events' = events /\ pc'[a] # "raise"
          /\ \A k : HeldFor(a, k)' <=> HeldFor(a, k)
      BY <1>0, <2>1, <2>5 DEF TypeOK, FinishAttempt, Goto, HeldFor, SeenClaims, Sees, tables
    <3>2. \A e \in events : e.txn = a /\ e.gap.kind \in Missing => ~HeldFor(a, e.gap.key)
      BY <1>0, <2>5 DEF MissingOK, FinishAttempt, At
    <3>3. ReportsMissing(a)
      BY <3>1, <3>2 DEF ReportsMissing
    <3> QED
      BY <2>1, <3>3, MissingByOthers
  <2> QED
    BY <1>1, <2>2, <2>3, <2>4, <2>5 DEF AttemptWorks
<1>2. ASSUME NEW t \in Txns, (t \in Reviewers /\ ReviewerWorks(t)) \/ Rebuilds(t)
      PROVE  MissingOK'
  <2>1. /\ Alone(t) /\ t \notin Attempts
        /\ status[t] # "committed" /\ status'[t] # "committed"
    BY <1>0, <1>2, WorksAlone, LedgerAssumption DEF Rebuilds
  <2> QED
    BY <2>1, MissingByOthers DEF ReportsMissing
<1>3. ASSUME NEW t \in Txns, Commit(t) \/ Fails(t) PROVE MissingOK'
  <2>1. Alone(t) /\ (Commit(t) \/ (status[t] # "committed" /\ status'[t] # "committed"))
    BY <1>0, <1>3, WorksAlone, CommonAlone
  <2>2. status'[t] # "active"
    BY <1>0, <1>3 DEF TypeOK, Commit, Fails, Abort, Ends
  <2> QED
    BY <2>1, <2>2, MissingByOthers DEF ReportsMissing
<1>4. CASE UNCHANGED vars
  BY <1>0, <1>4 DEF MissingOK, At, HeldFor, SeenClaims, Sees, vars, tables, work
<1> QED
  BY <1>1, <1>2, <1>3, <1>4, StepCases DEF Txns
-----------------------------------------------------------------------------
(***************************************************************************)
(* The stored profile.                                                     *)
(***************************************************************************)

\* What t itself has derived after the step is what it sees.
DerivesSeen(t) ==
    status'[t] = "active" =>
        /\ t \in Attempts /\ pc'[t] = "raise" => draft'[t].covered = Evidenced(t)'
        /\ pc'[t] = "commit" /\ ProfileLock \in holds'[t] =>
              draft'[t] = [covered |-> Evidenced(t)', open |-> OpenGaps(t)']

DraftsAgree ==
    /\ \A a \in Attempts : At(a, "raise") => draft[a].covered = Evidenced(a)
    /\ \A t \in Txns : At(t, "commit") /\ ProfileLock \in holds[t] =>
          draft[t] = [covered |-> Evidenced(t), open |-> OpenGaps(t)]

LEMMA DraftByOthers ==
    ASSUME LedgerInv, TypeOK', NEW t \in Txns, Alone(t), DerivesSeen(t),
           Commit(t) \/ (status[t] # "committed" /\ status'[t] # "committed")
    PROVE  DraftsAgree'
<1>0. TypeOK /\ LocksOK /\ DraftsAgree
  BY DEF LedgerInv, DraftOK, DraftsAgree
<1>1. ASSUME NEW a \in Attempts, At(a, "raise")'
      PROVE  draft'[a].covered = Evidenced(a)'
  <2>1. CASE a # t
    <3>1. a \in Txns /\ At(a, "raise") /\ draft'[a] = draft[a]
      BY <1>1, <2>1 DEF Txns, Alone, At
    <3>2. ProfileLock \in holds[a] /\ draft[a].covered = Evidenced(a)
      BY <1>0, <3>1 DEF LocksOK, DraftsAgree
    <3> QED
      BY <2>1, <3>1, <3>2, LockHides
  <2> QED
    BY <1>1, <2>1 DEF DerivesSeen, At
<1>2. ASSUME NEW s \in Txns, At(s, "commit")', ProfileLock \in holds'[s]
      PROVE  draft'[s] = [covered |-> Evidenced(s)', open |-> OpenGaps(s)']
  <2>1. CASE s # t
    <3>1. At(s, "commit") /\ draft'[s] = draft[s] /\ ProfileLock \in holds[s]
      BY <1>2, <2>1 DEF Alone, At
    <3>2. draft[s] = [covered |-> Evidenced(s), open |-> OpenGaps(s)]
      BY <1>0, <3>1 DEF DraftsAgree
    <3>3. Evidenced(s)' = Evidenced(s) /\ OpenGaps(s)' = OpenGaps(s)
      BY <2>1, <3>1, LockHides
    <3> QED
      BY <3>1, <3>2, <3>3
  <2> QED
    BY <1>2, <2>1 DEF DerivesSeen, At
<1> QED
  BY <1>1, <1>2 DEF DraftsAgree, ProfileLock

\* The ledger of committed data and the profile, where t does not commit.
LEMMA ProfileKept ==
    ASSUME TypeOK, TypeOK', ProfileAgreesWithLedger, profile' = profile,
           NEW t \in Txns, Alone(t), status[t] # "committed", status'[t] # "committed"
    PROVE  ProfileAgreesWithLedger'
<1>1. /\ {c \in claims : IsCommitted(c.txn)}' = {c \in claims : IsCommitted(c.txn)}
      /\ {e \in events : IsCommitted(e.txn)}' = {e \in events : IsCommitted(e.txn)}
  BY Unseen
<1>2. CommittedKeys' = CommittedKeys
  BY <1>1 DEF CommittedKeys
<1>3. \A g : CommittedOn(g)' = CommittedOn(g)
  BY <1>1 DEF CommittedOn
<1> QED
  BY <1>2, <1>3 DEF ProfileAgreesWithLedger, IsOpen, Latest

\* The commit of a derived profile stores what is committed from then on; the
\* commit of a transaction without the lock changes neither side.
LEMMA ProfileCommit ==
    ASSUME LedgerInv, NEW t \in Txns, Commit(t)
    PROVE  ProfileAgreesWithLedger'
<1>0. /\ TypeOK /\ WrittenOK /\ DraftOK /\ At(t, "commit")
      /\ claims' = claims /\ events' = events /\ status' = [status EXCEPT ![t] = "committed"]
  BY DEF LedgerInv, Commit, tables
<1>1. /\ \A c \in claims : IsCommitted(c.txn)' <=> Sees(t, c.txn)
      /\ \A e \in events : IsCommitted(e.txn)' <=> Sees(t, e.txn)
  BY <1>0 DEF TypeOK, Claim, Event, IsCommitted, Sees
<1>2. CommittedKeys' = Evidenced(t)
  BY <1>0, <1>1 DEF CommittedKeys, Evidenced
<1>3. \A g : CommittedOn(g)' = EventsOn(t, g)
  BY <1>0, <1>1 DEF CommittedOn, EventsOn
<1>4. {g \in Gap : IsOpen(CommittedOn(g))}' = OpenGaps(t)
  BY <1>3 DEF OpenGaps, IsOpen, Latest
<1>5. CASE ProfileLock \in holds[t]
  <2>1. profile' = [covered |-> Evidenced(t), open |-> OpenGaps(t)]
    BY <1>0, <1>5 DEF Commit, DraftOK
  <2> QED
    BY <1>2, <1>4, <2>1 DEF ProfileAgreesWithLedger
<1>6. CASE ProfileLock \notin holds[t]
  <2>1. profile' = profile
    BY <1>6 DEF Commit
  <2>2. (\A c \in claims : c.txn # t) /\ (\A e \in events : e.txn # t)
    BY <1>0, <1>6 DEF WrittenOK, At
  <2>3. Evidenced(t) = CommittedKeys /\ \A g : EventsOn(t, g) = CommittedOn(g)
    BY <2>2 DEF Evidenced, CommittedKeys, EventsOn, CommittedOn, Sees, IsCommitted
  <2>4. OpenGaps(t) = {g \in Gap : IsOpen(CommittedOn(g))}
    BY <2>3 DEF OpenGaps
  <2> QED
    BY <1>0, <1>2, <1>4, <2>1, <2>3, <2>4 DEF DraftOK, ProfileAgreesWithLedger
<1> QED
  BY <1>5, <1>6

LEMMA DraftStep ==
    ASSUME LedgerInv, TypeOK', [Next]_vars
    PROVE  DraftOK'
<1>0. TypeOK /\ PhaseOK /\ LocksOK /\ DraftsAgree /\ ProfileAgreesWithLedger
  BY DEF LedgerInv, DraftOK, DraftsAgree
<1>1. ASSUME NEW a \in Attempts, AttemptWorks(a) PROVE DraftsAgree' /\ profile' = profile
  <2>1. /\ a \in Txns /\ Alone(a) /\ status[a] # "committed" /\ status'[a] # "committed"
    BY <1>0, <1>1, WorksAlone DEF Txns
  <2>2. CASE StartAttempt(a) \/ AssertClaims(a)
    <3>1. pc'[a] \notin {"raise", "commit"} /\ profile' = profile
      BY <1>0, <2>1, <2>2 DEF TypeOK, StartAttempt, Begin, AssertClaims, Goto
    <3> QED
      BY <2>1, <3>1, DraftByOthers DEF DerivesSeen
  <2>3. CASE BeginGaps(a)
    <3>1. /\ pc'[a] = "raise" /\ profile' = profile
          /\ claims' = claims /\ status' = status
          /\ draft'[a].covered = Evidenced(a)
      BY <1>0, <2>1, <2>3 DEF TypeOK, Profile, BeginGaps, Goto, tables
    <3>2. Evidenced(a)' = Evidenced(a)
      BY <3>1 DEF Evidenced, Sees
    <3>3. DerivesSeen(a)
      BY <3>1, <3>2 DEF DerivesSeen
    <3> QED
      BY <2>1, <3>1, <3>3, DraftByOthers
  <2>4. CASE RaiseGap(a) \/ Records(a)
    <3>1. /\ At(a, "raise") /\ pc' = pc /\ profile' = profile
          /\ claims' = claims /\ status' = status /\ draft' = draft
      BY <2>4 DEF RaiseGap, Records
    <3>2. Evidenced(a)' = Evidenced(a)
      BY <3>1 DEF Evidenced, Sees
    <3>3. DerivesSeen(a)
      BY <1>0, <3>1, <3>2 DEF DerivesSeen, DraftsAgree, At
    <3> QED
      BY <2>1, <3>1, <3>3, DraftByOthers
  <2>5. CASE FinishAttempt(a)
    <3>1. /\ At(a, "raise") /\ pc'[a] = "commit" /\ profile' = profile
          /\ claims' = claims /\ events' = events /\ status' = status
          /\ draft' = [draft EXCEPT ![a].open = OpenGaps(a)]
      BY <1>0, <2>1, <2>5 DEF TypeOK, FinishAttempt, Goto, tables
    <3>2. Evidenced(a)' = Evidenced(a) /\ OpenGaps(a)' = OpenGaps(a)
      BY <3>1 DEF Evidenced, OpenGaps, EventsOn, Sees, IsOpen, Latest
    <3>3. draft'[a] = [covered |-> Evidenced(a), open |-> OpenGaps(a)]
      BY <1>0, <2>1, <3>1 DEF TypeOK, Profile, DraftsAgree
    <3>4. DerivesSeen(a)
      BY <3>1, <3>2, <3>3 DEF DerivesSeen
    <3> QED
      BY <2>1, <3>1, <3>4, DraftByOthers
  <2> QED
    BY <1>1, <2>2, <2>3, <2>4, <2>5 DEF AttemptWorks
<1>2. ASSUME NEW h \in Reviewers, ReviewerWorks(h) PROVE DraftsAgree' /\ profile' = profile
  <2>1. /\ h \in Txns /\ h \notin Attempts /\ Alone(h)
        /\ status[h] # "committed" /\ status'[h] # "committed"
    BY <1>0, <1>2, WorksAlone, LedgerAssumption DEF Txns
  <2>2. profile' = profile
    BY <1>2 DEF ReviewerWorks, Decide, LockCandidate, RecordReview, ReadGap, ResolveGap
  <2>3. pc'[h] # "commit" \/ ProfileLock \notin holds'[h]
    BY <1>0, <1>2, <2>1 DEF TypeOK, LocksOK, ReviewerWorks, Decide, Begin, LockCandidate,
       RecordReview, ReadGap, ResolveGap, At, Goto
  <2> QED
    BY <2>1, <2>2, <2>3, DraftByOthers DEF DerivesSeen
<1>3. ASSUME NEW t \in Txns, Rebuilds(t) PROVE DraftsAgree' /\ profile' = profile
  <2>1. Alone(t) /\ status[t] # "committed" /\ status'[t] # "committed" /\ t \notin Attempts
    BY <1>0, <1>3, WorksAlone, LedgerAssumption DEF Rebuilds
  <2>2. CASE BeginRebuild(t)
    <3>1. pc'[t] # "commit" /\ profile' = profile
      BY <1>0, <2>2 DEF TypeOK, BeginRebuild, Begin
    <3> QED
      BY <2>1, <3>1, DraftByOthers DEF DerivesSeen
  <2>3. CASE RebuildAll(t)
    <3>1. /\ claims' = claims /\ events' = events /\ status' = status /\ profile' = profile
          /\ draft'[t] = [covered |-> Evidenced(t), open |-> OpenGaps(t)]
      BY <1>0, <2>3 DEF TypeOK, RebuildAll, tables
    <3>2. Evidenced(t)' = Evidenced(t) /\ OpenGaps(t)' = OpenGaps(t)
      BY <3>1 DEF Evidenced, OpenGaps, EventsOn, Sees, IsOpen, Latest
    <3>3. DerivesSeen(t)
      BY <2>1, <3>1, <3>2 DEF DerivesSeen
    <3> QED
      BY <2>1, <3>1, <3>3, DraftByOthers
  <2> QED
    BY <1>3, <2>2, <2>3 DEF Rebuilds
<1>4. ASSUME NEW t \in Txns, Commit(t) \/ Fails(t) PROVE DraftsAgree'
  <2>1. Alone(t) /\ (Commit(t) \/ (status[t] # "committed" /\ status'[t] # "committed"))
    BY <1>0, <1>4, WorksAlone, CommonAlone
  <2>2. status'[t] # "active"
    BY <1>0, <1>4 DEF TypeOK, Commit, Fails, Abort, Ends
  <2> QED
    BY <2>1, <2>2, DraftByOthers DEF DerivesSeen
<1>5. ASSUME NEW t \in Txns, Fails(t) PROVE profile' = profile
  BY <1>5 DEF Fails, Abort
<1>6. CASE UNCHANGED vars
  <2>1. /\ \A s : Evidenced(s)' = Evidenced(s) /\ OpenGaps(s)' = OpenGaps(s)
        /\ CommittedKeys' = CommittedKeys /\ \A g : CommittedOn(g)' = CommittedOn(g)
    BY <1>6 DEF Evidenced, OpenGaps, EventsOn, IsOpen, Latest, Sees, CommittedKeys, CommittedOn,
       IsCommitted, vars, tables
  <2>2. ProfileAgreesWithLedger'
    BY <1>0, <1>6, <2>1 DEF ProfileAgreesWithLedger, IsOpen, Latest, vars
  <2>3. DraftsAgree'
    BY <1>0, <1>6, <2>1 DEF DraftsAgree, At, vars
  <2> QED
    BY <2>2, <2>3 DEF DraftOK, DraftsAgree
<1>7. ASSUME NEW t \in Txns, Alone(t), status[t] # "committed", status'[t] # "committed",
             profile' = profile
      PROVE  ProfileAgreesWithLedger'
  BY <1>0, <1>7, ProfileKept
<1> QED
  <2>1. CASE \E a \in Attempts : AttemptWorks(a)
    BY <1>0, <1>1, <1>7, <2>1, WorksAlone DEF DraftOK, DraftsAgree, Txns
  <2>2. CASE \E h \in Reviewers : ReviewerWorks(h)
    BY <1>0, <1>2, <1>7, <2>2, WorksAlone DEF DraftOK, DraftsAgree, Txns
  <2>3. CASE \E t \in Txns : Rebuilds(t)
    BY <1>0, <1>3, <1>7, <2>3, WorksAlone DEF DraftOK, DraftsAgree
  <2>4. CASE \E t \in Txns : Commit(t)
    BY <1>4, <2>4, ProfileCommit DEF DraftOK, DraftsAgree
  <2>5. CASE \E t \in Txns : Fails(t)
    BY <1>0, <1>4, <1>5, <1>7, <2>5, WorksAlone DEF DraftOK, DraftsAgree
  <2> QED
    BY <1>6, <2>1, <2>2, <2>3, <2>4, <2>5, StepCases
-----------------------------------------------------------------------------
LEMMA LedgerInit == Init => LedgerInv
<1> SUFFICES ASSUME Init PROVE LedgerInv
  OBVIOUS
<1>1. TypeOK
  BY DEF Init, TypeOK, NoProfile, Profile
<1>2. \A t \in Txns : status[t] = "idle" /\ holds[t] = {}
  BY DEF Init
<1>3. PhaseOK /\ LocksOK /\ WrittenOK
  BY <1>2 DEF Init, PhaseOK, LocksOK, WrittenOK, At, Txns
<1>4. ReviewsOK /\ ResolvedOK /\ MissingOK
  BY <1>2 DEF Init, ReviewsOK, ResolvedOK, MissingOK, OneOperativeReview, GapEndsOnce, At, Txns
<1>5. DraftOK
  BY <1>2 DEF Init, DraftOK, ProfileAgreesWithLedger, At, Txns
<1> QED
  BY <1>1, <1>3, <1>4, <1>5 DEF LedgerInv

LEMMA LedgerStep == LedgerInv /\ [Next]_vars => LedgerInv'
<1> SUFFICES ASSUME LedgerInv, [Next]_vars PROVE LedgerInv'
  OBVIOUS
<1>1. TypeOK'
  BY TypeStep DEF LedgerInv
<1> QED
  BY <1>1, PhaseStep, LocksStep, WrittenStep, ReviewsStep, ResolvedStep, MissingStep, DraftStep
     DEF LedgerInv

\* Every variable keeps the shape of the table or of the local state it models.
THEOREM TypeCorrect == Spec => []TypeOK
<1>1. LedgerInv => TypeOK
  BY DEF LedgerInv
<1> QED
  BY <1>1, LedgerInit, LedgerStep, PTL DEF Spec

\* However many reviewers race to close a gap it ends once, and no attempt
\* loses its work to a report on a gap that has ended: what ended it is held,
\* and an attempt reports as missing only what it does not see held, under the
\* lock that keeps others from committing evidence meanwhile.
THEOREM GapsEndOnce == Spec => []GapEndsOnce
<1>1. LedgerInv => GapEndsOnce
  BY DEF LedgerInv, ResolvedOK
<1> QED
  BY <1>1, LedgerInit, LedgerStep, PTL DEF Spec

\* Of the decisions on one candidate one is operative: the row lock shows every
\* earlier decision to whoever takes it, and is kept until the decision shows.
THEOREM FirstDecisionOperates == Spec => []OneOperativeReview
<1>1. LedgerInv => OneOperativeReview
  BY DEF LedgerInv, ReviewsOK
<1> QED
  BY <1>1, LedgerInit, LedgerStep, PTL DEF Spec

\* What an open attempt has reported missing nobody has come to hold: evidence
\* is committed under the profile lock, which the attempt has had since before
\* it looked.
THEOREM MissingStaysMissing == Spec => []MissingIsNotHeld
<1>1. LedgerInv => MissingIsNotHeld
  <2> SUFFICES ASSUME LedgerInv, NEW e \in events, status[e.txn] = "active",
                      e.gap.kind \in Missing, e.kind \in {"RAISED", "ATTEMPTED"},
                      e.gap.key \in CommittedKeys
               PROVE  FALSE
    BY DEF MissingIsNotHeld
  <2>1. HeldFor(e.txn, e.gap.key)
    BY DEF CommittedKeys, HeldFor, SeenClaims, Sees, IsCommitted
  <2>2. e.txn \in Attempts
    BY DEF LedgerInv, WrittenOK
  <2> QED
    BY <2>1, <2>2 DEF LedgerInv, MissingOK
<1> QED
  BY <1>1, LedgerInit, LedgerStep, PTL DEF Spec

\* The stored profile says what the committed ledger says: it is derived and
\* stored under a lock without which nobody commits a claim or an event.
THEOREM ProfileIsDerived == Spec => []ProfileAgreesWithLedger
<1>1. LedgerInv => ProfileAgreesWithLedger
  BY DEF LedgerInv, DraftOK
<1> QED
  BY <1>1, LedgerInit, LedgerStep, PTL DEF Spec
=============================================================================
