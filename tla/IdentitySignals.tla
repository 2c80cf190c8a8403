-------------------------- MODULE IdentitySignals --------------------------
(***************************************************************************)
(* The queue of identity concerns of one company.  A registry filing that  *)
(* names a parent raises a durable concern (identity_review_signals); each *)
(* time it needs looking at it has one open review episode (..._signal_    *)
(* occurrences) with an append-only log of decisions (..._signal_events)   *)
(* and the evidence it rests on (..._signal_evidence).                     *)
(*                                                                         *)
(* Transactions, READ COMMITTED:                                           *)
(*   attempts   run_pipeline from the profile rebuild to its commit;       *)
(*   reviewers  one POST .../occurrences/{number}/status.                  *)
(* Attempts of different questions about one company may run together; the *)
(* advisory lock that rebuild_company_profile takes just before, and keeps *)
(* until the commit, is all that puts their signals one after the other.   *)
(* A review also rebuilds profiles under that lock: it only delays.        *)
(***************************************************************************)
EXTENDS Naturals, Sequences, FiniteSetsExt

CONSTANTS
    Concerns,   \* normalised concerns about the company
    Sources,    \* registry documents that may name a parent
    Filings,    \* what an attempt may find: sequences of <<source, concern>>
    Attempts,
    Reviewers,
    Earlier,    \* stands for the transactions that ended before
    Horizon,    \* bound of the clock
    Unchosen    \* no episode yet

Txns == Attempts \cup Reviewers \cup {Earlier}

Findings == Sources \X Concerns

ASSUME SignalAssumption ==
    /\ Attempts \cap Reviewers = {}
    /\ Earlier \notin Attempts \cup Reviewers
    /\ Filings \subseteq Seq(Findings)
    /\ Horizon \in Nat
    /\ Unchosen \notin Concerns \X Nat

\* An episode is named by its concern and its number.
Episode == Concerns \X Nat

\* One piece of evidence of the source per attempt that read it.
Evidence == Attempts \X Sources

Signal == [concern: Concerns, txn: Attempts \cup {Earlier}]

Occurrence == [episode: Episode, supersedes: Episode \cup {Unchosen},
               txn: Attempts \cup {Earlier}]

Statuses == {"OPEN", "ACKNOWLEDGED", "ACTIONED", "DISMISSED"}
Terminal == {"ACTIONED", "DISMISSED"}

Event == [episode: Episode, status: Statuses, at: Nat, txn: Txns]

Link == [episode: Episode, evidence: Evidence, txn: Attempts]

\* LEGAL_SIGNAL_TRANSITIONS; the trigger's CASE is the same table.
Legal == [OPEN |-> {"ACKNOWLEDGED", "DISMISSED"}, ACKNOWLEDGED |-> Terminal,
          ACTIONED |-> {}, DISMISSED |-> {}]

Rank == [OPEN |-> 0, ACKNOWLEDGED |-> 1, ACTIONED |-> 2, DISMISSED |-> 2]

VARIABLES
    signals,      \* identity_review_signals
    occurrences,  \* identity_review_signal_occurrences
    events,       \* identity_review_signal_events
    links,        \* identity_review_signal_evidence
    closed,       \* episodes whose is_open is committed as FALSE
    clock,        \* wall clock, advanced when a transaction reads it
    status,       \* of each transaction, and how it ended
    pc,           \* the statement it is about to run
    now,          \* the time it stamps on everything it writes
    found,        \* what an attempt found in its filings
    todo,         \* of that, what it has still to raise
    target,       \* the episode an attempt is about to give evidence to
    asked,        \* the episode and the status a reviewer posted
    over          \* episodes already ended when an attempt began

tables == <<signals, occurrences, events, links, closed>>
local == <<found, todo, target, asked, over>>
vars == <<tables, clock, status, pc, now, local>>

-----------------------------------------------------------------------------
(* Visibility and locks.                                                    *)

Active(t) == status[t] = "active"
Sees(t, owner) == status[owner] = "committed" \/ owner = t
At(t, label) == Active(t) /\ pc[t] = label

EpisodesOf(c, S) == {o \in S : o.episode[1] = c}
Visible(t) == {o \in occurrences : Sees(t, o.txn)}

\* max(occurrence_number) + 1, of what the transaction sees.
NextEpisode(t, c) == <<c, Max({0} \cup {o.episode[2] : o \in EpisodesOf(c, Visible(t))}) + 1>>

Previous(e) == IF e[2] = 1 THEN Unchosen ELSE <<e[1], e[2] - 1>>

\* The latest event, ties by position in the lifecycle (occurrence_status and
\* the trigger); ACTIONED and DISMISSED never meet (uq_signal_terminal_event).
Log(t, e) == {v \in events : v.episode = e /\ Sees(t, v.txn)}
Latest(S) == CHOOSE v \in S :
    \A o \in S : o.at < v.at \/ (o.at = v.at /\ Rank[o.status] <= Rank[v.status])
OccurrenceStatus(t, e) == Latest(Log(t, e)).status

\* A lock taken for the session, which a pooled connection outlives.
MutNoLock(a) == TRUE

\* pg_advisory_xact_lock: held by every attempt that is past it and not ended.
LockFree(a) == \A b \in Attempts \ {a} : Active(b) => pc[b] = "lock"

\* Key shares that evidence links leave on the occurrence row.
LinkedBy(e) == {b \in Attempts : Active(b) /\ \E l \in links : l.txn = b /\ l.episode = e}

\* The occurrence row locked FOR UPDATE, by a reviewer yet to commit.
HeldBy(e) == {h \in Reviewers : At(h, "commit") /\ asked[h].episode = e}

CanLock(h, e) == HeldBy(e) \cup LinkedBy(e) = {}

-----------------------------------------------------------------------------
\* Some concerns have been raised and dismissed before.
Init ==
    /\ \E past \in SUBSET Concerns :
          /\ signals = {[concern |-> c, txn |-> Earlier] : c \in past}
          /\ occurrences = {[episode |-> <<c, 1>>, supersedes |-> Unchosen, txn |-> Earlier] :
                               c \in past}
          /\ events = {[episode |-> <<c, 1>>, status |-> s, at |-> 0, txn |-> Earlier] :
                          c \in past, s \in {"OPEN", "DISMISSED"}}
          /\ closed = past \X {1}
    /\ links = {}
    /\ clock = 0
    /\ status = [t \in Txns |-> IF t = Earlier THEN "committed" ELSE "idle"]
    /\ pc = [t \in Txns |-> "idle"]
    /\ now = [t \in Txns |-> 0]
    /\ found = [a \in Attempts |-> <<>>]
    /\ todo = [a \in Attempts |-> <<>>]
    /\ target = [a \in Attempts |-> Unchosen]
    /\ asked = [h \in Reviewers |-> Unchosen]
    /\ over = [a \in Attempts |-> {}]

\* Steps of a transaction: the next statement, and how a transaction ends.
Goto(t, label) == pc' = [pc EXCEPT ![t] = label] /\ UNCHANGED <<clock, status, now>>

ReadClock(t) ==
    \E time \in {clock, clock + 1} : time <= Horizon /\ clock' = time /\ now' = [now EXCEPT ![t] = time]

End(t, outcome) ==
    /\ status' = [status EXCEPT ![t] = outcome]
    /\ pc' = [pc EXCEPT ![t] = "done"]
    /\ now' = [now EXCEPT ![t] = 0]
    /\ UNCHANGED clock

\* f without what a transaction kept to itself.
Forget(f, t, nothing) == [u \in DOMAIN f |-> IF u = t THEN nothing ELSE f[u]]

RollBack(t) ==
    /\ signals' = {r \in signals : r.txn # t}
    /\ occurrences' = {r \in occurrences : r.txn # t}
    /\ events' = {r \in events : r.txn # t}
    /\ links' = {r \in links : r.txn # t}
    /\ found' = Forget(found, t, <<>>)
    /\ todo' = Forget(todo, t, <<>>)
    /\ target' = Forget(target, t, Unchosen)
    /\ asked' = Forget(asked, t, Unchosen)
    /\ over' = Forget(over, t, {})
    /\ UNCHANGED closed

-----------------------------------------------------------------------------
(* Attempts: _raise_identity_signals, raise_signal, _open_occurrence.       *)

\* now is read when the pipeline begins, long before the lock.
BeginAttempt(a) ==
    /\ status[a] = "idle"
    /\ status' = [status EXCEPT ![a] = "active"]
    /\ pc' = [pc EXCEPT ![a] = "lock"]
    /\ ReadClock(a)
    /\ \E filing \in Filings :
          /\ found' = [found EXCEPT ![a] = filing]
          /\ todo' = [todo EXCEPT ![a] = filing]
    /\ over' = [over EXCEPT ![a] = closed]
    /\ UNCHANGED <<tables, target, asked>>

TakeLock(a) ==
    /\ At(a, "lock") /\ LockFree(a)
    /\ Goto(a, "raise")
    /\ UNCHANGED <<tables, local>>

ConcernOf(a) == Head(todo[a])[2]

\* The last episode, whatever has become of it.
MutLast(a, c) == LET n == NextEpisode(a, c)[2] - 1 IN IF n = 0 THEN {} ELSE {<<c, n>>}

\* is_open of the occurrences it sees; its own are all open.
OpenEpisodes(a, c) == {o.episode : o \in EpisodesOf(c, Visible(a))} \ closed

\* INSERT ... ON CONFLICT DO NOTHING, then the open episode if there is one.
RaiseSignal(a) ==
    /\ At(a, "raise") /\ todo[a] # <<>>
    /\ \A r \in signals : r.concern = ConcernOf(a) => Sees(a, r.txn)
    /\ signals' = IF \E r \in signals : r.concern = ConcernOf(a) THEN signals
                  ELSE signals \cup {[concern |-> ConcernOf(a), txn |-> a]}
    /\ \/ /\ OpenEpisodes(a, ConcernOf(a)) = {}
          /\ Goto(a, "open")
          /\ UNCHANGED target
       \/ \E e \in OpenEpisodes(a, ConcernOf(a)) :
             /\ target' = [target EXCEPT ![a] = e]
             /\ Goto(a, "link")
    /\ UNCHANGED <<occurrences, events, links, closed, found, todo, asked, over>>

\* uq_occurrence_number and uq_occurrence_open keep the new row out.
Rivals(a, e) ==
    {o \in EpisodesOf(e[1], occurrences) : o.txn # a /\ (o.episode = e \/ o.episode \notin closed)}

\* The next number, the row and its OPEN event; nobody else adds rows under the
\* lock, so the number is read and used in one step.  A rival row not committed
\* is waited for; a committed one is an IntegrityError that nothing catches,
\* and the whole attempt is rolled back.
OpenOccurrence(a) ==
    /\ At(a, "open")
    /\ LET e == NextEpisode(a, ConcernOf(a)) IN
          /\ \A o \in Rivals(a, e) : ~Active(o.txn)
          /\ IF Rivals(a, e) # {}
               THEN End(a, "lost") /\ RollBack(a)
               ELSE /\ occurrences' = occurrences \cup
                          {[episode |-> e, supersedes |-> Previous(e), txn |-> a]}
                    /\ events' = events \cup
                          {[episode |-> e, status |-> "OPEN", at |-> now[a], txn |-> a]}
                    /\ target' = [target EXCEPT ![a] = e]
                    /\ Goto(a, "link")
                    /\ UNCHANGED <<signals, links, closed, found, todo, asked, over>>

\* The two keys of an evidence link exchanged.
MutSwapped(a, s) == {<<s, a>>}

\* All evidence of the source that the attempt sees, its own included.
EvidenceOf(a, s) ==
    {<<b, s>> : b \in {b \in Attempts : Sees(a, b) /\ \E i \in DOMAIN found[b] : found[b][i][1] = s}}

\* The first insert waits for a reviewer that holds the row; then the attempt
\* has a share of it that keeps reviewers away.
LinkEvidence(a) ==
    /\ At(a, "link")
    /\ HeldBy(target[a]) = {}
    /\ links' = links \cup
          {[episode |-> target[a], evidence |-> v, txn |-> a] :
              v \in {v \in EvidenceOf(a, Head(todo[a])[1]) :
                        ~\E l \in links : l.episode = target[a] /\ l.evidence = v}}
    /\ todo' = [todo EXCEPT ![a] = Tail(@)]
    /\ target' = [target EXCEPT ![a] = Unchosen]
    /\ Goto(a, "raise")
    /\ UNCHANGED <<signals, occurrences, events, closed, found, asked, over>>

FinishAttempt(a) ==
    /\ At(a, "raise") /\ todo[a] = <<>>
    /\ End(a, "committed")
    /\ UNCHANGED <<tables, local>>

-----------------------------------------------------------------------------
(* Reviewers: review.append_signal_status.                                  *)

\* now is read first, then the occurrence; the row lock comes after both.
Post(h) ==
    /\ status[h] = "idle"
    /\ \E o \in occurrences, s \in Statuses :
          /\ status[o.txn] = "committed"
          /\ asked' = [asked EXCEPT ![h] = [episode |-> o.episode, status |-> s]]
    /\ status' = [status EXCEPT ![h] = "active"]
    /\ pc' = [pc EXCEPT ![h] = "decide"]
    /\ ReadClock(h)
    /\ UNCHANGED <<tables, found, todo, target, over>>

IsLegal(h) ==
    LET e == asked[h].episode
        log == Log(h, e)
        current == OccurrenceStatus(h, e)
    IN  /\ asked[h].status \in Legal[current]
        \* uq_signal_terminal_event and uq_signal_event
        /\ asked[h].status \in Terminal => ~\E v \in log : v.status \in Terminal

\* Row lock, current status, event; its trigger stages is_open.
Decide(h) ==
    /\ At(h, "decide")
    /\ CanLock(h, asked[h].episode)
    /\ IsLegal(h)
    /\ events' = events \cup {[episode |-> asked[h].episode, status |-> asked[h].status,
                               at |-> now[h], txn |-> h]}
    /\ Goto(h, "commit")
    /\ UNCHANGED <<signals, occurrences, links, closed, local>>

\* IllegalSignalTransitionError, from the table or from the backstop.
Refuse(h) ==
    /\ At(h, "decide")
    /\ CanLock(h, asked[h].episode)
    /\ ~IsLegal(h)
    /\ End(h, "refused")
    /\ RollBack(h)

\* The flag cleared by any answer.
MutClosesAnswered(s) == s # "OPEN"

\* is_open := the status is not terminal.
Closes(s) == s \in Terminal

CommitDecision(h) ==
    /\ At(h, "commit")
    /\ closed' = IF Closes(asked[h].status) THEN closed \cup {asked[h].episode}
                 ELSE closed \ {asked[h].episode}
    /\ asked' = Forget(asked, h, Unchosen)
    /\ End(h, "committed")
    /\ UNCHANGED <<signals, occurrences, events, links, found, todo, target, over>>

-----------------------------------------------------------------------------
Crash(t) == Active(t) /\ End(t, "crashed") /\ RollBack(t)

AttemptStep(a) == \/ TakeLock(a) \/ RaiseSignal(a) \/ OpenOccurrence(a)
                  \/ LinkEvidence(a) \/ FinishAttempt(a)

ReviewerStep(h) == Decide(h) \/ Refuse(h) \/ CommitDecision(h)

Next ==
    \/ \E a \in Attempts : BeginAttempt(a) \/ AttemptStep(a)
    \/ \E h \in Reviewers : Post(h) \/ ReviewerStep(h)
    \/ \E t \in Txns : Crash(t)

Spec == Init /\ [][Next]_vars

-----------------------------------------------------------------------------
(* Properties.                                                              *)

Ends == {"committed", "refused", "lost", "crashed"}

\* Every variable has the shape of the table or of the local state it models.
TypeOK ==
    /\ signals \subseteq Signal
    /\ occurrences \subseteq Occurrence
    /\ events \subseteq Event
    /\ links \subseteq Link
    /\ closed \subseteq Episode
    /\ clock \in Nat
    /\ status \in [Txns -> {"idle", "active"} \cup Ends]
    /\ pc \in [Txns -> {"idle", "lock", "raise", "open", "link", "decide", "commit", "done"}]
    /\ now \in [Txns -> Nat]
    /\ found \in [Attempts -> Seq(Findings)]
    /\ todo \in [Attempts -> Seq(Findings)]
    /\ target \in [Attempts -> Episode \cup {Unchosen}]
    /\ asked \in [Reviewers -> [episode: Episode, status: Statuses] \cup {Unchosen}]
    /\ over \in [Attempts -> SUBSET Episode]

Committed(S) == {r \in S : status[r.txn] = "committed"}

Ended(e) == \E v \in Committed(events) : v.episode = e /\ v.status \in Terminal

\* The episodes of a concern follow one another: numbered from one without a
\* hole, each superseding the one before, and only the last still undecided
\* (ADR-034: at most one open per signal, each linked to its predecessor).  And
\* the flag on the row agrees with the log beside it on which are over, however
\* reviewers race: the list filter and the partial index read the flag, every
\* decision reads the log (0006:57-87, review.py:672-681).
EpisodesFollow ==
    /\ closed = {o.episode : o \in {o \in Committed(occurrences) : Ended(o.episode)}}
    /\ \A c \in Concerns :
        LET history == EpisodesOf(c, Committed(occurrences)) IN
        /\ {o.episode[2] : o \in history} = 1 .. Cardinality(history)
        /\ \A o \in history :
              /\ o.supersedes = Previous(o.episode)
              /\ o.episode[2] < Cardinality(history) => Ended(o.episode)

\* Whatever a committed attempt found has reached the queue: the evidence it
\* had of the source is on an episode of the concern that was not over when the
\* attempt began.  An ended episode never swallows a rediscovery (M16).
FindingIsQueued ==
    \A a \in Attempts : status[a] = "committed" =>
        \A i \in DOMAIN found[a] :
            \E l \in Committed(links) :
                /\ l.evidence = <<a, found[a][i][1]>>
                /\ l.episode[1] = found[a][i][2]
                /\ l.episode \notin over[a]

\* No attempt loses everything it found to a number or an open episode that a
\* concurrent attempt took first: raise_signal looks and then inserts, and only
\* the profile lock its caller happens to hold keeps the two together.
NoAttemptIsLost == \A a \in Attempts : status[a] # "lost"

-----------------------------------------------------------------------------
(* Statements that do not hold.                                             *)

\* "Append a review decision. Terminal stays terminal, by trigger."
\* (api/routes.py:652): once a committed decision ended an episode, the status
\* everybody reads is a terminal one.
TerminalStaysTerminal ==
    \A o \in Committed(occurrences) :
        Ended(o.episode) => Latest({v \in Committed(events) : v.episode = o.episode}).status \in Terminal

\* Evidence reaches an episode while someone may still decide it: false, since
\* the episode may be dismissed between the look and the link.
EvidenceIsNotLate ==
    [][\A l \in links' \ links : l.episode \notin closed]_vars

=============================================================================
