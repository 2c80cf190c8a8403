----------------------- MODULE IdentitySignalsProofs -----------------------
(***************************************************************************)
(* Proofs about IdentitySignals: type correctness, that the lock an        *)
(* attempt takes for its profile also keeps its numbers and its open       *)
(* episodes from being taken by another, that the episodes of a concern    *)
(* follow one another and the flag agrees with the log, and that whatever  *)
(* a committed attempt found is in the queue.                              *)
(***************************************************************************)
EXTENDS IdentitySignals, FiniteSetTheorems, TLAPS

\* An attempt that has the lock.
Past(a) == Active(a) /\ pc[a] # "lock"

\* Each kind of transaction has its own statements, one attempt at a time has
\* the lock, and a reviewer decides an episode that is committed.
PhaseOK ==
    /\ status[Earlier] = "committed"
    /\ \A a \in Attempts : Active(a) =>
          /\ pc[a] \in {"lock", "raise", "open", "link"}
          /\ pc[a] \in {"open", "link"} => todo[a] # <<>>
    /\ \A a, b \in Attempts : Past(a) /\ Past(b) => a = b
    /\ \A h \in Reviewers : Active(h) =>
          /\ pc[h] \in {"decide", "commit"}
          /\ asked[h] \in [episode: Episode, status: Statuses]
          /\ \E o \in Committed(occurrences) : o.episode = asked[h].episode

\* An event not committed: an attempt's opens an occurrence of its own, a
\* reviewer's is the one it was asked for.
OpenedBy(v, a) == /\ a \in Attempts /\ Past(a) /\ v.status = "OPEN"
                  /\ \E o \in occurrences : o.txn = a /\ o.episode = v.episode

DecidedBy(v, h) == /\ h \in Reviewers /\ At(h, "commit")
                   /\ v.episode = asked[h].episode /\ v.status = asked[h].status
                   /\ v.at = now[h]

\* Rows belong to committed transactions and to open ones that have got far
\* enough to write them; every occurrence has its event, and every event its
\* occurrence.
RowsOK ==
    /\ \A o \in occurrences : status[o.txn] # "committed" => o.txn \in Attempts /\ Past(o.txn)
    /\ \A l \in links : status[l.txn] # "committed" => Past(l.txn)
    /\ \A v \in events : status[v.txn] # "committed" => OpenedBy(v, v.txn) \/ DecidedBy(v, v.txn)
    /\ \A v \in Committed(events) : \E o \in Committed(occurrences) : o.episode = v.episode
    /\ \A o \in occurrences : \E v \in events :
          v.episode = o.episode /\ v.status = "OPEN" /\ v.txn = o.txn
    /\ \A h \in Reviewers : At(h, "commit") =>
          \E v \in events : v.txn = h /\ v.episode = asked[h].episode /\ v.status = asked[h].status

\* The time that a row opened its episode is not after any other in its log.
TimesOK ==
    /\ \A t \in Txns : now[t] <= clock
    /\ \A v \in events : v.at <= clock
    /\ \A v, w \in events : v.episode = w.episode /\ v.status = "OPEN" => v.at <= w.at
    /\ \A h \in Reviewers : Active(h) =>
          \A v \in events : v.episode = asked[h].episode /\ v.status = "OPEN" => v.at <= now[h]

\* The order in which the log is read.
AtOrAfter(v, w) == w.at < v.at \/ (w.at = v.at /\ Rank[w.status] <= Rank[v.status])

CommittedLog(e) == {v \in Committed(events) : v.episode = e}

\* The committed log of an episode has a latest event, and while a reviewer has
\* the row, it is alone and nothing ended the episode.
LogOK ==
    /\ \A o \in Committed(occurrences) :
          \E v \in CommittedLog(o.episode) : \A w \in CommittedLog(o.episode) : AtOrAfter(v, w)
    /\ \A h \in Reviewers : At(h, "commit") =>
          asked[h].status # "OPEN" /\ ~Ended(asked[h].episode)
    /\ \A g, h \in Reviewers :
          At(g, "commit") /\ At(h, "commit") /\ asked[g].episode = asked[h].episode => g = h

\* The flag agrees with the log.
ClosedOK == closed = {o.episode : o \in {o \in Committed(occurrences) : Ended(o.episode)}}

\* The numbers of a concern's committed episodes.
Numbers(c) == {o.episode[2] : o \in EpisodesOf(c, Committed(occurrences))}

\* They are 1 .. m, all over but the last; an episode that is being opened has
\* the next number, and then the last is over as well.
Numbered(c, m) ==
    /\ Numbers(c) = 1 .. m
    /\ \A n \in 1 .. m : n < m => <<c, n>> \in closed
    /\ \A o \in EpisodesOf(c, occurrences) : status[o.txn] # "committed" =>
          o.episode[2] = m + 1 /\ (m > 0 => <<c, m>> \in closed)

EpisodesOK ==
    /\ \A o, p \in occurrences : o.episode = p.episode => o = p
    /\ \A o \in occurrences : o.supersedes = Previous(o.episode)
    /\ \A c \in Concerns : \E m \in Nat : Numbered(c, m)
    /\ \A a \in Attempts : At(a, "open") => OpenEpisodes(a, ConcernOf(a)) = {}

\* The finding i of an attempt is in the queue, as the attempt sees it.
Queued(a, i) ==
    \E l \in links :
        /\ Sees(a, l.txn)
        /\ l.evidence = <<a, found[a][i][1]>>
        /\ l.episode[1] = found[a][i][2]
        /\ l.episode \notin over[a]

\* What an attempt has still to raise is the end of what it found, and the rest
\* is in the queue.
Rest(a) == Len(found[a]) - Len(todo[a])

QueueOK ==
    /\ \A l \in links : Sees(l.txn, l.evidence[1])
    /\ \A a \in Attempts :
          /\ over[a] \subseteq closed
          /\ At(a, "link") =>
                target[a] \in Episode /\ target[a][1] = ConcernOf(a) /\ target[a] \notin over[a]
          /\ status[a] \in {"active", "committed"} =>
                /\ Len(todo[a]) <= Len(found[a])
                /\ \A i \in 1 .. Len(todo[a]) : todo[a][i] = found[a][Rest(a) + i]
                /\ \A i \in 1 .. Rest(a) : Queued(a, i)
          /\ status[a] = "committed" => todo[a] = <<>>

\* The inductive invariant.
SignalsInv == /\ TypeOK /\ PhaseOK /\ RowsOK /\ TimesOK /\ LogOK
              /\ ClosedOK /\ EpisodesOK /\ QueueOK /\ NoAttemptIsLost
-----------------------------------------------------------------------------
(***************************************************************************)
(* Steps.                                                                  *)
(***************************************************************************)

\* The ways a transaction gives up.
GivesUp(t) == Active(t) /\ RollBack(t) /\ \E x \in {"refused", "crashed"} : End(t, x)

\* An attempt opens an episode that nobody else has.
Opens(a, e) ==
    /\ At(a, "open")
    /\ e = NextEpisode(a, ConcernOf(a))
    /\ Rivals(a, e) = {}
    /\ occurrences' = occurrences \cup {[episode |-> e, supersedes |-> Previous(e), txn |-> a]}
    /\ events' = events \cup {[episode |-> e, status |-> "OPEN", at |-> now[a], txn |-> a]}
    /\ target' = [target EXCEPT ![a] = e]
    /\ Goto(a, "link")
    /\ UNCHANGED <<signals, links, closed, found, todo, asked, over>>

AttemptWorks(a) == \/ BeginAttempt(a) \/ TakeLock(a) \/ RaiseSignal(a) \/ (\E e \in Episode : Opens(a, e))
                   \/ LinkEvidence(a) \/ FinishAttempt(a)

ReviewerWorks(h) == Post(h) \/ Decide(h) \/ CommitDecision(h)

\* Who is who.
LEMMA Parties ==
    /\ \A a \in Attempts : a \in Txns /\ a # Earlier /\ a \notin Reviewers
    /\ \A h \in Reviewers : h \in Txns /\ h # Earlier /\ h \notin Attempts
    /\ \A t \in Txns : t \in Attempts \/ t \in Reviewers \/ t = Earlier
    /\ Earlier \in Txns
  BY SignalAssumption DEF Txns

\* The largest of the numbers 1 .. m.
LEMMA MaxOfNumbers ==
    ASSUME NEW m \in Nat
    PROVE  Max({0} \cup 1 .. m) = m
<1>1. \A y \in {0} \cup 1 .. m : m >= y
  OBVIOUS
<1>2. m \in {0} \cup 1 .. m
  OBVIOUS
<1> QED
  BY <1>1, <1>2 DEF Max

\* The lines of the table of rows that the proofs use most.
LEMMA RowTypes ==
    ASSUME TypeOK
    PROVE  /\ \A o \in occurrences :
                 o.episode \in Episode /\ o.txn \in Attempts \cup {Earlier} /\ o.txn \in Txns
           /\ \A v \in events : /\ v.episode \in Episode /\ v.status \in Statuses
                                /\ v.at \in Nat /\ v.txn \in Txns
           /\ \A l \in links : /\ l.episode \in Episode /\ l.txn \in Attempts
                               /\ l.evidence \in Evidence /\ l.evidence[1] \in Attempts
           /\ \A e \in Episode : e[1] \in Concerns /\ e[2] \in Nat /\ e = <<e[1], e[2]>>
  BY DEF TypeOK, Occurrence, Event, Link, Evidence, Episode, Txns

\* An attempt about to open an episode sees only committed episodes of its
\* concern: with m of them, the new one has the number m + 1, and the last of
\* them is over.
LEMMA NextNumber ==
    ASSUME TypeOK, PhaseOK, RowsOK, ClosedOK, EpisodesOK, NEW a \in Attempts, At(a, "open"),
           NEW c \in Concerns, c = ConcernOf(a)
    PROVE  \E m \in Nat : /\ Numbered(c, m)
                          /\ NextEpisode(a, c) = <<c, m + 1>>
                          /\ \A o \in EpisodesOf(c, occurrences) : status[o.txn] = "committed"
                          /\ m > 0 => <<c, m>> \in closed
<1>1. PICK m \in Nat : Numbered(c, m)
  BY DEF EpisodesOK
<1>2. OpenEpisodes(a, c) = {}
  BY DEF EpisodesOK
<1>3. ASSUME NEW o \in EpisodesOf(c, occurrences) PROVE status[o.txn] = "committed"
  <2>1. SUFFICES ASSUME status[o.txn] # "committed" PROVE FALSE
    OBVIOUS
  <2>2. o \in occurrences
    BY DEF EpisodesOf
  <2>3. o.txn = a
    BY <2>1, <2>2 DEF RowsOK, PhaseOK, Past, At
  <2>4. o.episode \in closed
    BY <1>2, <2>2, <2>3 DEF OpenEpisodes, EpisodesOf, Visible, Sees
  <2>5. PICK p \in Committed(occurrences) : p.episode = o.episode
    BY <2>4 DEF ClosedOK
  <2>6. p = o
    BY <2>2, <2>5 DEF EpisodesOK, Committed
  <2> QED
    BY <2>1, <2>6 DEF Committed
<1>4. EpisodesOf(c, Visible(a)) = EpisodesOf(c, Committed(occurrences))
  BY <1>3 DEF EpisodesOf, Visible, Committed, Sees
<1>5. NextEpisode(a, c) = <<c, m + 1>>
  BY <1>1, <1>4, MaxOfNumbers DEF NextEpisode, Numbered, Numbers
<1>6. ASSUME m > 0 PROVE <<c, m>> \in closed
  <2>1. PICK o \in EpisodesOf(c, Committed(occurrences)) : o.episode[2] = m
    BY <1>1, <1>6 DEF Numbered, Numbers
  <2>2. /\ o \in occurrences /\ o.episode[1] = c
        /\ o \in EpisodesOf(c, Visible(a))
    BY <2>1, <1>4 DEF EpisodesOf, Committed
  <2>3. o.episode = <<c, m>>
    BY <2>1, <2>2, RowTypes
  <2> QED
    BY <1>2, <2>2, <2>3 DEF OpenEpisodes
<1> QED
  BY <1>1, <1>3, <1>5, <1>6

LEMMA HeadConcern ==
    ASSUME TypeOK, PhaseOK, NEW a \in Attempts, Active(a), pc[a] \in {"open", "link"}
    PROVE  /\ todo[a] \in Seq(Findings) /\ todo[a] # <<>>
           /\ Head(todo[a]) = todo[a][1] /\ todo[a][1] \in Findings
           /\ ConcernOf(a) \in Concerns
<1>1. todo[a] \in Seq(Findings) /\ todo[a] # <<>>
  BY DEF TypeOK, PhaseOK
<1>2. Head(todo[a]) = todo[a][1] /\ todo[a][1] \in Findings
  BY <1>1
<1> QED
  BY <1>1, <1>2 DEF ConcernOf, Findings

\* Nobody else has the number or an open episode of the concern: the insert
\* of the new episode never fails.
LEMMA NoRival ==
    ASSUME TypeOK, PhaseOK, RowsOK, ClosedOK, EpisodesOK, NEW a \in Attempts, At(a, "open")
    PROVE  /\ NextEpisode(a, ConcernOf(a)) \in Episode
           /\ Rivals(a, NextEpisode(a, ConcernOf(a))) = {}
<1> DEFINE c == ConcernOf(a)
           e == NextEpisode(a, c)
<1>1. c \in Concerns
  BY HeadConcern DEF At
<1> HIDE DEF c
<1>2. PICK m \in Nat : /\ Numbered(c, m)
                       /\ e = <<c, m + 1>>
                       /\ \A o \in EpisodesOf(c, occurrences) : status[o.txn] = "committed"
  BY <1>1, NextNumber DEF c
<1>3. e \in Episode /\ e[1] = c /\ e[2] = m + 1
  BY <1>1, <1>2 DEF Episode
<1> HIDE DEF e
<1>4. ASSUME NEW o \in Rivals(a, e) PROVE FALSE
  <2>1. o \in EpisodesOf(c, occurrences) /\ status[o.txn] = "committed"
    BY <1>2, <1>3 DEF Rivals
  <2>2. o \in EpisodesOf(c, Committed(occurrences)) /\ o \in EpisodesOf(c, Visible(a))
    BY <2>1 DEF EpisodesOf, Committed, Visible, Sees
  <2>3. o.episode[2] \in 1 .. m
    BY <1>2, <2>2 DEF Numbered, Numbers
  <2>4. o.episode # e
    BY <1>3, <2>3
  <2>5. o.episode \in closed
    BY <2>2 DEF EpisodesOK, OpenEpisodes, c
  <2> QED
    BY <2>4, <2>5 DEF Rivals
<1> QED
  BY <1>3, <1>4 DEF e, c

\* Every step is one of these.
LEMMA StepCases ==
    ASSUME SignalsInv, [Next]_vars
    PROVE  \/ \E a \in Attempts : AttemptWorks(a)
           \/ \E h \in Reviewers : ReviewerWorks(h)
           \/ \E t \in Txns : GivesUp(t)
           \/ UNCHANGED vars
<1>1. ASSUME NEW a \in Attempts, OpenOccurrence(a) PROVE \E e \in Episode : Opens(a, e)
  <2>1. At(a, "open")
    BY <1>1 DEF OpenOccurrence
  <2>2. /\ NextEpisode(a, ConcernOf(a)) \in Episode
        /\ Rivals(a, NextEpisode(a, ConcernOf(a))) = {}
    BY <2>1, NoRival DEF SignalsInv
  <2>3. Opens(a, NextEpisode(a, ConcernOf(a)))
    BY <1>1, <2>2 DEF OpenOccurrence, Opens
  <2> QED
    BY <2>2, <2>3
<1>2. ASSUME NEW a \in Attempts, AttemptStep(a) PROVE AttemptWorks(a)
  BY <1>1, <1>2 DEF AttemptStep, AttemptWorks
<1>3. ASSUME NEW h \in Reviewers, ReviewerStep(h) PROVE ReviewerWorks(h) \/ GivesUp(h)
  BY <1>3 DEF ReviewerStep, ReviewerWorks, GivesUp, Refuse, At
<1>4. ASSUME NEW t \in Txns, Crash(t) PROVE GivesUp(t)
  BY <1>4 DEF Crash, GivesUp
<1> QED
  BY <1>2, <1>3, <1>4, Parties DEF Next, AttemptWorks, ReviewerWorks
-----------------------------------------------------------------------------
(***************************************************************************)
(* Types.                                                                  *)
(***************************************************************************)

LEMMA InitTypes == Init => TypeOK
<1> SUFFICES ASSUME Init PROVE TypeOK
  OBVIOUS
<1>1. PICK past \in SUBSET Concerns :
          /\ signals = {[concern |-> c, txn |-> Earlier] : c \in past}
          /\ occurrences = {[episode |-> <<c, 1>>, supersedes |-> Unchosen, txn |-> Earlier] :
                               c \in past}
          /\ events = {[episode |-> <<c, 1>>, status |-> s, at |-> 0, txn |-> Earlier] :
                          c \in past, s \in {"OPEN", "DISMISSED"}}
          /\ closed = past \X {1}
  BY DEF Init
<1>2. signals \subseteq Signal /\ occurrences \subseteq Occurrence /\ closed \subseteq Episode
  BY <1>1 DEF Signal, Occurrence, Episode
<1>3. events \subseteq Event
  <2>1. Earlier \in Txns
    BY DEF Txns
  <2> QED
    BY <1>1, <2>1 DEF Event, Statuses, Episode
<1>4. <<>> \in Seq(Findings)
  OBVIOUS
<1> QED
  BY <1>2, <1>3, <1>4 DEF Init, TypeOK, Ends

LEMMA ForgetTypes ==
    ASSUME NEW D, NEW T, NEW f \in [D -> T], NEW t, NEW nothing \in T
    PROVE  Forget(f, t, nothing) \in [D -> T]
  BY DEF Forget

\* A transaction stamps what the clock says by then.
LEMMA ClockReads ==
    ASSUME TypeOK, NEW t \in Txns, ReadClock(t)
    PROVE  /\ clock' \in Nat /\ clock <= clock'
           /\ now' = [now EXCEPT ![t] = clock']
           /\ now' \in [Txns -> Nat]
<1>1. clock \in Nat /\ now \in [Txns -> Nat]
  BY DEF TypeOK
<1>2. PICK time \in {clock, clock + 1} : clock' = time /\ now' = [now EXCEPT ![t] = time]
  BY DEF ReadClock
<1>3. time \in Nat /\ clock <= time
  BY <1>1, <1>2
<1> QED
  BY <1>1, <1>2, <1>3

LEMMA TypeStep == SignalsInv /\ [Next]_vars => TypeOK'
<1> SUFFICES ASSUME SignalsInv, [Next]_vars PROVE TypeOK'
  OBVIOUS
<1>0. TypeOK /\ PhaseOK
  BY DEF SignalsInv
<1>1. ASSUME NEW a \in Attempts, BeginAttempt(a) PROVE TypeOK'
  <2>1. PICK filing \in Filings : found' = [found EXCEPT ![a] = filing]
                                  /\ todo' = [todo EXCEPT ![a] = filing]
    BY <1>1 DEF BeginAttempt
  <2>2. filing \in Seq(Findings)
    BY SignalAssumption
  <2>3. found' \in [Attempts -> Seq(Findings)] /\ todo' \in [Attempts -> Seq(Findings)]
    BY <1>0, <2>1, <2>2 DEF TypeOK
  <2>4. now' \in [Txns -> Nat] /\ clock' \in Nat
    BY <1>0, <1>1, ClockReads, Parties DEF BeginAttempt
  <2> QED
    BY <1>0, <1>1, <2>3, <2>4 DEF TypeOK, BeginAttempt, tables
<1>2. ASSUME NEW a \in Attempts, TakeLock(a) PROVE TypeOK'
  BY <1>0, <1>2 DEF TypeOK, TakeLock, Goto, tables, local
<1>3. ASSUME NEW a \in Attempts, RaiseSignal(a) PROVE TypeOK'
  <2>1. ConcernOf(a) \in Concerns
    <3>1. todo[a] \in Seq(Findings) /\ todo[a] # <<>>
      BY <1>0, <1>3 DEF TypeOK, RaiseSignal
    <3> QED
      BY <3>1 DEF ConcernOf, Findings
  <2>2. signals' \subseteq Signal
    BY <1>0, <1>3, <2>1 DEF TypeOK, RaiseSignal, Signal
  <2>3. OpenEpisodes(a, ConcernOf(a)) \subseteq Episode
    BY <1>0, RowTypes DEF OpenEpisodes, EpisodesOf, Visible
  <2>4. target' \in [Attempts -> Episode \cup {Unchosen}]
    BY <1>0, <1>3, <2>3 DEF TypeOK, RaiseSignal
  <2>5. pc' \in [Txns -> {"idle", "lock", "raise", "open", "link", "decide", "commit", "done"}]
        /\ UNCHANGED <<clock, status, now>>
    BY <1>0, <1>3 DEF TypeOK, RaiseSignal, Goto
  <2> QED
    BY <1>0, <1>3, <2>2, <2>4, <2>5 DEF TypeOK, RaiseSignal
<1>4. ASSUME NEW a \in Attempts, NEW e \in Episode, Opens(a, e) PROVE TypeOK'
  <2>1. Previous(e) \in Episode \cup {Unchosen}
    <3>1. CASE e[2] = 1
      BY <3>1 DEF Previous
    <3>2. CASE e[2] # 1
      <4>1. e[2] >= 1
        <5>1. At(a, "open")
          BY <1>4 DEF Opens
        <5>2. ConcernOf(a) \in Concerns
          BY <1>0, <5>1, HeadConcern DEF At
        <5>3. \E m \in Nat : e = <<ConcernOf(a), m + 1>>
          BY <1>4, <5>1, <5>2, NextNumber DEF SignalsInv, Opens
        <5> QED
          BY <5>3
      <4> QED
        BY <3>2, <4>1 DEF Previous, Episode
    <3> QED
      BY <3>1, <3>2
  <2>2. [episode |-> e, supersedes |-> Previous(e), txn |-> a] \in Occurrence
    BY <2>1 DEF Occurrence
  <2>3. [episode |-> e, status |-> "OPEN", at |-> now[a], txn |-> a] \in Event
    BY <1>0, Parties DEF TypeOK, Event, Statuses
  <2> QED
    BY <1>0, <1>4, <2>2, <2>3 DEF TypeOK, Opens, Goto
<1>5. ASSUME NEW a \in Attempts, LinkEvidence(a) PROVE TypeOK'
  <2>1. At(a, "link")
    BY <1>5 DEF LinkEvidence
  <2>2. target[a] \in Episode
    BY <2>1 DEF SignalsInv, QueueOK
  <2>3. todo[a] \in Seq(Findings) /\ todo[a] # <<>> /\ Head(todo[a]) \in Findings
    BY <1>0, <2>1, HeadConcern DEF At
  <2>4. Head(todo[a])[1] \in Sources
    BY <2>3 DEF Findings
  <2>5. EvidenceOf(a, Head(todo[a])[1]) \subseteq Evidence
    BY <2>4 DEF EvidenceOf, Evidence
  <2>6. links' \subseteq Link
    BY <1>0, <1>5, <2>2, <2>5 DEF TypeOK, LinkEvidence, Link
  <2>7. Tail(todo[a]) \in Seq(Findings)
    BY <2>3
  <2>8. todo' \in [Attempts -> Seq(Findings)]
    BY <1>0, <1>5, <2>7 DEF TypeOK, LinkEvidence
  <2> QED
    BY <1>0, <1>5, <2>6, <2>8 DEF TypeOK, LinkEvidence, Goto
<1>6. ASSUME NEW a \in Attempts, FinishAttempt(a) PROVE TypeOK'
  BY <1>0, <1>6 DEF TypeOK, FinishAttempt, End, Ends, tables, local
<1>7. ASSUME NEW h \in Reviewers, Post(h) PROVE TypeOK'
  <2>1. PICK o \in occurrences, s \in Statuses :
            asked' = [asked EXCEPT ![h] = [episode |-> o.episode, status |-> s]]
    BY <1>7 DEF Post
  <2>2. asked' \in [Reviewers -> [episode: Episode, status: Statuses] \cup {Unchosen}]
    BY <1>0, <2>1, RowTypes DEF TypeOK
  <2>3. now' \in [Txns -> Nat] /\ clock' \in Nat
    BY <1>0, <1>7, ClockReads, Parties DEF Post
  <2> QED
    BY <1>0, <1>7, <2>2, <2>3 DEF TypeOK, Post, tables
<1>8. ASSUME NEW h \in Reviewers, Decide(h) PROVE TypeOK'
  <2>1. asked[h] \in [episode: Episode, status: Statuses]
    BY <1>0, <1>8 DEF PhaseOK, Decide, At
  <2>2. [episode |-> asked[h].episode, status |-> asked[h].status, at |-> now[h], txn |-> h] \in Event
    BY <1>0, <2>1, Parties DEF TypeOK, Event
  <2> QED
    BY <1>0, <1>8, <2>2 DEF TypeOK, Decide, Goto, local
<1>9. ASSUME NEW h \in Reviewers, CommitDecision(h) PROVE TypeOK'
  <2>1. asked[h] \in [episode: Episode, status: Statuses]
    BY <1>0, <1>9 DEF PhaseOK, CommitDecision, At
  <2>2. asked' \in [Reviewers -> [episode: Episode, status: Statuses] \cup {Unchosen}]
    BY <1>0, <1>9, ForgetTypes DEF TypeOK, CommitDecision
  <2>3. closed' \subseteq Episode
    BY <1>0, <1>9, <2>1 DEF TypeOK, CommitDecision
  <2> QED
    BY <1>0, <1>9, <2>2, <2>3 DEF TypeOK, CommitDecision, End, Ends
<1>10. ASSUME NEW t \in Txns, GivesUp(t) PROVE TypeOK'
  <2>1. /\ signals' \subseteq Signal /\ occurrences' \subseteq Occurrence
        /\ events' \subseteq Event /\ links' \subseteq Link /\ closed' \subseteq Episode
    BY <1>0, <1>10 DEF TypeOK, GivesUp, RollBack
  <2>2. /\ clock' \in Nat
        /\ status' \in [Txns -> {"idle", "active"} \cup Ends]
        /\ pc' \in [Txns -> {"idle", "lock", "raise", "open", "link", "decide", "commit", "done"}]
        /\ now' \in [Txns -> Nat]
    BY <1>0, <1>10 DEF TypeOK, GivesUp, End, Ends
  <2>3. <<>> \in Seq(Findings)
    OBVIOUS
  <2>4. found' \in [Attempts -> Seq(Findings)] /\ todo' \in [Attempts -> Seq(Findings)]
    BY <1>0, <1>10, <2>3, ForgetTypes DEF TypeOK, GivesUp, RollBack
  <2>5. /\ target' \in [Attempts -> Episode \cup {Unchosen}]
        /\ asked' \in [Reviewers -> [episode: Episode, status: Statuses] \cup {Unchosen}]
        /\ over' \in [Attempts -> SUBSET Episode]
    BY <1>0, <1>10, ForgetTypes DEF TypeOK, GivesUp, RollBack
  <2> QED
    BY <2>1, <2>2, <2>4, <2>5 DEF TypeOK
<1>11. CASE UNCHANGED vars
  BY <1>0, <1>11 DEF TypeOK, vars, tables, local
<1> QED
  BY <1>1, <1>2, <1>3, <1>4, <1>5, <1>6, <1>7, <1>8, <1>9, <1>10, <1>11, StepCases
     DEF AttemptWorks, ReviewerWorks
-----------------------------------------------------------------------------
(***************************************************************************)
(* What a step leaves alone.                                               *)
(***************************************************************************)

\* The state of everybody but t.
Alone(t) ==
    /\ \A u \in Txns : u # t => status'[u] = status[u] /\ pc'[u] = pc[u] /\ now'[u] = now[u]
    /\ \A a \in Attempts : a # t => /\ found'[a] = found[a] /\ todo'[a] = todo[a]
                                    /\ target'[a] = target[a] /\ over'[a] = over[a]
    /\ \A h \in Reviewers : h # t => asked'[h] = asked[h]

\* The rows of everybody but t.
KeepsRows(t) ==
    /\ \A o \in occurrences \cup occurrences' : o.txn # t => o \in occurrences /\ o \in occurrences'
    /\ \A v \in events \cup events' : v.txn # t => v \in events /\ v \in events'
    /\ \A l \in links \cup links' : l.txn # t => l \in links /\ l \in links'

LEMMA AttemptAlone ==
    ASSUME TypeOK, NEW a \in Attempts, AttemptWorks(a)
    PROVE  Alone(a) /\ status[a] # "committed" /\ asked' = asked
<1>1. CASE BeginAttempt(a)
  <2>1. now' = [now EXCEPT ![a] = clock']
    BY <1>1, ClockReads, Parties DEF BeginAttempt
  <2> QED
    BY <1>1, <2>1 DEF Alone, TypeOK, BeginAttempt
<1>2. CASE TakeLock(a)
  BY <1>2 DEF Alone, TypeOK, TakeLock, At, Active, Goto, tables, local
<1>3. CASE RaiseSignal(a)
  <2>1. /\ UNCHANGED <<status, now, found, todo, asked, over>>
        /\ \A u \in Txns : u # a => pc'[u] = pc[u]
        /\ \A b \in Attempts : b # a => target'[b] = target[b]
    BY <1>3 DEF TypeOK, RaiseSignal, Goto
  <2> QED
    BY <1>3, <2>1 DEF Alone, RaiseSignal, At, Active
<1>4. ASSUME NEW e \in Episode, Opens(a, e)
      PROVE  Alone(a) /\ status[a] # "committed" /\ asked' = asked
  BY <1>4 DEF Alone, TypeOK, Opens, At, Active, Goto
<1>5. CASE LinkEvidence(a)
  BY <1>5 DEF Alone, TypeOK, LinkEvidence, At, Active, Goto
<1>6. CASE FinishAttempt(a)
  BY <1>6 DEF Alone, TypeOK, FinishAttempt, At, Active, End, tables, local
<1> QED
  BY <1>1, <1>2, <1>3, <1>4, <1>5, <1>6 DEF AttemptWorks

LEMMA ReviewerAlone ==
    ASSUME TypeOK, NEW h \in Reviewers, ReviewerWorks(h)
    PROVE  Alone(h) /\ status[h] # "committed" /\ UNCHANGED <<found, todo, target, over>>
<1>1. CASE Post(h)
  <2>1. now' = [now EXCEPT ![h] = clock']
    BY <1>1, ClockReads, Parties DEF Post
  <2> QED
    BY <1>1, <2>1 DEF Alone, TypeOK, Post
<1>2. CASE Decide(h)
  BY <1>2 DEF Alone, TypeOK, Decide, At, Active, Goto, local
<1>3. CASE CommitDecision(h)
  <2>1. \A g \in Reviewers : g # h => asked'[g] = asked[g]
    BY <1>3 DEF TypeOK, CommitDecision, Forget
  <2> QED
    BY <1>3, <2>1 DEF Alone, TypeOK, CommitDecision, At, Active, End
<1> QED
  BY <1>1, <1>2, <1>3 DEF ReviewerWorks

LEMMA GivesUpAlone ==
    ASSUME TypeOK, NEW t \in Txns, GivesUp(t)
    PROVE  /\ Alone(t) /\ status[t] = "active"
           /\ status'[t] \in {"refused", "crashed"} /\ closed' = closed
<1>1. /\ \A a \in Attempts : a # t => /\ found'[a] = found[a] /\ todo'[a] = todo[a]
                                      /\ target'[a] = target[a] /\ over'[a] = over[a]
      /\ \A h \in Reviewers : h # t => asked'[h] = asked[h]
  BY DEF TypeOK, GivesUp, RollBack, Forget
<1>2. /\ \A u \in Txns : u # t => status'[u] = status[u] /\ pc'[u] = pc[u] /\ now'[u] = now[u]
      /\ status'[t] \in {"refused", "crashed"}
  BY DEF TypeOK, GivesUp, End
<1> QED
  BY <1>1, <1>2 DEF Alone, GivesUp, Active, RollBack

LEMMA AttemptRows ==
    ASSUME TypeOK, NEW a \in Attempts, AttemptWorks(a)
    PROVE  /\ KeepsRows(a) /\ closed' = closed
           /\ occurrences \subseteq occurrences' /\ events \subseteq events' /\ links \subseteq links'
<1>1. CASE BeginAttempt(a)
  BY <1>1 DEF KeepsRows, BeginAttempt, tables
<1>2. CASE TakeLock(a)
  BY <1>2 DEF KeepsRows, TakeLock, tables
<1>3. CASE RaiseSignal(a)
  BY <1>3 DEF KeepsRows, RaiseSignal
<1>4. ASSUME NEW e \in Episode, Opens(a, e)
      PROVE  /\ KeepsRows(a) /\ closed' = closed
             /\ occurrences \subseteq occurrences' /\ events \subseteq events' /\ links \subseteq links'
  BY <1>4 DEF KeepsRows, Opens
<1>5. CASE LinkEvidence(a)
  BY <1>5 DEF KeepsRows, LinkEvidence
<1>6. CASE FinishAttempt(a)
  BY <1>6 DEF KeepsRows, FinishAttempt, tables
<1> QED
  BY <1>1, <1>2, <1>3, <1>4, <1>5, <1>6 DEF AttemptWorks

LEMMA ReviewerRows ==
    ASSUME TypeOK, NEW h \in Reviewers, ReviewerWorks(h)
    PROVE  /\ KeepsRows(h) /\ UNCHANGED <<occurrences, links>> /\ events \subseteq events'
           /\ CommitDecision(h) \/ closed' = closed
<1>1. CASE Post(h)
  BY <1>1 DEF KeepsRows, Post, tables
<1>2. CASE Decide(h)
  BY <1>2 DEF KeepsRows, Decide
<1>3. CASE CommitDecision(h)
  BY <1>3 DEF KeepsRows, CommitDecision
<1> QED
  BY <1>1, <1>2, <1>3 DEF ReviewerWorks

\* What is left after a transaction gave up are the rows of everybody else.
LEMMA GivesUpRows ==
    ASSUME NEW t \in Txns, GivesUp(t)
    PROVE  /\ KeepsRows(t)
           /\ \A o \in occurrences' : o \in occurrences /\ o.txn # t
           /\ \A v \in events' : v \in events /\ v.txn # t
           /\ \A l \in links' : l \in links /\ l.txn # t
  BY DEF KeepsRows, GivesUp, RollBack

\* What is committed stays.
LEMMA CommittedStays ==
    ASSUME SignalsInv, [Next]_vars
    PROVE  /\ \A t \in Txns : status[t] = "committed" => status'[t] = "committed"
           /\ Committed(occurrences) \subseteq Committed(occurrences)'
           /\ Committed(events) \subseteq Committed(events)'
<1>0. TypeOK
  BY DEF SignalsInv
<1>1. ASSUME NEW t \in Txns, Alone(t), KeepsRows(t), status[t] # "committed"
      PROVE  /\ \A u \in Txns : status[u] = "committed" => status'[u] = "committed"
             /\ Committed(occurrences) \subseteq Committed(occurrences)'
             /\ Committed(events) \subseteq Committed(events)'
  <2>1. \A u \in Txns : status[u] = "committed" => u # t /\ status'[u] = "committed"
    BY <1>1 DEF Alone
  <2>2. \A o \in occurrences : status[o.txn] = "committed" => o \in occurrences'
    BY <1>0, <1>1, RowTypes DEF KeepsRows
  <2>3. \A v \in events : status[v.txn] = "committed" => v \in events'
    BY <1>0, <1>1, RowTypes DEF KeepsRows
  <2> QED
    BY <1>0, <2>1, <2>2, <2>3, RowTypes DEF Committed
<1>2. CASE \E a \in Attempts : AttemptWorks(a)
  BY <1>0, <1>1, <1>2, AttemptAlone, AttemptRows, Parties
<1>3. CASE \E h \in Reviewers : ReviewerWorks(h)
  BY <1>0, <1>1, <1>3, ReviewerAlone, ReviewerRows, Parties
<1>4. CASE \E t \in Txns : GivesUp(t)
  BY <1>0, <1>1, <1>4, GivesUpAlone, GivesUpRows
<1>5. CASE UNCHANGED vars
  BY <1>5 DEF vars, tables, Committed
<1> QED
  BY <1>2, <1>3, <1>4, <1>5, StepCases
-----------------------------------------------------------------------------
(***************************************************************************)
(* Phases.                                                                 *)
(***************************************************************************)

\* What a transaction must keep to of PhaseOK when it is the one that moved.
PhaseWell(t) ==
    /\ t # Earlier
    /\ t \in Attempts /\ status'[t] = "active" =>
          /\ pc'[t] \in {"lock", "raise", "open", "link"}
          /\ pc'[t] \in {"open", "link"} => todo'[t] # <<>>
          /\ pc'[t] # "lock" => \A b \in Attempts : b # t => ~Past(b)
    /\ t \in Reviewers /\ status'[t] = "active" =>
          /\ pc'[t] \in {"decide", "commit"}
          /\ asked'[t] \in [episode: Episode, status: Statuses]
          /\ \E o \in Committed(occurrences)' : o.episode = asked'[t].episode

LEMMA PhaseByOthers ==
    ASSUME TypeOK, PhaseOK, NEW t \in Txns, Alone(t), PhaseWell(t),
           Committed(occurrences) \subseteq Committed(occurrences)'
    PROVE  PhaseOK'
<1>1. (status[Earlier] = "committed")'
  BY Parties DEF PhaseOK, Alone, PhaseWell
<1>2. ASSUME NEW a \in Attempts, Active(a)'
      PROVE  /\ pc'[a] \in {"lock", "raise", "open", "link"}
             /\ pc'[a] \in {"open", "link"} => todo'[a] # <<>>
  BY <1>2, Parties DEF PhaseOK, Alone, PhaseWell, Active
<1>3. ASSUME NEW a \in Attempts, NEW b \in Attempts, Past(a)', Past(b)' PROVE a = b
  BY <1>3, Parties DEF PhaseOK, Alone, PhaseWell, Active, Past
<1>4. ASSUME NEW h \in Reviewers, Active(h)'
      PROVE  /\ pc'[h] \in {"decide", "commit"}
             /\ asked'[h] \in [episode: Episode, status: Statuses]
             /\ \E o \in Committed(occurrences)' : o.episode = asked'[h].episode
  BY <1>4, Parties DEF PhaseOK, Alone, PhaseWell, Active
<1> QED
  BY <1>1, <1>2, <1>3, <1>4 DEF PhaseOK

LEMMA PhaseStep == SignalsInv /\ [Next]_vars => PhaseOK'
<1> SUFFICES ASSUME SignalsInv, [Next]_vars PROVE PhaseOK'
  OBVIOUS
<1>0. TypeOK /\ PhaseOK /\ Committed(occurrences) \subseteq Committed(occurrences)'
  BY CommittedStays DEF SignalsInv
<1>1. ASSUME NEW a \in Attempts, AttemptWorks(a) PROVE PhaseOK'
  <2>1. a \in Txns /\ a # Earlier /\ a \notin Reviewers
    BY Parties
  <2>2. PhaseWell(a)
    <3>1. CASE BeginAttempt(a)
      BY <1>0, <2>1, <3>1 DEF TypeOK, PhaseWell, BeginAttempt
    <3>2. CASE TakeLock(a)
      BY <1>0, <2>1, <3>2 DEF TypeOK, PhaseWell, TakeLock, Goto, LockFree, Past, Active
    <3>3. CASE RaiseSignal(a)
      BY <1>0, <2>1, <3>3 DEF TypeOK, PhaseOK, PhaseWell, RaiseSignal, Goto, At, Past
    <3>4. ASSUME NEW e \in Episode, Opens(a, e) PROVE PhaseWell(a)
      BY <1>0, <2>1, <3>4 DEF TypeOK, PhaseOK, PhaseWell, Opens, Goto, At, Past
    <3>5. CASE LinkEvidence(a)
      BY <1>0, <2>1, <3>5 DEF TypeOK, PhaseOK, PhaseWell, LinkEvidence, Goto, At, Past
    <3>6. CASE FinishAttempt(a)
      BY <1>0, <2>1, <3>6 DEF TypeOK, PhaseWell, FinishAttempt, End
    <3> QED
      BY <1>1, <3>1, <3>2, <3>3, <3>4, <3>5, <3>6 DEF AttemptWorks
  <2> QED
    BY <1>0, <1>1, <2>1, <2>2, AttemptAlone, PhaseByOthers
<1>2. ASSUME NEW h \in Reviewers, ReviewerWorks(h) PROVE PhaseOK'
  <2>1. h \in Txns /\ h # Earlier /\ h \notin Attempts
    BY Parties
  <2>2. PhaseWell(h)
    <3>1. CASE Post(h)
      <4>1. PICK o \in occurrences, s \in Statuses :
                status[o.txn] = "committed" /\ asked'[h] = [episode |-> o.episode, status |-> s]
        BY <1>0, <3>1 DEF TypeOK, Post
      <4>2. o \in Committed(occurrences)'
        BY <1>0, <4>1 DEF Committed
      <4>3. asked'[h] \in [episode: Episode, status: Statuses] /\ asked'[h].episode = o.episode
        BY <1>0, <4>1, RowTypes
      <4> QED
        BY <1>0, <2>1, <3>1, <4>2, <4>3 DEF TypeOK, PhaseWell, Post
    <3>2. CASE Decide(h)
      BY <1>0, <2>1, <3>2 DEF TypeOK, PhaseOK, PhaseWell, Decide, At, Goto, local
    <3>3. CASE CommitDecision(h)
      BY <1>0, <2>1, <3>3 DEF TypeOK, PhaseWell, CommitDecision, End
    <3> QED
      BY <1>2, <3>1, <3>2, <3>3 DEF ReviewerWorks
  <2> QED
    BY <1>0, <1>2, <2>1, <2>2, ReviewerAlone, PhaseByOthers
<1>3. ASSUME NEW t \in Txns, GivesUp(t) PROVE PhaseOK'
  <2>1. Alone(t) /\ PhaseWell(t)
    BY <1>0, <1>3, GivesUpAlone DEF PhaseOK, PhaseWell
  <2> QED
    BY <1>0, <2>1, PhaseByOthers
<1>4. CASE UNCHANGED vars
  BY <1>0, <1>4 DEF PhaseOK, vars, tables, local, Active, Past, Committed
<1> QED
  BY <1>1, <1>2, <1>3, <1>4, StepCases
-----------------------------------------------------------------------------
(***************************************************************************)
(* Rows.                                                                   *)
(***************************************************************************)

\* What a transaction must keep to of RowsOK when it is the one that moved.
RowsWell(t) ==
    /\ \A o \in occurrences' : o.txn = t =>
          /\ status'[t] # "committed" => t \in Attempts /\ Past(t)'
          /\ \E v \in events' : v.episode = o.episode /\ v.status = "OPEN" /\ v.txn = t
    /\ \A l \in links' : l.txn = t => status'[t] = "committed" \/ Past(t)'
    /\ \A v \in events' : v.txn = t =>
          /\ status'[t] # "committed" => OpenedBy(v, t)' \/ DecidedBy(v, t)'
          /\ status'[t] = "committed" => \E o \in Committed(occurrences)' : o.episode = v.episode
    /\ t \in Reviewers /\ At(t, "commit")' =>
          \E v \in events' : v.txn = t /\ v.episode = asked'[t].episode /\ v.status = asked'[t].status

LEMMA RowsByOthers ==
    ASSUME TypeOK, TypeOK', RowsOK, NEW t \in Txns, Alone(t), KeepsRows(t), RowsWell(t),
           Committed(occurrences) \subseteq Committed(occurrences)'
    PROVE  RowsOK'
<1>1. ASSUME NEW o \in occurrences', status'[o.txn] # "committed"
      PROVE  o.txn \in Attempts /\ Past(o.txn)'
  <2>1. o.txn \in Txns
    BY RowTypes, TypeOK' DEF TypeOK, Occurrence, Txns
  <2>2. CASE o.txn # t
    <3>1. o \in occurrences /\ status[o.txn] # "committed"
      BY <1>1, <2>1, <2>2 DEF Alone, KeepsRows
    <3> QED
      BY <2>1, <2>2, <3>1 DEF RowsOK, Alone, Past, Active
  <2> QED
    BY <1>1, <2>2 DEF RowsWell
<1>2. ASSUME NEW l \in links', status'[l.txn] # "committed" PROVE Past(l.txn)'
  <2>1. l.txn \in Txns
    BY DEF TypeOK, Link, Txns
  <2>2. CASE l.txn # t
    <3>1. l \in links /\ status[l.txn] # "committed"
      BY <1>2, <2>1, <2>2 DEF Alone, KeepsRows
    <3> QED
      BY <2>1, <2>2, <3>1 DEF RowsOK, Alone, Past, Active
  <2> QED
    BY <1>2, <2>2 DEF RowsWell
<1>3. ASSUME NEW v \in events', status'[v.txn] # "committed"
      PROVE  OpenedBy(v, v.txn)' \/ DecidedBy(v, v.txn)'
  <2>1. v.txn \in Txns
    BY DEF TypeOK, Event
  <2>2. CASE v.txn # t
    <3>1. v \in events /\ status[v.txn] # "committed"
      BY <1>3, <2>1, <2>2 DEF Alone, KeepsRows
    <3>2. CASE OpenedBy(v, v.txn)
      BY <2>1, <2>2, <3>2 DEF OpenedBy, Alone, KeepsRows, Past, Active
    <3>3. CASE DecidedBy(v, v.txn)
      BY <2>1, <2>2, <3>3 DEF DecidedBy, Alone, At, Active
    <3> QED
      BY <3>1, <3>2, <3>3 DEF RowsOK
  <2> QED
    BY <1>3, <2>2 DEF RowsWell
<1>4. ASSUME NEW v \in events', status'[v.txn] = "committed"
      PROVE  \E o \in Committed(occurrences)' : o.episode = v.episode
  <2>1. v.txn \in Txns
    BY DEF TypeOK, Event
  <2>2. CASE v.txn # t
    <3>1. v \in Committed(events)
      BY <1>4, <2>1, <2>2 DEF Alone, KeepsRows, Committed
    <3> QED
      BY <3>1 DEF RowsOK
  <2> QED
    BY <1>4, <2>2 DEF RowsWell
<1>5. ASSUME NEW o \in occurrences'
      PROVE  \E v \in events' : v.episode = o.episode /\ v.status = "OPEN" /\ v.txn = o.txn
  <2>1. CASE o.txn # t
    <3>1. o \in occurrences
      BY <2>1 DEF KeepsRows
    <3>2. PICK v \in events : v.episode = o.episode /\ v.status = "OPEN" /\ v.txn = o.txn
      BY <3>1 DEF RowsOK
    <3> QED
      BY <2>1, <3>2 DEF KeepsRows
  <2> QED
    BY <2>1 DEF RowsWell
<1>6. ASSUME NEW h \in Reviewers, At(h, "commit")'
      PROVE  \E v \in events' : v.txn = h /\ v.episode = asked'[h].episode
                                /\ v.status = asked'[h].status
  <2>1. CASE h # t
    <3>1. At(h, "commit") /\ asked'[h] = asked[h]
      BY <1>6, <2>1, Parties DEF Alone, At, Active
    <3>2. PICK v \in events : v.txn = h /\ v.episode = asked[h].episode /\ v.status = asked[h].status
      BY <3>1 DEF RowsOK
    <3> QED
      BY <2>1, <3>1, <3>2 DEF KeepsRows
  <2> QED
    BY <1>6, <2>1 DEF RowsWell
<1>7. \A v \in Committed(events)' : \E o \in Committed(occurrences)' : o.episode = v.episode
  BY <1>4 DEF Committed
<1> QED
  BY <1>1, <1>2, <1>3, <1>5, <1>6, <1>7 DEF RowsOK

LEMMA RowsStep == SignalsInv /\ [Next]_vars => RowsOK'
<1> SUFFICES ASSUME SignalsInv, [Next]_vars PROVE RowsOK'
  OBVIOUS
<1>0. /\ TypeOK /\ TypeOK' /\ PhaseOK /\ RowsOK
      /\ Committed(occurrences) \subseteq Committed(occurrences)'
  BY CommittedStays, TypeStep DEF SignalsInv
<1>1. ASSUME NEW a \in Attempts, AttemptWorks(a) PROVE RowsOK'
  <2>1. a \in Txns /\ a # Earlier /\ a \notin Reviewers /\ status[a] # "committed"
    BY <1>0, <1>1, AttemptAlone, Parties
  <2>2. /\ \A o \in occurrences : o.txn = a => Past(a)
        /\ \A l \in links : l.txn = a => Past(a)
        /\ \A v \in events : v.txn = a => OpenedBy(v, a)
    BY <1>0, <2>1 DEF RowsOK, DecidedBy
  <2>3. RowsWell(a)
    <3>1. CASE BeginAttempt(a)
      BY <1>0, <2>1, <2>2, <3>1 DEF RowsOK, RowsWell, BeginAttempt, OpenedBy, Past, Active, tables
    <3>2. CASE TakeLock(a)
      BY <1>0, <2>1, <2>2, <3>2
         DEF TypeOK, RowsOK, RowsWell, TakeLock, Goto, At, OpenedBy, Past, Active, tables
    <3>3. CASE RaiseSignal(a)
      <4>1. /\ UNCHANGED <<occurrences, events, links, status>> /\ Past(a)'
        BY <1>0, <2>1, <3>3 DEF TypeOK, RaiseSignal, Goto, At, Past, Active
      <4> QED
        BY <1>0, <2>1, <2>2, <4>1 DEF RowsOK, RowsWell, OpenedBy, Past, Active
    <3>4. ASSUME NEW e \in Episode, Opens(a, e) PROVE RowsWell(a)
      <4> DEFINE row == [episode |-> e, supersedes |-> Previous(e), txn |-> a]
                 event == [episode |-> e, status |-> "OPEN", at |-> now[a], txn |-> a]
      <4>0. /\ occurrences' = occurrences \cup {row} /\ row.episode = e /\ row.txn = a
            /\ events' = events \cup {event}
            /\ event.episode = e /\ event.status = "OPEN" /\ event.txn = a
        BY <3>4 DEF Opens
      <4> HIDE DEF row, event
      <4>1. UNCHANGED <<links, status>> /\ Past(a)' /\ status'[a] # "committed"
        BY <1>0, <2>1, <3>4 DEF TypeOK, Opens, Goto, At, Past, Active
      <4>2. \A o \in occurrences' : o.txn = a =>
                \E v \in events' : v.episode = o.episode /\ v.status = "OPEN" /\ v.txn = a
        BY <1>0, <4>0 DEF RowsOK
      <4>3. \A v \in events' : v.txn = a =>
                v.status = "OPEN" /\ \E o \in occurrences' : o.txn = a /\ o.episode = v.episode
        BY <2>2, <4>0 DEF OpenedBy
      <4> QED
        BY <2>1, <4>1, <4>2, <4>3 DEF RowsWell, OpenedBy
    <3>5. CASE LinkEvidence(a)
      <4>1. UNCHANGED <<occurrences, events, status>> /\ Past(a)'
        BY <1>0, <2>1, <3>5 DEF TypeOK, LinkEvidence, Goto, At, Past, Active
      <4> QED
        BY <1>0, <2>1, <2>2, <4>1 DEF RowsOK, RowsWell, OpenedBy, Past, Active
    <3>6. CASE FinishAttempt(a)
      <4>1. UNCHANGED <<occurrences, events, links>> /\ status'[a] = "committed"
        BY <1>0, <2>1, <3>6 DEF TypeOK, FinishAttempt, End, tables
      <4>2. \A v \in events' : v.txn = a =>
                \E o \in Committed(occurrences)' : o.episode = v.episode
        BY <2>2, <4>1 DEF OpenedBy, Committed
      <4> QED
        BY <1>0, <2>1, <4>1, <4>2 DEF RowsOK, RowsWell
    <3> QED
      BY <1>1, <3>1, <3>2, <3>3, <3>4, <3>5, <3>6 DEF AttemptWorks
  <2> QED
    BY <1>0, <1>1, <2>1, <2>3, AttemptAlone, AttemptRows, RowsByOthers
<1>2. ASSUME NEW h \in Reviewers, ReviewerWorks(h) PROVE RowsOK'
  <2>1. h \in Txns /\ h # Earlier /\ h \notin Attempts /\ status[h] # "committed"
    BY <1>0, <1>2, ReviewerAlone, Parties
  <2>2. /\ \A o \in occurrences : o.txn # h
        /\ \A l \in links : l.txn # h
        /\ \A v \in events : v.txn = h => DecidedBy(v, h)
    BY <1>0, <2>1, RowTypes DEF RowsOK, OpenedBy
  <2>3. /\ \A o \in occurrences' : o.txn # h
        /\ \A l \in links' : l.txn # h
    BY <1>0, <1>2, <2>2, ReviewerRows
  <2>4. RowsWell(h)
    <3>1. CASE Post(h)
      BY <1>0, <2>1, <2>2, <2>3, <3>1 DEF TypeOK, RowsWell, Post, DecidedBy, At, Active, tables
    <3>2. CASE Decide(h)
      <4>1. At(h, "commit")' /\ asked' = asked /\ now' = now /\ ~At(h, "commit") /\ status'[h] # "committed"
        BY <1>0, <2>1, <3>2 DEF TypeOK, Decide, Goto, At, Active, local
      <4> DEFINE event == [episode |-> asked[h].episode, status |-> asked[h].status,
                           at |-> now[h], txn |-> h]
      <4>0. /\ events' = events \cup {event} /\ event.txn = h
            /\ event.episode = asked[h].episode /\ event.status = asked[h].status
            /\ event.at = now[h]
        BY <3>2 DEF Decide
      <4> HIDE DEF event
      <4>2. \A v \in events' : v.txn = h =>
                v.episode = asked'[h].episode /\ v.status = asked'[h].status /\ v.at = now'[h]
        BY <2>2, <4>0, <4>1 DEF DecidedBy
      <4>3. \E v \in events' : v.txn = h /\ v.episode = asked'[h].episode
                               /\ v.status = asked'[h].status
        BY <4>0, <4>1
      <4> QED
        BY <2>1, <2>3, <4>1, <4>2, <4>3 DEF RowsWell, DecidedBy
    <3>3. CASE CommitDecision(h)
      <4>1. events' = events /\ status'[h] = "committed" /\ ~At(h, "commit")' /\ Active(h)
        BY <1>0, <2>1, <3>3 DEF TypeOK, CommitDecision, End, At, Active
      <4>2. \A v \in events' : v.txn = h =>
                \E o \in Committed(occurrences)' : o.episode = v.episode
        <5>1. \E o \in Committed(occurrences)' : o.episode = asked[h].episode
          BY <1>0, <4>1 DEF PhaseOK
        <5> QED
          BY <2>2, <4>1, <5>1 DEF DecidedBy
      <4> QED
        BY <2>3, <4>1, <4>2 DEF RowsWell
    <3> QED
      BY <1>2, <3>1, <3>2, <3>3 DEF ReviewerWorks
  <2> QED
    BY <1>0, <1>2, <2>1, <2>4, ReviewerAlone, ReviewerRows, RowsByOthers
<1>3. ASSUME NEW t \in Txns, GivesUp(t) PROVE RowsOK'
  <2>1. Alone(t) /\ KeepsRows(t)
    BY <1>0, <1>3, GivesUpAlone, GivesUpRows
  <2>2. RowsWell(t)
    BY <1>0, <1>3, GivesUpAlone, GivesUpRows DEF RowsWell, At, Active
  <2> QED
    BY <1>0, <2>1, <2>2, RowsByOthers
<1>4. CASE UNCHANGED vars
  BY <1>0, <1>4 DEF RowsOK, vars, tables, local, Active, Past, At, Committed, OpenedBy, DecidedBy
<1> QED
  BY <1>1, <1>2, <1>3, <1>4, StepCases
-----------------------------------------------------------------------------
(***************************************************************************)
(* The log of an episode.                                                  *)
(***************************************************************************)

\* The number an attempt takes is of no episode yet, nobody was asked about it,
\* and the concern has no episode that is not over.
LEMMA FreshEpisode ==
    ASSUME SignalsInv, NEW a \in Attempts, NEW e \in Episode, Opens(a, e)
    PROVE  /\ e[1] = ConcernOf(a) /\ e \notin closed
           /\ \A o \in occurrences : o.episode # e
           /\ \A v \in events : v.episode # e
           /\ \A h \in Reviewers : Active(h) => asked[h].episode # e
           /\ \A o \in EpisodesOf(e[1], occurrences) : status[o.txn] = "committed"
           /\ \E m \in Nat : Numbered(e[1], m) /\ e[2] = m + 1 /\ (m > 0 => <<e[1], m>> \in closed)
<1>0. TypeOK /\ PhaseOK /\ RowsOK /\ ClosedOK /\ EpisodesOK
  BY DEF SignalsInv
<1>1. At(a, "open")
  BY DEF Opens
<1>2. ConcernOf(a) \in Concerns
  BY <1>0, <1>1, HeadConcern DEF At
<1>3. PICK m \in Nat : /\ Numbered(ConcernOf(a), m)
                       /\ e = <<ConcernOf(a), m + 1>>
                       /\ \A o \in EpisodesOf(ConcernOf(a), occurrences) : status[o.txn] = "committed"
                       /\ m > 0 => <<ConcernOf(a), m>> \in closed
  BY <1>0, <1>1, <1>2, NextNumber DEF Opens
<1>4. e[1] = ConcernOf(a) /\ e[2] = m + 1
  BY <1>3
<1>5. ASSUME NEW o \in occurrences, o.episode = e PROVE FALSE
  <2>1. o \in EpisodesOf(ConcernOf(a), Committed(occurrences))
    BY <1>3, <1>4, <1>5 DEF EpisodesOf, Committed
  <2>2. o.episode[2] \in 1 .. m
    BY <1>3, <2>1 DEF Numbered, Numbers
  <2> QED
    BY <1>4, <1>5, <2>2
<1>6. ASSUME NEW v \in events PROVE v.episode # e
  BY <1>0, <1>5 DEF RowsOK, PhaseOK, Committed, OpenedBy, DecidedBy, At
<1>7. ASSUME NEW h \in Reviewers, Active(h) PROVE asked[h].episode # e
  BY <1>0, <1>5, <1>7 DEF PhaseOK, Committed
<1>8. e \notin closed
  BY <1>0, <1>5 DEF ClosedOK, Committed
<1> QED
  BY <1>3, <1>4, <1>5, <1>6, <1>7, <1>8

\* Order of the log.
LEMMA LogOrder ==
    ASSUME TypeOK
    PROVE  /\ \A v, w \in events : AtOrAfter(v, w) \/ AtOrAfter(w, v)
           /\ \A u, v, w \in events : AtOrAfter(u, v) /\ AtOrAfter(v, w) => AtOrAfter(u, w)
           /\ \A v, w \in events : v.at = w.at /\ v.status = w.status => AtOrAfter(v, w)
<1>1. \A v \in events : v.at \in Nat /\ v.status \in Statuses
  BY RowTypes
<1>2. \A s \in Statuses : Rank[s] \in Nat
  BY DEF Statuses, Rank
<1> QED
  BY <1>1, <1>2 DEF AtOrAfter

\* Who may decide an episode finds it open or acknowledged, and nothing in its
\* committed log has ended it.
LEMMA DecidesAnOpenOne ==
    ASSUME SignalsInv, NEW h \in Reviewers, Decide(h)
    PROVE  /\ asked[h].status # "OPEN" /\ ~Ended(asked[h].episode)
           /\ asked[h] \in [episode: Episode, status: Statuses]
           /\ \A g \in Reviewers : At(g, "commit") => asked[g].episode # asked[h].episode
<1> DEFINE e == asked[h].episode
           log == Log(h, e)
<1>0. TypeOK /\ PhaseOK /\ RowsOK /\ TimesOK /\ LogOK
  BY DEF SignalsInv
<1>1. /\ Active(h) /\ ~At(h, "commit")
      /\ asked[h].status \in Legal[OccurrenceStatus(h, e)]
      /\ asked[h].status \in Terminal => ~\E v \in log : v.status \in Terminal
      /\ CanLock(h, e)
  BY DEF Decide, IsLegal, At
<1>2. asked[h] \in [episode: Episode, status: Statuses]
  BY <1>0, <1>1 DEF PhaseOK
<1>3. log = CommittedLog(e)
  <2>1. ASSUME NEW v \in events, v.txn = h PROVE status[h] = "committed"
    BY <1>0, <1>1, <2>1, Parties DEF RowsOK, OpenedBy, DecidedBy
  <2> QED
    BY <2>1 DEF Log, CommittedLog, Committed, Sees
<1>4. PICK v \in log : \A w \in log : AtOrAfter(v, w)
  <2>1. PICK o \in Committed(occurrences) : o.episode = e
    BY <1>0, <1>1 DEF PhaseOK
  <2>2. \E v \in CommittedLog(o.episode) : \A w \in CommittedLog(o.episode) : AtOrAfter(v, w)
    BY <1>0, <2>1 DEF LogOK
  <2> QED
    BY <1>3, <2>1, <2>2
<1> DEFINE last == Latest(log)
<1>5. last \in log /\ \A w \in log : AtOrAfter(last, w)
  BY <1>4 DEF Latest, AtOrAfter
<1>6. asked[h].status \in Legal[last.status]
  BY <1>1 DEF OccurrenceStatus
<1> HIDE DEF last
<1>7. \A w \in log : w \in events /\ w.episode = e
  BY DEF Log
<1>8. last.status \in Statuses /\ last.at \in Nat
  BY <1>0, <1>5, <1>7, RowTypes
<1>9. /\ asked[h].status # "OPEN"
      /\ \/ last.status = "OPEN"
         \/ last.status = "ACKNOWLEDGED" /\ asked[h].status \in Terminal
  BY <1>6, <1>8 DEF Statuses, Legal, Terminal
<1>10. ~Ended(e)
  <2>1. ASSUME NEW w \in Committed(events), w.episode = e, w.status \in Terminal PROVE FALSE
    <3>1. w \in log /\ w \in events
      BY <1>3, <2>1 DEF CommittedLog, Committed
    <3>2. last.status = "OPEN"
      BY <1>1, <1>9, <2>1, <3>1
    <3>3. last.at <= w.at /\ w.at \in Nat
      BY <1>0, <1>5, <1>7, <3>1, <3>2, RowTypes DEF TimesOK
    <3>4. AtOrAfter(last, w)
      BY <1>5, <3>1
    <3> QED
      BY <1>8, <2>1, <3>2, <3>3, <3>4 DEF AtOrAfter, Rank, Terminal
  <2> QED
    BY <2>1 DEF Ended
<1>11. \A g \in Reviewers : At(g, "commit") => asked[g].episode # e
  BY <1>1 DEF CanLock, HeldBy
<1> QED
  BY <1>2, <1>9, <1>10, <1>11

LEMMA TimesStep == SignalsInv /\ [Next]_vars => TimesOK'
<1> SUFFICES ASSUME SignalsInv, [Next]_vars PROVE TimesOK'
  OBVIOUS
<1>0. TypeOK /\ TypeOK' /\ PhaseOK /\ TimesOK
  BY TypeStep DEF SignalsInv
<1>1. ASSUME events' = events, NEW t \in Txns, ReadClock(t), Alone(t) PROVE TimesOK'
  <2>1. /\ clock \in Nat /\ clock' \in Nat /\ clock <= clock'
        /\ now' = [now EXCEPT ![t] = clock'] /\ now \in [Txns -> Nat]
    BY <1>0, <1>1, ClockReads DEF TypeOK
  <2>2. \A v \in events : v.at \in Nat
    BY <1>0, RowTypes
  <2>3. \A u \in Txns : now'[u] <= clock'
    BY <1>0, <2>1 DEF TimesOK
  <2>4. \A v \in events' : v.at <= clock'
    BY <1>0, <1>1, <2>1, <2>2 DEF TimesOK
  <2>5. ASSUME NEW h \in Reviewers, Active(h)', NEW v \in events',
               v.episode = asked'[h].episode, v.status = "OPEN"
        PROVE  v.at <= now'[h]
    <3>1. h \in Txns
      BY Parties
    <3>2. CASE h # t
      <4>1. Active(h) /\ now'[h] = now[h] /\ v \in events /\ asked[h] = asked'[h]
        BY <1>1, <2>1, <2>5, <3>1, <3>2 DEF Active, Alone
      <4> QED
        BY <1>0, <2>5, <4>1 DEF TimesOK
    <3>3. CASE h = t
      BY <2>1, <2>4, <2>5, <3>1, <3>3
    <3> QED
      BY <3>2, <3>3
  <2> QED
    BY <1>0, <1>1, <2>3, <2>4, <2>5 DEF TimesOK
<1>2. ASSUME NEW t \in Txns, Alone(t), UNCHANGED clock, now'[t] \in {now[t], 0},
             \A v \in events' : v \in events, t \in Reviewers => asked'[t] = asked[t] \/ status'[t] # "active",
             status'[t] = "active" => status[t] = "active" /\ now'[t] = now[t]
      PROVE  TimesOK'
  <2>1. \A u \in Txns : now'[u] \in {now[u], 0}
    BY <1>2 DEF Alone
  <2>2. \A u \in Txns : now'[u] <= clock'
    <3>1. clock \in Nat /\ clock' = clock /\ 0 <= clock
      BY <1>0, <1>2 DEF TypeOK
    <3>2. \A u \in Txns : now[u] <= clock
      BY <1>0 DEF TimesOK
    <3> QED
      BY <2>1, <3>1, <3>2
  <2>3. ASSUME NEW h \in Reviewers, Active(h)', NEW v \in events',
               v.episode = asked'[h].episode, v.status = "OPEN"
        PROVE  v.at <= now'[h]
    <3>1. Active(h) /\ asked'[h] = asked[h] /\ now'[h] = now[h] /\ v \in events
      BY <1>2, <2>3, Parties DEF Alone, Active
    <3> QED
      BY <1>0, <2>3, <3>1 DEF TimesOK
  <2> QED
    BY <1>0, <1>2, <2>2, <2>3 DEF TimesOK
\* An event stamped with the writer's time, and not before its episode opened.
<1>3. ASSUME NEW t \in Txns, Active(t), NEW event \in Event, events' = events \cup {event},
             UNCHANGED <<clock, status, now, asked>>, event.at = now[t],
             \A v \in events : v.episode = event.episode /\ v.status = "OPEN" => v.at <= event.at,
             event.status = "OPEN" =>
                /\ \A v \in events : v.episode # event.episode
                /\ \A h \in Reviewers : Active(h) => asked[h].episode # event.episode
      PROVE  TimesOK'
  <2>1. event.at \in Nat
    BY DEF Event
  <2>2. \A v \in events' : v.at <= clock'
    BY <1>0, <1>3 DEF TimesOK
  <2>3. ASSUME NEW v \in events', NEW w \in events', v.episode = w.episode, v.status = "OPEN"
        PROVE  v.at <= w.at
    BY <1>0, <1>3, <2>1, <2>3 DEF TimesOK
  <2>4. ASSUME NEW h \in Reviewers, Active(h)', NEW v \in events',
               v.episode = asked'[h].episode, v.status = "OPEN"
        PROVE  v.at <= now'[h]
    BY <1>0, <1>3, <2>4 DEF TimesOK, Active
  <2>5. \A u \in Txns : now'[u] <= clock'
    BY <1>0, <1>3 DEF TimesOK
  <2> QED
    BY <2>2, <2>3, <2>4, <2>5 DEF TimesOK
<1>4. ASSUME NEW a \in Attempts, AttemptWorks(a) PROVE TimesOK'
  <2>1. a \in Txns /\ a \notin Reviewers /\ Alone(a)
    BY <1>0, <1>4, AttemptAlone, Parties
  <2>2. CASE BeginAttempt(a)
    BY <1>1, <2>1, <2>2 DEF BeginAttempt, tables
  <2>3. CASE TakeLock(a)
    BY <1>2, <2>1, <2>3 DEF TakeLock, Goto, tables
  <2>4. CASE RaiseSignal(a)
    BY <1>2, <2>1, <2>4 DEF RaiseSignal, Goto
  <2>5. ASSUME NEW e \in Episode, Opens(a, e) PROVE TimesOK'
    <3> DEFINE event == [episode |-> e, status |-> "OPEN", at |-> now[a], txn |-> a]
    <3>1. /\ events' = events \cup {event} /\ UNCHANGED <<clock, status, now, asked>> /\ Active(a)
          /\ event.episode = e /\ event.status = "OPEN" /\ event.at = now[a]
      BY <2>5 DEF Opens, Goto, At
    <3>2. event \in Event
      BY <1>0, <2>1 DEF TypeOK, Event, Statuses
    <3> HIDE DEF event
    <3>3. /\ \A v \in events : v.episode # e
          /\ \A h \in Reviewers : Active(h) => asked[h].episode # e
      BY <2>5, FreshEpisode
    <3> QED
      BY <1>3, <2>1, <3>1, <3>2, <3>3
  <2>6. CASE LinkEvidence(a)
    BY <1>2, <2>1, <2>6 DEF LinkEvidence, Goto
  <2>7. CASE FinishAttempt(a)
    BY <1>0, <1>2, <2>1, <2>7 DEF TypeOK, FinishAttempt, End, tables
  <2> QED
    BY <1>4, <2>2, <2>3, <2>4, <2>5, <2>6, <2>7 DEF AttemptWorks
<1>5. ASSUME NEW h \in Reviewers, ReviewerWorks(h) PROVE TimesOK'
  <2>1. h \in Txns /\ Alone(h)
    BY <1>0, <1>5, ReviewerAlone, Parties
  <2>2. CASE Post(h)
    BY <1>1, <2>1, <2>2 DEF Post, tables
  <2>3. CASE Decide(h)
    <3> DEFINE event == [episode |-> asked[h].episode, status |-> asked[h].status,
                         at |-> now[h], txn |-> h]
    <3>1. /\ events' = events \cup {event} /\ UNCHANGED <<clock, status, now, asked>> /\ Active(h)
          /\ event.episode = asked[h].episode /\ event.status = asked[h].status
          /\ event.at = now[h]
      BY <2>3 DEF Decide, Goto, At, local
    <3>2. asked[h].status # "OPEN" /\ asked[h] \in [episode: Episode, status: Statuses]
      BY <2>3, DecidesAnOpenOne
    <3>3. event \in Event
      BY <1>0, <2>1, <3>2 DEF TypeOK, Event
    <3> HIDE DEF event
    <3>4. \A v \in events : v.episode = asked[h].episode /\ v.status = "OPEN" => v.at <= now[h]
      BY <1>0, <3>1 DEF TimesOK
    <3> QED
      BY <1>3, <2>1, <3>1, <3>2, <3>3, <3>4
  <2>4. CASE CommitDecision(h)
    BY <1>0, <1>2, <2>1, <2>4 DEF TypeOK, CommitDecision, End
  <2> QED
    BY <1>5, <2>2, <2>3, <2>4 DEF ReviewerWorks
<1>6. ASSUME NEW t \in Txns, GivesUp(t) PROVE TimesOK'
  <2>1. Alone(t) /\ status'[t] # "active" /\ \A v \in events' : v \in events
    BY <1>0, <1>6, GivesUpAlone, GivesUpRows
  <2>2. now'[t] = 0 /\ UNCHANGED clock
    BY <1>0, <1>6 DEF TypeOK, GivesUp, End
  <2> QED
    BY <1>2, <2>1, <2>2
<1>7. CASE UNCHANGED vars
  BY <1>0, <1>7 DEF TimesOK, vars, tables, local, Active
<1> QED
  BY <1>4, <1>5, <1>6, <1>7, StepCases
\* Rows of an open transaction are not committed, so the committed ones are the
\* same before and after a step that commits nothing.
LEMMA CommittedSame ==
    ASSUME TypeOK, TypeOK', NEW t \in Txns, Alone(t), KeepsRows(t),
           status[t] # "committed", status'[t] # "committed"
    PROVE  /\ Committed(occurrences)' = Committed(occurrences)
           /\ Committed(events)' = Committed(events)
<1>1. \A o \in occurrences \cup occurrences' : o.txn \in Txns
  BY DEF TypeOK, Occurrence, Txns
<1>2. \A v \in events \cup events' : v.txn \in Txns
  BY DEF TypeOK, Event
<1>3. \A u \in Txns : status'[u] = "committed" <=> status[u] = "committed" /\ u # t
  BY DEF Alone
<1>4. \A o : o \in occurrences' /\ status'[o.txn] = "committed"
             <=> o \in occurrences /\ status[o.txn] = "committed"
  BY <1>1, <1>3 DEF KeepsRows
<1>5. \A v : v \in events' /\ status'[v.txn] = "committed"
             <=> v \in events /\ status[v.txn] = "committed"
  BY <1>2, <1>3 DEF KeepsRows
<1> QED
  BY <1>4, <1>5 DEF Committed

\* When a transaction commits, what is committed grows by its rows.
LEMMA CommittedGrows ==
    ASSUME TypeOK, NEW t \in Txns, Alone(t), status'[t] = "committed",
           UNCHANGED <<occurrences, events>>
    PROVE  /\ Committed(occurrences)' = Committed(occurrences) \cup {o \in occurrences : o.txn = t}
           /\ Committed(events)' = Committed(events) \cup {v \in events : v.txn = t}
<1>1. \A u \in Txns : status'[u] = "committed" <=> (status[u] = "committed" \/ u = t)
  BY DEF Alone
<1>2. /\ \A o \in occurrences : o.txn \in Txns
      /\ \A v \in events : v.txn \in Txns
  BY RowTypes
<1> QED
  BY <1>1, <1>2 DEF Committed

\* An attempt commits episodes that nobody has decided, each with its event.
LEMMA FinishLogs ==
    ASSUME TypeOK, PhaseOK, RowsOK, TimesOK, EpisodesOK,
           NEW a \in Attempts, Active(a), NEW o \in occurrences
    PROVE  /\ status[o.txn] = "committed" =>
                \A v \in events : v.txn = a => v.episode # o.episode
           /\ o.txn = a =>
                /\ \A v \in events : v.episode = o.episode /\ (status[v.txn] = "committed" \/ v.txn = a)
                                     => v.txn = a
                /\ \A v \in events : v.txn = a => v.status = "OPEN"
                /\ \A v, w \in events : v.episode = o.episode /\ v.txn = a
                                        /\ w.episode = o.episode /\ w.txn = a => AtOrAfter(v, w)
<1>1. \A v \in events : v.txn = a =>
          v.status = "OPEN" /\ \E p \in occurrences : p.txn = a /\ p.episode = v.episode
  BY Parties DEF RowsOK, OpenedBy, DecidedBy, Active
<1>2. ASSUME status[o.txn] = "committed", NEW v \in events, v.txn = a PROVE v.episode # o.episode
  BY <1>1, <1>2 DEF EpisodesOK, Active
<1>3. ASSUME o.txn = a, NEW v \in events, v.episode = o.episode, status[v.txn] = "committed"
      PROVE  FALSE
  <2>1. PICK p \in Committed(occurrences) : p.episode = v.episode
    BY <1>3 DEF RowsOK, Committed
  <2> QED
    BY <1>3, <2>1 DEF EpisodesOK, Committed, Active
<1>4. ASSUME o.txn = a, NEW v \in events, NEW w \in events,
             v.episode = o.episode, v.txn = a, w.episode = o.episode, w.txn = a
      PROVE  AtOrAfter(v, w)
  <2>1. v.status = "OPEN" /\ w.status = "OPEN" /\ v.at \in Nat /\ w.at \in Nat
    BY <1>1, <1>4, RowTypes
  <2>2. v.at <= w.at /\ w.at <= v.at
    BY <1>4, <2>1 DEF TimesOK
  <2> QED
    BY <2>1, <2>2, LogOrder
<1> QED
  BY <1>1, <1>2, <1>3, <1>4

LEMMA LogStep == SignalsInv /\ [Next]_vars => LogOK'
<1> SUFFICES ASSUME SignalsInv, [Next]_vars PROVE LogOK'
  OBVIOUS
<1>0. TypeOK /\ TypeOK' /\ PhaseOK /\ RowsOK /\ TimesOK /\ LogOK /\ EpisodesOK
  BY TypeStep DEF SignalsInv
\* Nothing is committed and nobody takes the row of an episode.
<1>1. ASSUME NEW t \in Txns, Alone(t), KeepsRows(t), status[t] # "committed", status'[t] # "committed",
             t \in Reviewers => ~At(t, "commit")'
      PROVE  LogOK'
  <2>1. /\ Committed(occurrences)' = Committed(occurrences)
        /\ Committed(events)' = Committed(events)
    BY <1>0, <1>1, CommittedSame
  <2>2. \A e : CommittedLog(e)' = CommittedLog(e) /\ (Ended(e)' <=> Ended(e))
    BY <2>1 DEF CommittedLog, Ended
  <2>3. \A h \in Reviewers : At(h, "commit")' => At(h, "commit") /\ asked'[h] = asked[h]
    BY <1>1, Parties DEF Alone, At, Active
  <2> QED
    BY <1>0, <2>1, <2>2, <2>3 DEF LogOK
<1>2. ASSUME NEW a \in Attempts, FinishAttempt(a) PROVE LogOK'
  <2>1. /\ a \in Txns /\ Alone(a) /\ Active(a) /\ status'[a] = "committed"
        /\ UNCHANGED <<occurrences, events, asked>>
    BY <1>0, <1>2, AttemptAlone, Parties
       DEF TypeOK, FinishAttempt, At, AttemptWorks, End, tables, local
  <2>2. /\ Committed(occurrences)' = Committed(occurrences) \cup {o \in occurrences : o.txn = a}
        /\ Committed(events)' = Committed(events) \cup {v \in events : v.txn = a}
    BY <1>0, <2>1, CommittedGrows
  <2>3. ASSUME NEW o \in Committed(occurrences)'
        PROVE  \E v \in CommittedLog(o.episode)' : \A w \in CommittedLog(o.episode)' : AtOrAfter(v, w)
    <3>1. CASE o \in Committed(occurrences)
      <4>1. CommittedLog(o.episode)' = CommittedLog(o.episode)
        <5>1. \A v \in events : v.txn = a => v.episode # o.episode
          BY <1>0, <2>1, <3>1, FinishLogs DEF Committed
        <5> QED
          BY <2>2, <5>1 DEF CommittedLog
      <4> QED
        BY <1>0, <3>1, <4>1 DEF LogOK
    <3>2. CASE o \in occurrences /\ o.txn = a
      <4>1. CommittedLog(o.episode)' = {v \in events : v.episode = o.episode /\ v.txn = a}
        <5>1. \A v \in events : v.episode = o.episode /\ (status[v.txn] = "committed" \/ v.txn = a)
                                => v.txn = a
          BY <1>0, <2>1, <3>2, FinishLogs
        <5> QED
          BY <2>2, <5>1 DEF CommittedLog, Committed
      <4>2. PICK v \in events : v.episode = o.episode /\ v.txn = a
        BY <1>0, <3>2 DEF RowsOK
      <4>3. \A w \in CommittedLog(o.episode)' : AtOrAfter(v, w)
        BY <1>0, <2>1, <3>2, <4>1, <4>2, FinishLogs
      <4> QED
        BY <4>1, <4>2, <4>3
    <3> QED
      BY <2>2, <3>1, <3>2
  <2>4. ASSUME NEW h \in Reviewers, At(h, "commit")'
        PROVE  At(h, "commit") /\ asked'[h] = asked[h] /\ ~Ended(asked[h].episode)'
    <3>1. At(h, "commit") /\ asked'[h] = asked[h]
      BY <2>1, <2>4, Parties DEF Alone, At, Active
    <3>2. PICK o \in Committed(occurrences) : o.episode = asked[h].episode
      BY <1>0, <3>1 DEF PhaseOK, At
    <3>3. \A v \in events : v.txn = a => v.episode # o.episode
      BY <1>0, <2>1, <3>2, FinishLogs DEF Committed
    <3>4. ~Ended(asked[h].episode)
      BY <1>0, <3>1 DEF LogOK
    <3> QED
      BY <2>2, <3>1, <3>2, <3>3, <3>4 DEF Ended
  <2> QED
    BY <1>0, <2>3, <2>4 DEF LogOK
<1>3. ASSUME NEW a \in Attempts, AttemptWorks(a), ~FinishAttempt(a) PROVE LogOK'
  <2>1. status'[a] # "committed"
    BY <1>0, <1>3, AttemptAlone, Parties
       DEF TypeOK, AttemptWorks, BeginAttempt, TakeLock, RaiseSignal, Opens, LinkEvidence, Goto
  <2> QED
    BY <1>0, <1>1, <1>3, <2>1, AttemptAlone, AttemptRows, Parties
<1>4. ASSUME NEW h \in Reviewers, Post(h) PROVE LogOK'
  <2>1. status'[h] # "committed" /\ ~At(h, "commit")'
    BY <1>0, <1>4, Parties DEF TypeOK, Post, At
  <2>2. ReviewerWorks(h)
    BY <1>4 DEF ReviewerWorks
  <2> QED
    BY <1>0, <1>1, <2>1, <2>2, ReviewerAlone, ReviewerRows, Parties
<1>5. ASSUME NEW h \in Reviewers, Decide(h) PROVE LogOK'
  <2>1. ReviewerWorks(h) /\ h \in Txns
    BY <1>5, Parties DEF ReviewerWorks
  <2>2. Alone(h) /\ KeepsRows(h) /\ status[h] # "committed"
    BY <1>0, <2>1, ReviewerAlone, ReviewerRows
  <2>3. status' = status /\ asked' = asked
    BY <1>5 DEF Decide, Goto, local
  <2>4. /\ Committed(occurrences)' = Committed(occurrences)
        /\ Committed(events)' = Committed(events)
    BY <1>0, <2>1, <2>2, <2>3, CommittedSame
  <2>5. \A e : CommittedLog(e)' = CommittedLog(e) /\ (Ended(e)' <=> Ended(e))
    BY <2>4 DEF CommittedLog, Ended
  <2>6. \A g \in Reviewers : At(g, "commit")' => At(g, "commit") \/ g = h
    BY <2>2, Parties DEF Alone, At, Active
  <2>7. /\ asked[h].status # "OPEN" /\ ~Ended(asked[h].episode)
        /\ \A g \in Reviewers : At(g, "commit") => asked[g].episode # asked[h].episode
    BY <1>5, DecidesAnOpenOne
  <2> QED
    BY <1>0, <2>3, <2>4, <2>5, <2>6, <2>7 DEF LogOK
<1>6. ASSUME NEW h \in Reviewers, CommitDecision(h) PROVE LogOK'
  <2>1. ReviewerWorks(h) /\ h \in Txns
    BY <1>6, Parties DEF ReviewerWorks
  <2>2. /\ Alone(h) /\ At(h, "commit") /\ status'[h] = "committed" /\ ~At(h, "commit")'
        /\ UNCHANGED <<occurrences, events>>
    BY <1>0, <1>6, <2>1, ReviewerAlone DEF TypeOK, CommitDecision, End, At, Active
  <2>3. /\ Committed(occurrences)' = Committed(occurrences) \cup {o \in occurrences : o.txn = h}
        /\ Committed(events)' = Committed(events) \cup {v \in events : v.txn = h}
    BY <1>0, <2>1, <2>2, CommittedGrows
  <2>4. Committed(occurrences)' = Committed(occurrences)
    BY <1>0, <2>3, RowTypes, Parties
  <2>5. \A v \in events : v.txn = h =>
            v.episode = asked[h].episode /\ v.status = asked[h].status /\ v.at = now[h]
    <3>1. status[h] # "committed"
      BY <2>2 DEF At, Active
    <3> QED
      BY <1>0, <3>1, Parties DEF RowsOK, OpenedBy, DecidedBy
  <2>6. ASSUME NEW o \in Committed(occurrences)
        PROVE  \E v \in CommittedLog(o.episode)' : \A w \in CommittedLog(o.episode)' : AtOrAfter(v, w)
    <3>1. PICK v \in CommittedLog(o.episode) : \A w \in CommittedLog(o.episode) : AtOrAfter(v, w)
      BY <1>0, <2>6 DEF LogOK
    <3>2. \A w \in CommittedLog(o.episode)' :
              w \in events /\ (w \in CommittedLog(o.episode) \/ w.txn = h)
      BY <2>3 DEF CommittedLog, Committed
    <3>3. v \in events /\ v \in CommittedLog(o.episode)'
      BY <2>3, <3>1 DEF CommittedLog, Committed
    <3>4. CASE \A w \in CommittedLog(o.episode)' : w.txn = h => AtOrAfter(v, w)
      BY <3>1, <3>2, <3>3, <3>4
    <3>5. ASSUME NEW x \in CommittedLog(o.episode)', x.txn = h, ~AtOrAfter(v, x)
          PROVE  \A w \in CommittedLog(o.episode)' : AtOrAfter(x, w)
      <4>1. x \in events /\ AtOrAfter(x, v)
        BY <1>0, <3>2, <3>3, <3>5, LogOrder
      <4>2. ASSUME NEW w \in CommittedLog(o.episode)' PROVE AtOrAfter(x, w)
        <5>1. CASE w.txn = h
          BY <1>0, <2>5, <3>2, <3>5, <4>1, <4>2, <5>1, LogOrder
        <5>2. CASE w.txn # h
          BY <1>0, <3>1, <3>2, <3>3, <4>1, <4>2, <5>2, LogOrder
        <5> QED
          BY <5>1, <5>2
      <4> QED
        BY <4>2
    <3> QED
      BY <3>4, <3>5
  <2>7. ASSUME NEW g \in Reviewers, At(g, "commit")'
        PROVE  At(g, "commit") /\ asked'[g] = asked[g] /\ ~Ended(asked[g].episode)'
    <3>1. g # h /\ At(g, "commit") /\ asked'[g] = asked[g]
      BY <2>2, <2>7, Parties DEF Alone, At, Active
    <3>2. asked[g].episode # asked[h].episode /\ ~Ended(asked[g].episode)
      BY <1>0, <2>2, <3>1 DEF LogOK
    <3> QED
      BY <2>3, <2>5, <3>1, <3>2 DEF Ended
  <2> QED
    BY <1>0, <2>4, <2>6, <2>7 DEF LogOK
<1>7. ASSUME NEW t \in Txns, GivesUp(t) PROVE LogOK'
  BY <1>0, <1>1, <1>7, GivesUpAlone, GivesUpRows DEF At, Active
<1>8. CASE UNCHANGED vars
  BY <1>0, <1>8
     DEF LogOK, vars, tables, local, At, Active, Committed, CommittedLog, Ended
<1> QED
  BY <1>2, <1>3, <1>4, <1>5, <1>6, <1>7, <1>8, StepCases DEF ReviewerWorks
-----------------------------------------------------------------------------
(***************************************************************************)
(* The flag.                                                               *)
(***************************************************************************)

\* A step either leaves the flags and what is committed alone, or commits an
\* attempt, which changes no flag, or commits a decision, which changes one.
LEMMA ClosedStep ==
    ASSUME SignalsInv, [Next]_vars
    PROVE  ClosedOK' /\ closed \subseteq closed'
<1>0. TypeOK /\ TypeOK' /\ PhaseOK /\ RowsOK /\ TimesOK /\ LogOK /\ EpisodesOK /\ ClosedOK
  BY TypeStep DEF SignalsInv
<1>1. ASSUME NEW t \in Txns, Alone(t), KeepsRows(t), closed' = closed,
             status[t] # "committed", status'[t] # "committed"
      PROVE  ClosedOK'
  <2>1. /\ Committed(occurrences)' = Committed(occurrences)
        /\ Committed(events)' = Committed(events)
    BY <1>0, <1>1, CommittedSame
  <2> QED
    BY <1>0, <1>1, <2>1 DEF ClosedOK, Ended
<1>2. ASSUME NEW a \in Attempts, FinishAttempt(a) PROVE ClosedOK' /\ closed' = closed
  <2>1. /\ a \in Txns /\ Alone(a) /\ Active(a) /\ status'[a] = "committed"
        /\ UNCHANGED <<occurrences, events, closed>>
    BY <1>0, <1>2, AttemptAlone, Parties
       DEF TypeOK, FinishAttempt, At, AttemptWorks, End, tables, local
  <2>2. /\ Committed(occurrences)' = Committed(occurrences) \cup {o \in occurrences : o.txn = a}
        /\ Committed(events)' = Committed(events) \cup {v \in events : v.txn = a}
    BY <1>0, <2>1, CommittedGrows
  <2>3. ASSUME NEW o \in Committed(occurrences) PROVE Ended(o.episode)' <=> Ended(o.episode)
    <3>1. \A v \in events : v.txn = a => v.episode # o.episode
      BY <1>0, <2>1, FinishLogs DEF Committed
    <3> QED
      BY <2>2, <3>1 DEF Ended
  <2>4. ASSUME NEW o \in occurrences, o.txn = a PROVE ~Ended(o.episode)'
    <3>1. /\ \A v \in events : v.episode = o.episode /\ (status[v.txn] = "committed" \/ v.txn = a)
                               => v.txn = a
          /\ \A v \in events : v.txn = a => v.status = "OPEN"
      BY <1>0, <2>1, <2>4, FinishLogs
    <3>2. \A v \in Committed(events)' : v.episode = o.episode => v.status = "OPEN"
      BY <2>2, <3>1 DEF Committed
    <3> QED
      BY <3>2 DEF Ended, Terminal
  <2>5. {o \in Committed(occurrences)' : Ended(o.episode)'}
        = {o \in Committed(occurrences) : Ended(o.episode)}
    BY <2>2, <2>3, <2>4
  <2> QED
    BY <1>0, <2>1, <2>5 DEF ClosedOK
<1>3. ASSUME NEW a \in Attempts, AttemptWorks(a), ~FinishAttempt(a)
      PROVE  ClosedOK' /\ closed' = closed
  <2>1. status'[a] # "committed"
    BY <1>0, <1>3, AttemptAlone, Parties
       DEF TypeOK, AttemptWorks, BeginAttempt, TakeLock, RaiseSignal, Opens, LinkEvidence, Goto
  <2> QED
    BY <1>0, <1>1, <1>3, <2>1, AttemptAlone, AttemptRows, Parties
<1>4. ASSUME NEW h \in Reviewers, Post(h) \/ Decide(h) PROVE ClosedOK' /\ closed' = closed
  <2>1. status'[h] # "committed" /\ closed' = closed /\ ReviewerWorks(h) /\ h \in Txns
    BY <1>0, <1>4, Parties DEF TypeOK, Post, Decide, Goto, At, Active, tables, ReviewerWorks
  <2> QED
    BY <1>0, <1>1, <2>1, ReviewerAlone, ReviewerRows
<1>5. ASSUME NEW h \in Reviewers, CommitDecision(h) PROVE ClosedOK' /\ closed \subseteq closed'
  <2>0. PICK e : e = asked[h].episode
    OBVIOUS
  <2>1. ReviewerWorks(h) /\ h \in Txns
    BY <1>5, Parties DEF ReviewerWorks
  <2>2. /\ Alone(h) /\ At(h, "commit") /\ Active(h) /\ status'[h] = "committed"
        /\ UNCHANGED <<occurrences, events>>
    BY <1>0, <1>5, <2>1, ReviewerAlone DEF TypeOK, CommitDecision, End, At, Active
  <2>3. /\ Committed(occurrences)' = Committed(occurrences) \cup {o \in occurrences : o.txn = h}
        /\ Committed(events)' = Committed(events) \cup {v \in events : v.txn = h}
    BY <1>0, <2>1, <2>2, CommittedGrows
  <2>4. Committed(occurrences)' = Committed(occurrences)
    BY <1>0, <2>3, RowTypes, Parties
  <2>5. \A v \in events : v.txn = h => v.episode = e /\ v.status = asked[h].status
    BY <1>0, <2>0, <2>2, Parties DEF RowsOK, OpenedBy, DecidedBy, Active
  <2>6. ~Ended(e) /\ e \notin closed
    BY <1>0, <2>0, <2>2 DEF LogOK, ClosedOK
  <2>7. PICK p \in Committed(occurrences) : p.episode = e
    BY <1>0, <2>0, <2>2 DEF PhaseOK
  <2>8. \A o \in Committed(occurrences) : o.episode # e => (Ended(o.episode)' <=> Ended(o.episode))
    BY <2>3, <2>5 DEF Ended
  <2>9. CASE asked[h].status \in Terminal
    <3>1. closed' = closed \cup {e}
      BY <1>5, <2>0, <2>9 DEF CommitDecision, Closes
    <3>2. Ended(e)'
      <4>1. PICK v \in events : v.txn = h /\ v.episode = e /\ v.status = asked[h].status
        BY <1>0, <2>0, <2>2 DEF RowsOK
      <4> QED
        BY <2>3, <2>9, <4>1 DEF Ended
    <3>3. \A o \in Committed(occurrences) : Ended(o.episode)' <=> (Ended(o.episode) \/ o.episode = e)
      BY <2>8, <3>2
    <3>4. {o.episode : o \in {o \in Committed(occurrences)' : Ended(o.episode)'}} = closed'
      BY <1>0, <2>4, <2>7, <3>1, <3>3 DEF ClosedOK
    <3> QED
      BY <3>1, <3>4 DEF ClosedOK
  <2>10. CASE asked[h].status \notin Terminal
    <3>1. closed' = closed
      BY <1>5, <2>0, <2>6, <2>10 DEF CommitDecision, Closes
    <3>2. ~Ended(e)'
      BY <2>3, <2>5, <2>6, <2>10 DEF Ended
    <3>3. \A o \in Committed(occurrences) : Ended(o.episode)' <=> Ended(o.episode)
      BY <2>6, <2>8, <3>2
    <3> QED
      BY <1>0, <2>4, <3>1, <3>3 DEF ClosedOK
  <2> QED
    BY <2>9, <2>10
<1>6. ASSUME NEW t \in Txns, GivesUp(t) PROVE ClosedOK' /\ closed' = closed
  BY <1>0, <1>1, <1>6, GivesUpAlone, GivesUpRows
<1>7. CASE UNCHANGED vars
  BY <1>0, <1>7 DEF ClosedOK, Ended, Committed, vars, tables
<1> QED
  BY <1>2, <1>3, <1>4, <1>5, <1>6, <1>7, StepCases DEF ReviewerWorks
-----------------------------------------------------------------------------
(***************************************************************************)
(* The episodes of a concern.                                              *)
(***************************************************************************)

\* Steps that open no episode and commit none.
LEMMA EpisodesKept ==
    ASSUME TypeOK, TypeOK', EpisodesOK, NEW t \in Txns, Alone(t),
           occurrences' \subseteq occurrences, closed \subseteq closed',
           Committed(occurrences)' = Committed(occurrences),
           t \in Attempts => (At(t, "open") => OpenEpisodes(t, ConcernOf(t)) = {})'
    PROVE  EpisodesOK'
<1>1. ASSUME NEW o \in occurrences' PROVE status[o.txn] = "committed" => status'[o.txn] = "committed"
  BY DEF Committed
<1>2. ASSUME NEW c \in Concerns, NEW m \in Nat, Numbered(c, m) PROVE Numbered(c, m)'
  <2>1. Numbers(c)' = Numbers(c)
    BY DEF Numbers, EpisodesOf
  <2>2. \A o \in EpisodesOf(c, occurrences)' : status'[o.txn] # "committed" =>
            o \in EpisodesOf(c, occurrences) /\ status[o.txn] # "committed"
    BY <1>1 DEF EpisodesOf
  <2> QED
    BY <1>2, <2>1, <2>2 DEF Numbered
<1>3. ASSUME NEW a \in Attempts, At(a, "open")' PROVE OpenEpisodes(a, ConcernOf(a))' = {}
  <2>1. CASE a # t
    <3>1. At(a, "open") /\ todo'[a] = todo[a]
      BY <1>3, <2>1, Parties DEF Alone, At, Active
    <3>2. ConcernOf(a)' = ConcernOf(a)
      BY <3>1 DEF ConcernOf
    <3>3. Visible(a)' \subseteq Visible(a)
      <4>1. \A o \in occurrences' : status'[o.txn] = "committed" => status[o.txn] = "committed"
        BY DEF Committed
      <4> QED
        BY <4>1 DEF Visible, Sees
    <3>4. OpenEpisodes(a, ConcernOf(a))' \subseteq OpenEpisodes(a, ConcernOf(a))
      BY <3>2, <3>3 DEF OpenEpisodes, EpisodesOf
    <3> QED
      BY <3>1, <3>4 DEF EpisodesOK
  <2> QED
    BY <1>3, <2>1
<1>4. \A c \in Concerns : \E m \in Nat : Numbered(c, m)'
  BY <1>2 DEF EpisodesOK
<1>5. \A o, p \in occurrences' : o.episode = p.episode => o = p
  BY DEF EpisodesOK
<1>6. \A o \in occurrences' : o.supersedes = Previous(o.episode)
  BY DEF EpisodesOK
<1> QED
  BY <1>3, <1>4, <1>5, <1>6 DEF EpisodesOK, Previous

\* An attempt opens an episode.
LEMMA EpisodesOpened ==
    ASSUME SignalsInv, TypeOK', NEW a \in Attempts, NEW e \in Episode, Opens(a, e)
    PROVE  EpisodesOK'
<1> DEFINE row == [episode |-> e, supersedes |-> Previous(e), txn |-> a]
<1>0. TypeOK /\ PhaseOK /\ RowsOK /\ EpisodesOK
  BY DEF SignalsInv
<1>1. /\ occurrences' = occurrences \cup {row}
      /\ row.episode = e /\ row.supersedes = Previous(e) /\ row.txn = a
      /\ UNCHANGED <<status, closed>> /\ At(a, "open") /\ ~At(a, "open")'
      /\ AttemptWorks(a) /\ a \in Txns /\ status[a] # "committed"
  BY <1>0, Parties DEF TypeOK, Opens, Goto, At, Active, AttemptWorks
<1> HIDE DEF row
<1>2. /\ \A o \in occurrences : o.episode # e
      /\ \A o \in EpisodesOf(e[1], occurrences) : status[o.txn] = "committed"
      /\ \E m \in Nat : Numbered(e[1], m) /\ e[2] = m + 1 /\ (m > 0 => <<e[1], m>> \in closed)
  BY FreshEpisode
<1>3. Committed(occurrences)' = Committed(occurrences)
  BY <1>1 DEF Committed
<1>4. \A c : Numbers(c)' = Numbers(c)
  BY <1>3 DEF Numbers, EpisodesOf
<1>5. ASSUME NEW c \in Concerns PROVE \E m \in Nat : Numbered(c, m)'
  <2>1. CASE c = e[1]
    <3>1. PICK m \in Nat : Numbered(c, m) /\ e[2] = m + 1 /\ (m > 0 => <<c, m>> \in closed)
      BY <1>2, <2>1
    <3>2. \A o \in EpisodesOf(c, occurrences)' : status'[o.txn] # "committed" => o.episode = e
      BY <1>1, <1>2, <2>1 DEF EpisodesOf
    <3>3. Numbered(c, m)'
      BY <1>1, <1>4, <3>1, <3>2 DEF Numbered
    <3> QED
      BY <3>3
  <2>2. CASE c # e[1]
    <3>1. PICK m \in Nat : Numbered(c, m)
      BY <1>0 DEF EpisodesOK
    <3>2. EpisodesOf(c, occurrences)' = EpisodesOf(c, occurrences)
      BY <1>1, <2>2 DEF EpisodesOf
    <3>3. Numbered(c, m)'
      BY <1>1, <1>4, <3>1, <3>2 DEF Numbered
    <3> QED
      BY <3>3
  <2> QED
    BY <2>1, <2>2
<1>6. ASSUME NEW b \in Attempts PROVE ~At(b, "open")'
  <2>1. CASE b # a
    <3>1. At(b, "open")' => At(b, "open")
      BY <1>0, <1>1, <2>1, AttemptAlone, Parties DEF Alone, At, Active
    <3> QED
      BY <1>0, <1>1, <2>1, <3>1 DEF PhaseOK, Past, At
  <2> QED
    BY <1>1, <2>1
<1>7. \A o, p \in occurrences' : o.episode = p.episode => o = p
  BY <1>0, <1>1, <1>2 DEF EpisodesOK
<1>8. \A o \in occurrences' : o.supersedes = Previous(o.episode)
  BY <1>0, <1>1 DEF EpisodesOK
<1> QED
  BY <1>5, <1>6, <1>7, <1>8 DEF EpisodesOK, Previous

\* An attempt commits: what it opened has the next number.
LEMMA EpisodesCommitted ==
    ASSUME SignalsInv, TypeOK', NEW a \in Attempts, FinishAttempt(a)
    PROVE  EpisodesOK'
<1>0. TypeOK /\ PhaseOK /\ RowsOK /\ EpisodesOK
  BY DEF SignalsInv
<1>1. /\ a \in Txns /\ Alone(a) /\ At(a, "raise") /\ Active(a) /\ status'[a] = "committed"
      /\ UNCHANGED <<occurrences, events, closed>> /\ ~At(a, "open")'
  BY <1>0, AttemptAlone, Parties DEF TypeOK, FinishAttempt, At, AttemptWorks, Active, End, tables, local
<1>2. Committed(occurrences)' = Committed(occurrences) \cup {o \in occurrences : o.txn = a}
  BY <1>0, <1>1, CommittedGrows
<1>3. ASSUME NEW o \in occurrences, status[o.txn] # "committed" PROVE o.txn = a
  BY <1>0, <1>1, <1>3 DEF RowsOK, PhaseOK, Past, At
<1>4. \A o \in occurrences : status'[o.txn] = "committed"
  BY <1>1, <1>2, <1>3 DEF Committed
<1>5. ASSUME NEW c \in Concerns PROVE \E m \in Nat : Numbered(c, m)'
  <2>1. PICK m \in Nat : Numbered(c, m)
    BY <1>0 DEF EpisodesOK
  <2>2. CASE \A o \in EpisodesOf(c, occurrences) : o.txn # a
    <3>1. EpisodesOf(c, Committed(occurrences))' = EpisodesOf(c, Committed(occurrences))
      BY <1>2, <2>2 DEF EpisodesOf
    <3>2. Numbered(c, m)'
      BY <1>1, <1>4, <2>1, <3>1 DEF Numbered, Numbers, EpisodesOf
    <3> QED
      BY <3>2
  <2>3. ASSUME NEW o \in EpisodesOf(c, occurrences), o.txn = a PROVE Numbered(c, m + 1)'
    <3>1. status[a] # "committed"
      BY <1>1 DEF Active
    <3>2. \A p \in EpisodesOf(c, occurrences) : p.txn = a => p.episode[2] = m + 1
      BY <2>1, <3>1 DEF Numbered
    <3>3. m > 0 => <<c, m>> \in closed
      BY <2>1, <2>3, <3>1 DEF Numbered
    <3>4. Numbers(c)' = Numbers(c) \cup {m + 1}
      BY <1>2, <2>3, <3>2 DEF Numbers, EpisodesOf, Committed
    <3>5. Numbers(c)' = 1 .. (m + 1)
      BY <2>1, <3>4 DEF Numbered
    <3>6. \A n \in 1 .. (m + 1) : n < m + 1 => <<c, n>> \in closed
      BY <2>1, <3>3 DEF Numbered
    <3> QED
      BY <1>1, <1>4, <3>5, <3>6 DEF Numbered, EpisodesOf
  <2> QED
    BY <2>1, <2>2, <2>3
<1>6. ASSUME NEW b \in Attempts PROVE ~At(b, "open")'
  <2>1. CASE b # a
    <3>1. At(b, "open")' => At(b, "open")
      BY <1>1, <2>1, Parties DEF Alone, At, Active
    <3> QED
      BY <1>0, <1>1, <2>1, <3>1 DEF PhaseOK, Past, At
  <2> QED
    BY <1>1, <2>1
<1> QED
  BY <1>0, <1>1, <1>5, <1>6 DEF EpisodesOK, Previous

LEMMA EpisodesStep == SignalsInv /\ [Next]_vars => EpisodesOK'
<1> SUFFICES ASSUME SignalsInv, [Next]_vars PROVE EpisodesOK'
  OBVIOUS
<1>0. /\ TypeOK /\ TypeOK' /\ PhaseOK /\ RowsOK /\ EpisodesOK
      /\ closed \subseteq closed'
  BY TypeStep, ClosedStep DEF SignalsInv
<1>1. ASSUME NEW a \in Attempts, AttemptWorks(a), ~FinishAttempt(a), \A e \in Episode : ~Opens(a, e)
      PROVE  EpisodesOK'
  <2>1. a \in Txns /\ Alone(a) /\ KeepsRows(a) /\ status[a] # "committed"
    BY <1>0, <1>1, AttemptAlone, AttemptRows, Parties
  <2>2. occurrences' = occurrences /\ status'[a] # "committed"
    BY <1>0, <1>1, <2>1
       DEF TypeOK, AttemptWorks, BeginAttempt, TakeLock, RaiseSignal, LinkEvidence, Goto, tables
  <2>3. Committed(occurrences)' = Committed(occurrences)
    BY <1>0, <2>1, <2>2, CommittedSame
  <2>4. ASSUME At(a, "open")' PROVE OpenEpisodes(a, ConcernOf(a))' = {}
    <3>1. RaiseSignal(a)
      BY <1>0, <1>1, <2>1, <2>4
         DEF TypeOK, AttemptWorks, BeginAttempt, TakeLock, LinkEvidence, Goto, At
    <3>2. OpenEpisodes(a, ConcernOf(a)) = {} /\ UNCHANGED <<todo, status, occurrences, closed>>
      BY <1>0, <2>1, <2>4, <3>1 DEF TypeOK, RaiseSignal, Goto, At
    <3> QED
      BY <3>2 DEF OpenEpisodes, EpisodesOf, Visible, Sees, ConcernOf
  <2> QED
    BY <1>0, <2>1, <2>2, <2>3, <2>4, EpisodesKept
<1>2. ASSUME NEW h \in Reviewers, ReviewerWorks(h) PROVE EpisodesOK'
  <2>1. h \in Txns /\ Alone(h) /\ occurrences' = occurrences /\ h \notin Attempts /\ h # Earlier
    BY <1>0, <1>2, ReviewerAlone, ReviewerRows, Parties
  <2>2. Committed(occurrences)' = Committed(occurrences)
    <3>1. \A o \in occurrences : status'[o.txn] = status[o.txn]
      BY <1>0, <2>1, RowTypes DEF Alone
    <3> QED
      BY <2>1, <3>1 DEF Committed
  <2> QED
    BY <1>0, <2>1, <2>2, EpisodesKept
<1>3. ASSUME NEW t \in Txns, GivesUp(t) PROVE EpisodesOK'
  <2>1. /\ Alone(t) /\ KeepsRows(t) /\ status[t] # "committed" /\ status'[t] # "committed"
        /\ ~At(t, "open")' /\ occurrences' \subseteq occurrences
    BY <1>0, <1>3, GivesUpAlone, GivesUpRows DEF At, Active
  <2>2. Committed(occurrences)' = Committed(occurrences)
    BY <1>0, <2>1, CommittedSame
  <2> QED
    BY <1>0, <2>1, <2>2, EpisodesKept
<1>4. CASE UNCHANGED vars
  <2>1. Alone(Earlier) /\ UNCHANGED <<occurrences, status, closed>>
    BY <1>4 DEF Alone, vars, tables, local
  <2>2. Committed(occurrences)' = Committed(occurrences)
    BY <2>1 DEF Committed
  <2> QED
    BY <1>0, <2>1, <2>2, EpisodesKept, Parties
<1> QED
  BY <1>0, <1>1, <1>2, <1>3, <1>4, EpisodesOpened, EpisodesCommitted, StepCases
-----------------------------------------------------------------------------
(***************************************************************************)
(* The queue.                                                              *)
(***************************************************************************)

\* QueueOK of one attempt.
QueueWell(a) ==
    /\ over[a] \subseteq closed
    /\ At(a, "link") =>
          target[a] \in Episode /\ target[a][1] = ConcernOf(a) /\ target[a] \notin over[a]
    /\ status[a] \in {"active", "committed"} =>
          /\ Len(todo[a]) <= Len(found[a])
          /\ \A i \in 1 .. Len(todo[a]) : todo[a][i] = found[a][Rest(a) + i]
          /\ \A i \in 1 .. Rest(a) : Queued(a, i)
    /\ status[a] = "committed" => todo[a] = <<>>

LEMMA QueueWells ==
    QueueOK <=> /\ \A l \in links : Sees(l.txn, l.evidence[1])
                /\ \A a \in Attempts : QueueWell(a)
  BY DEF QueueOK, QueueWell

\* The queue as it stands for everybody but t, when t did not remove a link
\* that is committed.
LEMMA QueueByOthers ==
    ASSUME SignalsInv, [Next]_vars, NEW t \in Txns, Alone(t), KeepsRows(t), status[t] # "committed"
    PROVE  /\ \A a \in Attempts : a # t => QueueWell(a)'
           /\ \A l \in links' : l \in links => Sees(l.txn, l.evidence[1])'
<1>0. TypeOK /\ QueueOK /\ closed \subseteq closed'
  BY ClosedStep DEF SignalsInv
<1>1. \A u \in Txns : status[u] = "committed" => status'[u] = "committed"
  BY CommittedStays
<1>2. \A l \in links : l.txn \in Txns /\ l.evidence[1] \in Txns
  BY <1>0, RowTypes, Parties
<1>3. ASSUME NEW l \in links' PROVE l \in links => Sees(l.txn, l.evidence[1])'
  BY <1>0, <1>1, <1>2 DEF QueueOK, Sees
<1>4. ASSUME NEW a \in Attempts, a # t PROVE QueueWell(a)'
  <2>1. /\ a \in Txns /\ found'[a] = found[a] /\ todo'[a] = todo[a] /\ target'[a] = target[a]
        /\ over'[a] = over[a] /\ status'[a] = status[a] /\ pc'[a] = pc[a]
    BY <1>4, Parties DEF Alone
  <2>2. QueueWell(a)
    BY <1>0, QueueWells
  <2>3. ASSUME NEW i, Queued(a, i) PROVE Queued(a, i)'
    <3>1. PICK l \in links : /\ Sees(a, l.txn)
                             /\ l.evidence = <<a, found[a][i][1]>>
                             /\ l.episode[1] = found[a][i][2]
                             /\ l.episode \notin over[a]
      BY <2>3 DEF Queued
    <3>2. l \in links' /\ Sees(a, l.txn)'
      BY <1>1, <1>2, <1>4, <3>1 DEF Sees, KeepsRows
    <3> QED
      BY <2>1, <3>1, <3>2 DEF Queued
  <2>4. Rest(a)' = Rest(a) /\ ConcernOf(a)' = ConcernOf(a) /\ (At(a, "link")' <=> At(a, "link"))
    BY <2>1 DEF Rest, ConcernOf, At, Active
  <2> QED
    BY <1>0, <2>1, <2>2, <2>3, <2>4 DEF QueueWell
<1> QED
  BY <1>3, <1>4

\* Steps of an attempt that keep what it found and what it has still to raise.
LEMMA QueueKept ==
    ASSUME TypeOK, NEW a \in Attempts, QueueWell(a), UNCHANGED <<found, todo, over, closed>>,
           status[a] = "active", status'[a] = "active", links \subseteq links',
           \A u \in Txns : status[u] = "committed" => status'[u] = "committed",
           (At(a, "link") => /\ target[a] \in Episode /\ target[a][1] = ConcernOf(a)
                             /\ target[a] \notin over[a])'
    PROVE  QueueWell(a)'
<1>1. ASSUME NEW i, Queued(a, i) PROVE Queued(a, i)'
  <2>1. \A l \in links : Sees(a, l.txn) => Sees(a, l.txn)'
    BY RowTypes, Parties DEF Sees
  <2> QED
    BY <1>1, <2>1 DEF Queued
<1>2. Rest(a)' = Rest(a)
  BY DEF Rest
<1> QED
  BY <1>1, <1>2 DEF QueueWell

\* The next finding reaches the queue.
LEMMA QueueGrows ==
    ASSUME SignalsInv, NEW a \in Attempts, LinkEvidence(a)
    PROVE  /\ QueueWell(a)'
           /\ \A l \in links' : l \notin links => Sees(l.txn, l.evidence[1])'
<1>0. TypeOK /\ PhaseOK /\ QueueOK /\ QueueWell(a)
  BY QueueWells DEF SignalsInv
<1>1. /\ At(a, "link") /\ status[a] = "active" /\ a \in Txns
      /\ UNCHANGED <<found, over, closed, status>> /\ ~At(a, "link")'
      /\ todo'[a] = Tail(todo[a])
  BY <1>0, Parties DEF TypeOK, LinkEvidence, At, Active, Goto
<1>2. /\ target[a] \in Episode /\ target[a][1] = ConcernOf(a) /\ target[a] \notin over[a]
      /\ Len(todo[a]) <= Len(found[a])
      /\ \A i \in 1 .. Len(todo[a]) : todo[a][i] = found[a][Rest(a) + i]
      /\ \A i \in 1 .. Rest(a) : Queued(a, i)
  BY <1>0, <1>1 DEF QueueWell
<1>3. /\ todo[a] \in Seq(Findings) /\ todo[a] # <<>> /\ found[a] \in Seq(Findings)
      /\ Head(todo[a]) = todo[a][1]
  BY <1>0, <1>1, HeadConcern DEF At, TypeOK
<1>k. PICK k : k = Rest(a) + 1
  OBVIOUS
<1>4. /\ Len(todo[a]) \in Nat /\ Len(todo[a]) >= 1 /\ Len(found[a]) \in Nat
      /\ Rest(a) \in Nat /\ k \in DOMAIN found[a] /\ Head(todo[a]) = found[a][k]
      /\ Len(Tail(todo[a])) = Len(todo[a]) - 1
      /\ \A i \in 1 .. (Len(todo[a]) - 1) : Tail(todo[a])[i] = todo[a][i + 1]
  <2>1. /\ Len(todo[a]) \in Nat /\ Len(todo[a]) >= 1 /\ Len(found[a]) \in Nat
        /\ DOMAIN found[a] = 1 .. Len(found[a])
        /\ Len(Tail(todo[a])) = Len(todo[a]) - 1
        /\ \A i \in 1 .. (Len(todo[a]) - 1) : Tail(todo[a])[i] = todo[a][i + 1]
    BY <1>3
  <2>2. Rest(a) \in Nat /\ k \in 1 .. Len(found[a])
    <3>1. Len(todo[a]) <= Len(found[a]) /\ Rest(a) = Len(found[a]) - Len(todo[a])
      BY <1>2 DEF Rest
    <3>2. \A m, n \in Nat : n >= 1 /\ n <= m => m - n \in Nat /\ m - n + 1 \in 1 .. m
      OBVIOUS
    <3>3. /\ Len(found[a]) - Len(todo[a]) \in Nat
          /\ Len(found[a]) - Len(todo[a]) + 1 \in 1 .. Len(found[a])
      BY <2>1, <3>1, <3>2
    <3> QED
      BY <1>k, <3>1, <3>3
  <2>3. Head(todo[a]) = found[a][k]
    BY <1>2, <1>3, <1>k, <2>1, <2>2
  <2> QED
    BY <2>1, <2>2, <2>3
<1>5. PICK s : s = Head(todo[a])[1]
  OBVIOUS
<1>6. PICK e : e = target[a]
  OBVIOUS
<1>7. <<a, s>> \in EvidenceOf(a, s)
  <2>1. found[a][k][1] = s
    BY <1>4, <1>5
  <2> QED
    BY <1>4, <2>1 DEF EvidenceOf, Sees
<1>8. links' = links \cup {[episode |-> e, evidence |-> v, txn |-> a] :
                 v \in {v \in EvidenceOf(a, s) : ~\E l \in links : l.episode = e /\ l.evidence = v}}
  BY <1>5, <1>6 DEF LinkEvidence
<1>9. \E l \in links' : l.txn = a /\ l.episode = e /\ l.evidence = <<a, s>>
  <2>1. CASE \E l \in links : l.episode = e /\ l.evidence = <<a, s>>
    <3>1. PICK l \in links : l.episode = e /\ l.evidence = <<a, s>>
      BY <2>1
    <3>2. Sees(l.txn, a)
      <4>1. l.evidence[1] = a
        BY <3>1
      <4> QED
        BY <1>0, <4>1 DEF QueueOK
    <3> QED
      BY <1>1, <1>8, <3>1, <3>2 DEF Sees
  <2>2. CASE ~\E l \in links : l.episode = e /\ l.evidence = <<a, s>>
    <3>1. [episode |-> e, evidence |-> <<a, s>>, txn |-> a] \in links'
      BY <1>7, <1>8, <2>2
    <3> QED
      BY <3>1
  <2> QED
    BY <2>1, <2>2
<1>10. Queued(a, k)'
  <2>1. found'[a][k] = Head(todo[a]) /\ e[1] = Head(todo[a])[2] /\ e \notin over'[a]
    BY <1>1, <1>2, <1>4, <1>6 DEF ConcernOf
  <2>2. PICK l \in links' : l.txn = a /\ l.episode = e /\ l.evidence = <<a, s>>
    BY <1>9
  <2>3. Sees(a, l.txn)'
    BY <2>2 DEF Sees
  <2> QED
    BY <1>5, <2>1, <2>2, <2>3 DEF Queued
<1>11. ASSUME NEW i, Queued(a, i) PROVE Queued(a, i)'
  BY <1>1, <1>8, <1>11 DEF Queued, Sees
<1>12. Rest(a)' = Rest(a) + 1
  <2>1. /\ Rest(a)' = Len(found[a]) - Len(Tail(todo[a]))
        /\ Rest(a) = Len(found[a]) - Len(todo[a])
    BY <1>1 DEF Rest
  <2>2. \A m, n \in Nat : m - (n - 1) = m - n + 1
    OBVIOUS
  <2>3. /\ Len(found[a]) \in Nat /\ Len(todo[a]) \in Nat
        /\ Len(Tail(todo[a])) = Len(todo[a]) - 1
    BY <1>4
  <2> QED
    BY <2>1, <2>2, <2>3
<1>13. \A i \in 1 .. Rest(a)' : Queued(a, i)'
  <2>1. \A i \in 1 .. (Rest(a) + 1) : i \in 1 .. Rest(a) \/ i = k
    BY <1>4, <1>k
  <2> QED
    BY <1>2, <1>10, <1>11, <1>12, <2>1
<1>14. \A i \in 1 .. Len(todo'[a]) : todo'[a][i] = found'[a][Rest(a)' + i]
  <2>1. \A i \in 1 .. (Len(todo[a]) - 1) : Tail(todo[a])[i] = found[a][Rest(a) + (i + 1)]
    <3>1. \A i \in 1 .. (Len(todo[a]) - 1) : i + 1 \in 1 .. Len(todo[a])
      BY <1>4
    <3> QED
      BY <1>2, <1>4, <3>1
  <2>2. \A i \in 1 .. (Len(todo[a]) - 1) : Rest(a) + (i + 1) = Rest(a)' + i
    BY <1>4, <1>12
  <2> QED
    BY <1>1, <1>4, <2>1, <2>2
<1>15. Len(todo'[a]) <= Len(found'[a])
  BY <1>1, <1>2, <1>4
<1>16. ASSUME NEW l \in links', l \notin links PROVE Sees(l.txn, l.evidence[1])'
  <2>1. PICK v \in EvidenceOf(a, s) : l = [episode |-> e, evidence |-> v, txn |-> a]
    BY <1>8, <1>16
  <2>2. PICK b \in Attempts : Sees(a, b) /\ v = <<b, s>>
    BY DEF EvidenceOf
  <2>3. l.txn = a /\ l.evidence[1] = b
    BY <2>1, <2>2
  <2> QED
    BY <1>1, <2>2, <2>3 DEF Sees
<1>17. over'[a] \subseteq closed'
  BY <1>0, <1>1 DEF QueueWell
<1>18. status'[a] # "committed"
  BY <1>1
<1> QED
  BY <1>1, <1>13, <1>14, <1>15, <1>16, <1>17, <1>18 DEF QueueWell

LEMMA QueueStep == SignalsInv /\ [Next]_vars => QueueOK'
<1> SUFFICES ASSUME SignalsInv, [Next]_vars PROVE QueueOK'
  OBVIOUS
<1>0. /\ TypeOK /\ TypeOK' /\ PhaseOK /\ QueueOK /\ \A a \in Attempts : QueueWell(a)
      /\ \A u \in Txns : status[u] = "committed" => status'[u] = "committed"
  BY TypeStep, CommittedStays, QueueWells DEF SignalsInv
<1>1. ASSUME NEW a \in Attempts, AttemptWorks(a) PROVE QueueOK'
  <2>1. a \in Txns /\ Alone(a) /\ KeepsRows(a) /\ status[a] # "committed"
    BY <1>0, <1>1, AttemptAlone, AttemptRows, Parties
  <2>2. /\ \A b \in Attempts : b # a => QueueWell(b)'
        /\ \A l \in links' : l \in links => Sees(l.txn, l.evidence[1])'
    BY <2>1, QueueByOthers
  <2>3. /\ QueueWell(a)'
        /\ \A l \in links' : l \notin links => Sees(l.txn, l.evidence[1])'
    <3>1. CASE BeginAttempt(a)
      <4>1. /\ links' = links /\ over'[a] = closed /\ closed' = closed /\ status'[a] = "active"
            /\ ~At(a, "link")' /\ found'[a] = todo'[a]
        BY <1>0, <2>1, <3>1 DEF TypeOK, BeginAttempt, At, tables
      <4>2. todo'[a] \in Seq(Findings)
        BY <1>0 DEF TypeOK
      <4>3. Len(todo'[a]) \in Nat /\ Rest(a)' = 0
        BY <4>1, <4>2 DEF Rest
      <4> QED
        BY <4>1, <4>2, <4>3 DEF QueueWell
    <3>2. CASE TakeLock(a)
      <4>1. /\ UNCHANGED <<found, todo, over, closed, links, status>> /\ status[a] = "active"
            /\ ~At(a, "link")'
        BY <1>0, <2>1, <3>2 DEF TypeOK, TakeLock, Goto, At, Active, tables, local
      <4> QED
        BY <1>0, <4>1, QueueKept
    <3>3. CASE RaiseSignal(a)
      <4>1. UNCHANGED <<found, todo, over, closed, links, status>> /\ status[a] = "active"
        BY <3>3 DEF RaiseSignal, Goto, At, Active
      <4>2. ASSUME At(a, "link")'
            PROVE  /\ target'[a] \in Episode /\ target'[a][1] = ConcernOf(a)'
                   /\ target'[a] \notin over'[a]
        <5>1. PICK e \in OpenEpisodes(a, ConcernOf(a)) : target'[a] = e
          BY <1>0, <2>1, <3>3, <4>2 DEF TypeOK, RaiseSignal, Goto, At
        <5>2. e \in Episode /\ e[1] = ConcernOf(a) /\ e \notin closed
          BY <1>0, <5>1, RowTypes DEF OpenEpisodes, EpisodesOf, Visible
        <5> QED
          BY <1>0, <4>1, <5>1, <5>2 DEF QueueWell, ConcernOf
      <4> QED
        BY <1>0, <4>1, <4>2, QueueKept
    <3>4. ASSUME NEW e \in Episode, Opens(a, e)
          PROVE  /\ QueueWell(a)'
                 /\ \A l \in links' : l \notin links => Sees(l.txn, l.evidence[1])'
      <4>1. /\ UNCHANGED <<found, todo, over, closed, links, status>> /\ status[a] = "active"
            /\ target'[a] = e
        BY <1>0, <3>4 DEF TypeOK, Opens, Goto, At, Active
      <4>2. e[1] = ConcernOf(a) /\ e \notin closed
        BY <3>4, FreshEpisode
      <4>3. /\ target'[a] \in Episode /\ target'[a][1] = ConcernOf(a)'
            /\ target'[a] \notin over'[a]
        BY <1>0, <4>1, <4>2 DEF QueueWell, ConcernOf
      <4> QED
        BY <1>0, <4>1, <4>3, QueueKept
    <3>5. CASE LinkEvidence(a)
      BY <3>5, QueueGrows
    <3>6. CASE FinishAttempt(a)
      <4>1. /\ UNCHANGED <<found, todo, over, closed, links>> /\ status[a] = "active"
            /\ todo[a] = <<>> /\ ~At(a, "link")'
            /\ \A u \in Txns : status[u] = "committed" => status'[u] = "committed"
        BY <1>0, <2>1, <3>6 DEF TypeOK, FinishAttempt, End, At, Active, tables, local
      <4>2. Rest(a)' = Rest(a)
        BY <4>1 DEF Rest
      <4>3. \A l \in links : Sees(a, l.txn) => Sees(a, l.txn)'
        BY <1>0, <4>1, RowTypes, Parties DEF Sees
      <4>4. \A i : Queued(a, i) => Queued(a, i)'
        BY <4>1, <4>3 DEF Queued
      <4> QED
        BY <1>0, <4>1, <4>2, <4>4 DEF QueueWell
    <3> QED
      BY <1>1, <3>1, <3>2, <3>3, <3>4, <3>5, <3>6 DEF AttemptWorks
  <2>4. \A l \in links' : Sees(l.txn, l.evidence[1])'
    BY <2>2, <2>3
  <2>5. \A b \in Attempts : QueueWell(b)'
    BY <2>2, <2>3
  <2> QED
    BY <2>4, <2>5 DEF QueueOK, QueueWell
<1>2. ASSUME NEW h \in Reviewers, ReviewerWorks(h) PROVE QueueOK'
  <2>1. h \in Txns /\ Alone(h) /\ KeepsRows(h) /\ status[h] # "committed" /\ links' = links
    BY <1>0, <1>2, ReviewerAlone, ReviewerRows, Parties
  <2>2. /\ \A b \in Attempts : QueueWell(b)'
        /\ \A l \in links' : Sees(l.txn, l.evidence[1])'
    BY <2>1, QueueByOthers, Parties
  <2> QED
    BY <2>2 DEF QueueOK, QueueWell
<1>3. ASSUME NEW t \in Txns, GivesUp(t) PROVE QueueOK'
  <2>1. /\ Alone(t) /\ KeepsRows(t) /\ status[t] # "committed"
        /\ status'[t] \in {"refused", "crashed"}
    BY <1>0, <1>3, GivesUpAlone, GivesUpRows
  <2>2. /\ \A b \in Attempts : b # t => QueueWell(b)'
        /\ \A l \in links' : l \in links => Sees(l.txn, l.evidence[1])'
    BY <2>1, QueueByOthers
  <2>3. ASSUME t \in Attempts PROVE QueueWell(t)'
    <3>1. over'[t] = {}
      BY <1>0, <1>3, <2>3 DEF TypeOK, GivesUp, RollBack, Forget
    <3> QED
      BY <2>1, <3>1 DEF QueueWell, At, Active
  <2>4. \A l \in links' : Sees(l.txn, l.evidence[1])'
    BY <1>3, <2>2, GivesUpRows
  <2> QED
    BY <2>2, <2>3, <2>4 DEF QueueOK, QueueWell
<1>4. CASE UNCHANGED vars
  <2>1. Alone(Earlier) /\ UNCHANGED <<found, todo, target, over, links, closed, status, pc>>
    BY <1>4 DEF Alone, vars, tables, local
  <2>2. ASSUME NEW a \in Attempts PROVE QueueWell(a)'
    <3>1. \A i : Queued(a, i)' <=> Queued(a, i)
      BY <2>1 DEF Queued, Sees
    <3>2. Rest(a)' = Rest(a) /\ ConcernOf(a)' = ConcernOf(a) /\ (At(a, "link")' <=> At(a, "link"))
      BY <2>1 DEF Rest, ConcernOf, At, Active
    <3> QED
      BY <1>0, <2>1, <3>1, <3>2 DEF QueueWell
  <2>3. \A l \in links' : Sees(l.txn, l.evidence[1])'
    BY <1>0, <2>1 DEF QueueOK, Sees
  <2> QED
    BY <2>2, <2>3 DEF QueueOK, QueueWell
<1> QED
  BY <1>1, <1>2, <1>3, <1>4, StepCases
-----------------------------------------------------------------------------
(***************************************************************************)
(* The theorems.                                                           *)
(***************************************************************************)

LEMMA LostStep == SignalsInv /\ [Next]_vars => NoAttemptIsLost'
<1> SUFFICES ASSUME SignalsInv, [Next]_vars PROVE NoAttemptIsLost'
  OBVIOUS
<1>0. TypeOK /\ NoAttemptIsLost
  BY DEF SignalsInv
<1>1. ASSUME NEW t \in Txns, Alone(t), status'[t] # "lost" PROVE NoAttemptIsLost'
  BY <1>0, <1>1, Parties DEF NoAttemptIsLost, Alone
<1>2. ASSUME NEW a \in Attempts, AttemptWorks(a) PROVE NoAttemptIsLost'
  <2>1. status'[a] \in {"active", "committed"}
    BY <1>0, <1>2, Parties
       DEF TypeOK, AttemptWorks, BeginAttempt, TakeLock, RaiseSignal, Opens, LinkEvidence,
           FinishAttempt, Goto, End, At, Active
  <2> QED
    BY <1>0, <1>1, <1>2, <2>1, AttemptAlone, Parties
<1>3. ASSUME NEW h \in Reviewers, ReviewerWorks(h) PROVE NoAttemptIsLost'
  BY <1>0, <1>3, ReviewerAlone, Parties DEF NoAttemptIsLost, Alone
<1>4. ASSUME NEW t \in Txns, GivesUp(t) PROVE NoAttemptIsLost'
  BY <1>0, <1>1, <1>4, GivesUpAlone
<1>5. CASE UNCHANGED vars
  BY <1>0, <1>5 DEF NoAttemptIsLost, vars
<1> QED
  BY <1>2, <1>3, <1>4, <1>5, StepCases

\* At first some concerns have been raised and dismissed once.
LEMMA InitInv == Init => SignalsInv
<1> SUFFICES ASSUME Init PROVE SignalsInv
  OBVIOUS
<1>0. TypeOK
  BY InitTypes
<1>1. PICK past \in SUBSET Concerns :
          /\ occurrences = {[episode |-> <<c, 1>>, supersedes |-> Unchosen, txn |-> Earlier] :
                               c \in past}
          /\ events = {[episode |-> <<c, 1>>, status |-> s, at |-> 0, txn |-> Earlier] :
                          c \in past, s \in {"OPEN", "DISMISSED"}}
          /\ closed = past \X {1}
  BY DEF Init
<1>2. /\ links = {} /\ clock = 0
      /\ status[Earlier] = "committed" /\ \A t \in Txns : now[t] = 0
      /\ \A a \in Attempts : status[a] = "idle" /\ over[a] = {}
      /\ \A h \in Reviewers : status[h] = "idle"
  BY Parties DEF Init
<1>3. /\ \A c \in past : [episode |-> <<c, 1>>, supersedes |-> Unchosen, txn |-> Earlier] \in occurrences
      /\ \A o \in occurrences : \E c \in past :
            o = [episode |-> <<c, 1>>, supersedes |-> Unchosen, txn |-> Earlier]
      /\ \A c \in past : \A s \in {"OPEN", "DISMISSED"} :
            [episode |-> <<c, 1>>, status |-> s, at |-> 0, txn |-> Earlier] \in events
      /\ \A v \in events : \E c \in past, s \in {"OPEN", "DISMISSED"} :
            v = [episode |-> <<c, 1>>, status |-> s, at |-> 0, txn |-> Earlier]
  BY <1>1
<1>4. /\ \A o \in occurrences : o.txn = Earlier /\ o.supersedes = Unchosen
      /\ \A o \in occurrences : \E c \in past : o.episode = <<c, 1>>
      /\ \A c \in past : \E o \in occurrences : o.episode = <<c, 1>>
  <2>1. ASSUME NEW o \in occurrences
        PROVE  o.txn = Earlier /\ o.supersedes = Unchosen /\ \E c \in past : o.episode = <<c, 1>>
    <3>1. PICK c \in past : o = [episode |-> <<c, 1>>, supersedes |-> Unchosen, txn |-> Earlier]
      BY <1>3
    <3>2. o.txn = Earlier /\ o.supersedes = Unchosen /\ o.episode = <<c, 1>>
      BY <3>1
    <3> QED
      BY <3>2
  <2>2. ASSUME NEW c \in past PROVE \E o \in occurrences : o.episode = <<c, 1>>
    <3>1. [episode |-> <<c, 1>>, supersedes |-> Unchosen, txn |-> Earlier] \in occurrences
      BY <1>3
    <3> QED
      BY <3>1
  <2> QED
    BY <2>1, <2>2
<1>5. /\ \A v \in events : v.txn = Earlier /\ v.at = 0 /\ v.status \in {"OPEN", "DISMISSED"}
      /\ \A v \in events : \E c \in past : v.episode = <<c, 1>>
      /\ \A c \in past : \A s \in {"OPEN", "DISMISSED"} :
            \E v \in events : v.episode = <<c, 1>> /\ v.status = s /\ v.txn = Earlier
  <2>1. ASSUME NEW v \in events
        PROVE  /\ v.txn = Earlier /\ v.at = 0 /\ v.status \in {"OPEN", "DISMISSED"}
               /\ \E c \in past : v.episode = <<c, 1>>
    <3>1. PICK c \in past, s \in {"OPEN", "DISMISSED"} :
              v = [episode |-> <<c, 1>>, status |-> s, at |-> 0, txn |-> Earlier]
      BY <1>3
    <3>2. v.txn = Earlier /\ v.at = 0 /\ v.status = s /\ v.episode = <<c, 1>>
      BY <3>1
    <3> QED
      BY <3>2
  <2>2. ASSUME NEW c \in past, NEW s \in {"OPEN", "DISMISSED"}
        PROVE  \E v \in events : v.episode = <<c, 1>> /\ v.status = s /\ v.txn = Earlier
    <3>1. [episode |-> <<c, 1>>, status |-> s, at |-> 0, txn |-> Earlier] \in events
      BY <1>3
    <3> QED
      BY <3>1
  <2> QED
    BY <2>1, <2>2
<1>6. Committed(occurrences) = occurrences /\ Committed(events) = events
  BY <1>2, <1>4, <1>5 DEF Committed
<1>7. \A c \in past : Ended(<<c, 1>>)
  BY <1>5, <1>6 DEF Ended, Terminal
<1>8. PhaseOK
  BY <1>2 DEF PhaseOK, Active, Past
<1>9. RowsOK
  <2>1. \A o \in occurrences : \E v \in events :
            v.episode = o.episode /\ v.status = "OPEN" /\ v.txn = o.txn
    BY <1>4, <1>5
  <2>2. \A v \in Committed(events) : \E o \in Committed(occurrences) : o.episode = v.episode
    BY <1>4, <1>5, <1>6
  <2> QED
    BY <1>2, <1>4, <1>5, <2>1, <2>2 DEF RowsOK, At, Active
<1>10. TimesOK
  BY <1>2, <1>5 DEF TimesOK, Active
<1>11. LogOK
  <2>1. ASSUME NEW o \in Committed(occurrences)
        PROVE  \E v \in CommittedLog(o.episode) : \A w \in CommittedLog(o.episode) : AtOrAfter(v, w)
    <3>1. PICK v \in events : v.episode = o.episode /\ v.status = "DISMISSED"
      BY <1>4, <1>5, <1>6
    <3>2. v \in CommittedLog(o.episode)
      BY <1>6, <3>1 DEF CommittedLog
    <3>3. \A w \in CommittedLog(o.episode) : w.at = 0 /\ w.status \in {"OPEN", "DISMISSED"}
      BY <1>5, <1>6 DEF CommittedLog
    <3> QED
      BY <1>5, <3>1, <3>2, <3>3 DEF AtOrAfter, Rank
  <2> QED
    BY <1>2, <2>1 DEF LogOK, At, Active
<1>12. ClosedOK
  <2>1. {o.episode : o \in {o \in Committed(occurrences) : Ended(o.episode)}}
        = {<<c, 1>> : c \in past}
    BY <1>4, <1>6, <1>7
  <2>2. past \X {1} = {<<c, 1>> : c \in past}
    OBVIOUS
  <2> QED
    BY <1>1, <2>1, <2>2 DEF ClosedOK
<1>13. EpisodesOK
  <2>1. \A o, p \in occurrences : o.episode = p.episode => o = p
    <3>1. \A o \in occurrences : o = [episode |-> o.episode, supersedes |-> Unchosen, txn |-> Earlier]
      BY <1>3
    <3> QED
      BY <3>1
  <2>2. \A o \in occurrences : o.supersedes = Previous(o.episode)
    BY <1>4 DEF Previous
  <2>3. ASSUME NEW c \in Concerns PROVE \E m \in Nat : Numbered(c, m)
    <3>1. CASE c \in past
      <4>1. Numbers(c) = {1}
        BY <1>4, <1>6, <3>1 DEF Numbers, EpisodesOf
      <4>2. Numbered(c, 1)
        BY <1>2, <1>4, <4>1 DEF Numbered, EpisodesOf
      <4> QED
        BY <4>2
    <3>2. CASE c \notin past
      <4>1. Numbers(c) = {}
        BY <1>4, <1>6, <3>2 DEF Numbers, EpisodesOf
      <4>2. Numbered(c, 0)
        BY <1>2, <1>4, <4>1 DEF Numbered, EpisodesOf
      <4> QED
        BY <4>2
    <3> QED
      BY <3>1, <3>2
  <2>4. \A a \in Attempts : ~At(a, "open")
    BY <1>2 DEF At, Active
  <2> QED
    BY <2>1, <2>2, <2>3, <2>4 DEF EpisodesOK
<1>14. QueueOK
  BY <1>2 DEF QueueOK, At, Active
<1>15. NoAttemptIsLost
  BY <1>2 DEF NoAttemptIsLost
<1> QED
  BY <1>0, <1>8, <1>9, <1>10, <1>11, <1>12, <1>13, <1>14, <1>15 DEF SignalsInv

\* The nine parts together are kept by every statement of attempts and reviewers,
\* by crashes and by the passing of time.
THEOREM SignalsInvariant == Spec => []SignalsInv
<1>1. SignalsInv /\ [Next]_vars => SignalsInv'
  BY TypeStep, PhaseStep, RowsStep, TimesStep, LogStep, ClosedStep, EpisodesStep, QueueStep, LostStep
     DEF SignalsInv
<1> QED
  BY InitInv, <1>1, PTL DEF Spec

\* Every variable keeps the shape of the table or of the local state it models.
THEOREM TypeCorrect == Spec => []TypeOK
<1>1. SignalsInv => TypeOK
  BY DEF SignalsInv
<1> QED
  BY SignalsInvariant, <1>1, PTL

\* No attempt loses everything it found to a number or an open episode taken by
\* another: the profile lock, taken for something else, is enough.
THEOREM NoAttemptLoses == Spec => []NoAttemptIsLost
<1>1. SignalsInv => NoAttemptIsLost
  BY DEF SignalsInv
<1> QED
  BY SignalsInvariant, <1>1, PTL

\* A set of rows numbered 1 .. m without repetition has m rows.
LEMMA CountedByNumber ==
    ASSUME NEW S, NEW m \in Nat, {o.episode[2] : o \in S} = 1 .. m,
           \A o, p \in S : o.episode[2] = p.episode[2] => o = p
    PROVE  Cardinality(S) = m
<1> DEFINE f == [n \in 1 .. m |-> CHOOSE o \in S : o.episode[2] = n]
<1>1. \A n \in 1 .. m : \E o \in S : o.episode[2] = n
  OBVIOUS
<1>2. \A n \in 1 .. m : f[n] \in S /\ f[n].episode[2] = n
  BY <1>1
<1>3. f \in [1 .. m -> S]
  BY <1>2
<1> HIDE DEF f
<1>4. \A o \in S : o.episode[2] \in 1 .. m /\ f[o.episode[2]] = o
  BY <1>2
<1>5. f \in Injection(1 .. m, S)
  BY <1>2, <1>3 DEF Injection, IsInjective
<1>6. f \in Surjection(1 .. m, S)
  BY <1>3, <1>4 DEF Surjection
<1>7. ExistsBijection(1 .. m, S)
  BY <1>5, <1>6 DEF ExistsBijection, Bijection
<1> QED
  BY <1>7, FS_CountingElements

\* The committed episodes of a concern follow one another: their numbers have no
\* hole, each supersedes the one before, all but the last have ended, and the
\* flag on the row says what the log says, however attempts and reviewers meet.
THEOREM EpisodesInOrder == Spec => []EpisodesFollow
<1>1. ASSUME SignalsInv PROVE EpisodesFollow
  <2>0. TypeOK /\ ClosedOK /\ EpisodesOK
    BY <1>1 DEF SignalsInv
  <2>1. ASSUME NEW c \in Concerns
        PROVE  LET history == EpisodesOf(c, Committed(occurrences)) IN
               /\ {o.episode[2] : o \in history} = 1 .. Cardinality(history)
               /\ \A o \in history :
                     /\ o.supersedes = Previous(o.episode)
                     /\ o.episode[2] < Cardinality(history) => Ended(o.episode)
    <3> DEFINE history == EpisodesOf(c, Committed(occurrences))
    <3>1. PICK m \in Nat : Numbered(c, m)
      BY <2>0 DEF EpisodesOK
    <3>2. {o.episode[2] : o \in history} = 1 .. m
      BY <3>1 DEF Numbered, Numbers
    <3>3. \A o \in history : o \in occurrences /\ o.episode = <<c, o.episode[2]>>
      BY <2>0, RowTypes DEF EpisodesOf, Committed
    <3>4. \A o, p \in history : o.episode[2] = p.episode[2] => o = p
      BY <2>0, <3>3 DEF EpisodesOK
    <3> HIDE DEF history
    <3>5. Cardinality(history) = m
      BY <3>2, <3>4, CountedByNumber
    <3>6. ASSUME NEW o \in history, o.episode[2] < m PROVE Ended(o.episode)
      <4>1. o.episode[2] \in 1 .. m
        BY <3>2
      <4>2. o.episode \in closed
        BY <3>1, <3>3, <3>6, <4>1 DEF Numbered
      <4> QED
        BY <2>0, <4>2 DEF ClosedOK
    <3>7. \A o \in history : o.supersedes = Previous(o.episode)
      BY <2>0, <3>3 DEF EpisodesOK
    <3> QED
      BY <3>2, <3>5, <3>6, <3>7 DEF history
  <2> QED
    BY <2>0, <2>1 DEF EpisodesFollow, ClosedOK
<1> QED
  BY SignalsInvariant, <1>1, PTL

\* What a committed attempt found is in the queue, on an episode of the concern
\* that was not over when it began: no ended episode swallows a rediscovery.
THEOREM FindingsReachTheQueue == Spec => []FindingIsQueued
<1>1. ASSUME SignalsInv PROVE FindingIsQueued
  <2>0. TypeOK /\ QueueOK
    BY <1>1 DEF SignalsInv
  <2>1. ASSUME NEW a \in Attempts, status[a] = "committed", NEW i \in DOMAIN found[a]
        PROVE  \E l \in Committed(links) :
                  /\ l.evidence = <<a, found[a][i][1]>>
                  /\ l.episode[1] = found[a][i][2]
                  /\ l.episode \notin over[a]
    <3>1. todo[a] = <<>> /\ \A n \in 1 .. Rest(a) : Queued(a, n)
      BY <2>0, <2>1 DEF QueueOK
    <3>2. Rest(a) = Len(found[a]) /\ i \in 1 .. Len(found[a])
      <4>1. found[a] \in Seq(Findings)
        BY <2>0 DEF TypeOK
      <4>2. Len(todo[a]) = 0
        BY <3>1
      <4> QED
        BY <2>1, <4>1, <4>2 DEF Rest
    <3>3. PICK l \in links : /\ Sees(a, l.txn)
                             /\ l.evidence = <<a, found[a][i][1]>>
                             /\ l.episode[1] = found[a][i][2]
                             /\ l.episode \notin over[a]
      BY <3>1, <3>2 DEF Queued
    <3>4. l \in Committed(links)
      BY <2>1, <3>3 DEF Committed, Sees
    <3> QED
      BY <3>3, <3>4
  <2> QED
    BY <2>1 DEF FindingIsQueued
<1> QED
  BY SignalsInvariant, <1>1, PTL
=============================================================================
