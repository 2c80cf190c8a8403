------------------------- MODULE ResearchJobsProofs -------------------------
(***************************************************************************)
(* Proofs about ResearchJobs, for any questions, callers, workers, jobs    *)
(* and bounds: type correctness, the numbering of the attempts of a        *)
(* question, the retry budget of a job, and that a job and the attempt     *)
(* made for it stand or fall together.                                     *)
(***************************************************************************)
EXTENDS ResearchJobs, FiniteSetTheorems, TLAPS

(***************************************************************************)
(* The inductive invariant, a part per idea.                               *)
(***************************************************************************)

\* A transaction in the middle of an execution.
Executing == {"question", "check", "insert", "run"}

\* What a transaction has at hand fits the statement it is at.
PhaseOK ==
    \A t \in Txns :
        /\ pc[t] \in Executing \cup {"ask"} => asked[t] \in Runs
        /\ t \in Workers => pc[t] \notin {"ask", "done"}
        /\ t \in Callers => pc[t] # "claim" /\ staged[t] = NoWrites

\* A worker is at the one job it has RUNNING, and at none between two jobs.
JobAtHand ==
    \A w \in Workers :
        /\ job[w] # Nothing <=> pc[w] \in Executing
        /\ job[w] # Nothing => staged[w][job[w]] # Nothing
        /\ \A j \in JobIds : staged[w][j] # Nothing =>
              (staged[w][j].status = "RUNNING" <=> j = job[w])

\* A row is locked by one transaction at a time, and is QUEUED for the others.
RowsHeld ==
    \A t \in Txns, j \in JobIds : staged[t][j] # Nothing =>
        /\ jobs[j] # Nothing /\ jobs[j].status = "QUEUED"
        /\ \A s \in Txns \ {t} : staged[s][j] = Nothing

\* The budget of a job, in a row committed or not.
WithinBudget(row) ==
    /\ row.status = "FAILED" => row.attempts = MaxAttempts
    /\ row.status = "QUEUED" => row.attempts < MaxAttempts

Budgets ==
    \A j \in JobIds :
        /\ jobs[j] # Nothing => jobs[j].status # "RUNNING" /\ WithinBudget(jobs[j])
        /\ \A t \in Txns : staged[t][j] # Nothing => WithinBudget(staged[t][j])

\* The attempts among S that were made for job j.
MadeFor(S, j) == {a \in S : a.job = j}

OneTerminal(S) == \E a \in S : S = {a} /\ ~IsLive(a)
OneLive(S) == \E a \in S : S = {a} /\ IsLive(a)

\* What a worker has inserted for a job is what the row it has staged says.
Accounted(w, j) ==
    LET row == staged[w][j]
        made == MadeFor(newTries[w], j)
    IN  IF row # Nothing /\ row.status = "DONE" THEN OneTerminal(made)
        ELSE IF j = job[w] /\ pc[w] = "run" THEN OneLive(made)
        ELSE made = {}

WorkOK ==
    /\ OneExecutionPerJob
    /\ \A c \in Callers : \A a \in newTries[c] : a.job = Nothing
    /\ \A w \in Workers : \A a \in newTries[w] : a.job \in JobIds
    /\ \A w \in Workers, j \in JobIds : Accounted(w, j)

\* Attempts of one question: numbered 1, 2, ..., k, and only the last is live.
InOrder(S) ==
    /\ \E k \in Nat : {a.number : a \in S} = 1..k
    /\ \A a, b \in S : a.number = b.number => a = b
    /\ \A a, b \in S : IsLive(a) => b.number <= a.number

CommittedOf(r) == {a \in attempts : a.run = r}

OwnOf(t, r) == {a \in newTries[t] : a.run = r}

\* The number start_attempt has read is the next one, or one that somebody has
\* committed since; the latter only while the transaction has no attempt of its
\* own on the question, which would keep others from it.
NumberRead(t) ==
    LET r == Target(t) IN
    /\ number[t] # 0
    /\ number[t] = 1 \/ \E a \in SeenOf(t, r) : a.number = number[t] - 1
    /\ \A a \in OwnOf(t, r) : ~IsLive(a)
    /\ OwnOf(t, r) # {} => \A a \in SeenOf(t, r) : a.number < number[t]

NumbersOK ==
    /\ \A r \in Runs : InOrder(CommittedOf(r))
    /\ \A t \in Txns, r \in Runs : InOrder(SeenOf(t, r))
    /\ \A t \in Txns : newTries[t] \cap attempts = {}
    /\ \A s, t \in Txns, r \in Runs : OwnOf(s, r) # {} /\ OwnOf(t, r) # {} => s = t
    /\ \A t \in Txns : pc[t] = "insert" => NumberRead(t)

JobsInv ==
    /\ TypeOK /\ PhaseOK /\ JobAtHand /\ RowsHeld /\ Budgets
    /\ WorkOK /\ NumbersOK

-----------------------------------------------------------------------------
(***************************************************************************)
(* What the helpers return.                                                *)
(***************************************************************************)

\* Claiming a queued job within its budget spends one attempt of it.
LEMMA ClaimedRow ==
    ASSUME NEW row \in JobRow, row.status = "QUEUED", WithinBudget(row)
    PROVE  /\ Claimed(row) \in JobRow
           /\ Claimed(row).status = "RUNNING"
           /\ WithinBudget(Claimed(row))
<1>1. MaxAttempts \in Nat /\ row.attempts \in 0..MaxAttempts
  BY JobsAssumption DEF JobRow
<1>2. row.attempts + 1 \in 0..MaxAttempts
  BY <1>1 DEF WithinBudget
<1> QED
  BY <1>2 DEF JobRow, Claimed, WithinBudget

\* A job that failed is queued again with budget left, or parked without.
LEMMA FailedRow ==
    ASSUME NEW row \in JobRow
    PROVE  /\ Failed(row) \in JobRow
           /\ Failed(row).status \in {"QUEUED", "FAILED"}
           /\ WithinBudget(Failed(row))
<1>1. MaxAttempts \in Nat /\ row.attempts \in 0..MaxAttempts
  BY JobsAssumption DEF JobRow
<1>2. CASE row.attempts >= MaxAttempts
  BY <1>1, <1>2 DEF JobRow, Failed, WithinBudget
<1>3. CASE ~(row.attempts >= MaxAttempts)
  <2>1. Failed(row) = [row EXCEPT !.status = "QUEUED", !.due = FALSE]
    BY <1>3 DEF Failed
  <2>2. /\ Failed(row) \in JobRow
        /\ Failed(row).status = "QUEUED"
        /\ Failed(row).attempts = row.attempts
    BY <2>1 DEF JobRow
  <2>3. row.attempts < MaxAttempts
    BY <1>1, <1>3
  <2> QED
    BY <2>2, <2>3 DEF WithinBudget
<1> QED
  BY <1>2, <1>3

LEMMA CompletedRow ==
    ASSUME NEW row \in JobRow
    PROVE  /\ Completed(row) \in JobRow
           /\ Completed(row).status = "DONE"
           /\ WithinBudget(Completed(row))
  BY DEF JobRow, Completed, WithinBudget

\* Time changes nothing of a row but when it is due.
LEMMA LaterRow ==
    ASSUME NEW row \in JobRow \cup {Nothing}
    PROVE  /\ Later(row) \in JobRow \cup {Nothing}
           /\ Later(row) = Nothing <=> row = Nothing
           /\ row # Nothing => /\ Later(row).status = row.status
                               /\ Later(row).attempts = row.attempts
                               /\ WithinBudget(row) => WithinBudget(Later(row))
<1>1. CASE row = Nothing
  BY <1>1 DEF Later
<1>2. CASE row # Nothing
  <2>1. row \in JobRow /\ Nothing \notin JobRow
    BY <1>2, JobsAssumption
  <2>2. Later(row) = [row EXCEPT !.due = TRUE]
    BY <1>2 DEF Later
  <2>3. Later(row) \in JobRow /\ Later(row).status = row.status
        /\ Later(row).attempts = row.attempts
    BY <2>1, <2>2 DEF JobRow
  <2> QED
    BY <1>2, <2>1, <2>3 DEF WithinBudget
<1> QED
  BY <1>1, <1>2

\* A transaction that inserts has a question to insert for.
LEMMA TargetType ==
    ASSUME PhaseOK, NEW t \in Txns, pc[t] \in Executing \cup {"ask"}
    PROVE  Target(t) \in Runs
<1>1. asked[t] \in Runs
  BY DEF PhaseOK
<1>2. DefaultOf[asked[t]] \in Runs
  BY <1>1, JobsAssumption
<1> QED
  BY <1>1, <1>2 DEF Target, ExecutedFor

LEMMA SeenType ==
    ASSUME TypeOK, NEW t \in Txns, NEW r
    PROVE  SeenOf(t, r) \subseteq Attempt
  BY DEF TypeOK, SeenOf

\* The attempts of a question are as many as their numbers.
LEMMA CountedByNumbers ==
    ASSUME NEW S \in SUBSET Attempt, InOrder(S)
    PROVE  /\ IsFiniteSet(S)
           /\ {a.number : a \in S} = 1..Cardinality(S)
<1>1. PICK k \in Nat : {a.number : a \in S} = 1..k
  BY DEF InOrder
<1> DEFINE f == [n \in 1..k |-> CHOOSE a \in S : a.number = n]
<1>2. ASSUME NEW n \in 1..k
      PROVE  f[n] \in S /\ f[n].number = n
  <2>1. \E a \in S : a.number = n
    BY <1>1
  <2> QED
    BY <2>1
<1>3. f \in [1..k -> S]
  BY <1>2
<1>4. f \in Injection(1..k, S)
  <2>1. \A m, n \in 1..k : f[m] = f[n] => m = n
    BY <1>2
  <2> HIDE DEF f
  <2> QED
    BY <1>3, <2>1 DEF Injection, IsInjective
<1>5. f \in Surjection(1..k, S)
  <2>1. ASSUME NEW a \in S
        PROVE  a.number \in 1..k /\ f[a.number] = a
    <3>1. a.number \in 1..k
      BY <1>1
    <3>2. f[a.number] \in S /\ f[a.number].number = a.number
      BY <1>2, <3>1
    <3> QED
      BY <3>1, <3>2 DEF InOrder
  <2> HIDE DEF f
  <2> QED
    BY <1>3, <2>1 DEF Surjection
<1>6. ExistsBijection(1..k, S)
  BY <1>4, <1>5 DEF ExistsBijection, Bijection
<1>7. IsFiniteSet(1..k) /\ Cardinality(1..k) = k
  BY FS_Interval
<1>8. IsFiniteSet(S) /\ Cardinality(S) = k
  BY <1>6, <1>7, FS_Bijection
<1> QED
  BY <1>1, <1>8

\* start_attempt takes the number after the last one it sees.
LEMMA NextIsFree ==
    ASSUME TypeOK, NEW t \in Txns, NEW r, InOrder(SeenOf(t, r))
    PROVE  LET n == NextNumber(t, r) IN
           /\ n \in Nat \ {0}
           /\ n = 1 \/ \E a \in SeenOf(t, r) : a.number = n - 1
           /\ \A a \in SeenOf(t, r) : a.number < n
<1> DEFINE S == SeenOf(t, r)
           k == Cardinality(S)
           P(n) == /\ \A a \in S : a.number < n
                   /\ n = 1 \/ \E a \in S : a.number = n - 1
<1>1. IsFiniteSet(S) /\ {a.number : a \in S} = 1..k
  BY SeenType, CountedByNumbers
<1>2. k \in Nat
  BY <1>1, FS_CardinalityType
<1> HIDE DEF S, k
<1>3. k + 1 \in 1..(k + 1) /\ P(k + 1)
  <2>1. \A a \in S : a.number \in 1..k
    BY <1>1
  <2>2. CASE k = 0
    BY <2>1, <2>2
  <2>3. CASE k # 0
    <3>1. k \in 1..k
      BY <1>2, <2>3
    <3>2. \E a \in S : a.number = k
      BY <1>1, <3>1
    <3> QED
      BY <1>2, <2>1, <3>2
  <2> QED
    BY <2>2, <2>3
<1>4. NextNumber(t, r) = CHOOSE n \in 1..(k + 1) : P(n)
  BY DEF NextNumber, S, k
<1>5. NextNumber(t, r) \in 1..(k + 1) /\ P(NextNumber(t, r))
  <2> HIDE DEF P
  <2> QED
    BY <1>3, <1>4
<1> QED
  BY <1>2, <1>5 DEF S
\* The bounds are numbers.
LEMMA Bounds == MaxJobs \in Nat /\ 0 \in 0..MaxJobs /\ MaxJobs \in 0..MaxJobs /\ 0 \in 0..MaxAttempts
<1>1. MaxJobs \in Nat /\ MaxAttempts \in Nat
  BY JobsAssumption
<1> QED
  BY <1>1

\* A transaction that gives up leaves everything with its type.
LEMMA RollBackType ==
    ASSUME TypeOK, NEW t \in Txns, NEW how, RollBack(t, how),
           how \in {"already live", "integrity error", "raised", "crashed", "deadlock"},
           crashes' \in 0..MaxCrashes
    PROVE  TypeOK'
<1> USE DEF TypeOK, RollBack, End, Goto
<1>1. /\ questions' \subseteq Runs
      /\ attempts' \subseteq Attempt
      /\ jobs' \in [JobIds -> JobRow \cup {Nothing}]
  BY DEF tables
<1>2. /\ pc' \in [Txns -> {"idle", "ask", "question", "check", "insert", "run", "claim",
                           "commit", "done"}]
      /\ ended' \in [Txns -> {"not yet", "committed", "already live", "integrity error",
                              "raised", "crashed", "deadlock"}]
      /\ asked' \in [Txns -> Runs \cup {Nothing}]
      /\ opening' \subseteq Callers
      /\ number' \in [Txns -> Nat]
  OBVIOUS
<1>3. job' \in [Workers -> JobIds \cup {Nothing}] /\ left' \in [Workers -> 0..MaxJobs]
  BY Bounds
<1>4. NoWrites \in [JobIds -> JobRow \cup {Nothing}]
  BY DEF NoWrites
<1>5. /\ newRuns' \in [Txns -> SUBSET Runs]
      /\ newTries' \in [Txns -> SUBSET Attempt]
      /\ staged' \in [Txns -> [JobIds -> JobRow \cup {Nothing}]]
  BY <1>4
<1> QED
  BY <1>1, <1>2, <1>3, <1>5

LEMMA CommitType ==
    ASSUME TypeOK, NEW t \in Txns, Commit(t)
    PROVE  TypeOK'
<1> USE DEF TypeOK, Commit, End, Goto
<1>1. /\ questions' \subseteq Runs
      /\ attempts' \subseteq Attempt
      /\ jobs' \in [JobIds -> JobRow \cup {Nothing}]
  BY DEF RowOf
<1>2. /\ pc' \in [Txns -> {"idle", "ask", "question", "check", "insert", "run", "claim",
                           "commit", "done"}]
      /\ ended' \in [Txns -> {"not yet", "committed", "already live", "integrity error",
                              "raised", "crashed", "deadlock"}]
      /\ asked' \in [Txns -> Runs \cup {Nothing}]
      /\ opening' \subseteq Callers
      /\ number' \in [Txns -> Nat]
  OBVIOUS
<1>3. job' \in [Workers -> JobIds \cup {Nothing}] /\ left' \in [Workers -> 0..MaxJobs]
  BY Bounds
<1>4. NoWrites \in [JobIds -> JobRow \cup {Nothing}]
  BY DEF NoWrites
<1>5. /\ newRuns' \in [Txns -> SUBSET Runs]
      /\ newTries' \in [Txns -> SUBSET Attempt]
      /\ staged' \in [Txns -> [JobIds -> JobRow \cup {Nothing}]]
  BY <1>4
<1> QED
  BY <1>1, <1>2, <1>3, <1>5

LEMMA CallerType ==
    ASSUME TypeOK, NEW c \in Callers, Ask(c) \/ Execute(c) \/ Open(c) \/ Enqueue(c)
    PROVE  TypeOK'
<1>0. c \in Txns
  BY DEF Txns
<1>1. CASE Ask(c) \/ Execute(c) \/ Open(c)
  <2>1. /\ \E r \in Runs : asked' = [asked EXCEPT ![c] = r]
        /\ \E stage \in {"ask", "question", "check"} : pc' = [pc EXCEPT ![c] = stage]
        /\ opening' \in {opening, opening \cup {c}}
        /\ UNCHANGED <<tables, ended, number, job, left, writes, crashes>>
    BY <1>1 DEF TypeOK, Ask, Execute, Open, BeginCaller, Goto
  <2> QED
    BY <1>0, <2>1 DEF TypeOK, tables, writes
<1>2. CASE Enqueue(c)
  <2>1. PICK r \in questions, j \in JobIds : jobs' = [jobs EXCEPT ![j] = NewJob(r)]
    BY <1>2 DEF Enqueue
  <2>2. NewJob(r) \in JobRow
    BY <2>1, Bounds DEF TypeOK, NewJob, JobRow
  <2> QED
    BY <1>0, <1>2, <2>1, <2>2 DEF TypeOK, Enqueue, Goto, writes
<1> QED
  BY <1>1, <1>2

LEMMA RowType ==
    ASSUME TypeOK, NEW t \in Txns, NEW j \in JobIds
    PROVE  RowOf(t, j) \in JobRow \cup {Nothing}
  BY DEF TypeOK, RowOf

\* A row a worker claims has an attempt of its budget left.
LEMMA ClaimableRow ==
    ASSUME TypeOK, RowsHeld, Budgets, NEW w \in Workers, NEW j \in Claimable(w)
    PROVE  /\ j \in JobIds
           /\ RowOf(w, j) \in JobRow
           /\ RowOf(w, j).status = "QUEUED"
           /\ WithinBudget(RowOf(w, j))
           /\ Claimed(RowOf(w, j)) \in JobRow
           /\ Claimed(RowOf(w, j)).status = "RUNNING"
           /\ WithinBudget(Claimed(RowOf(w, j)))
<1>0. w \in Txns
  BY DEF Txns
<1>1. j \in JobIds /\ RowOf(w, j) # Nothing /\ RowOf(w, j).status = "QUEUED"
  BY DEF Claimable
<1>2. RowOf(w, j) \in JobRow
  BY <1>0, <1>1, RowType
<1>3. WithinBudget(RowOf(w, j))
  BY <1>0, <1>1 DEF Budgets, RowOf
<1> QED
  BY <1>1, <1>2, <1>3, ClaimedRow

\* The job a worker is at has a row staged, and the row is RUNNING.
LEMMA RowAtHand ==
    ASSUME TypeOK, JobAtHand, NEW w \in Workers, pc[w] \in Executing
    PROVE  /\ job[w] \in JobIds
           /\ staged[w][job[w]] \in JobRow
           /\ staged[w][job[w]].status = "RUNNING"
<1>1. job[w] # Nothing
  BY DEF JobAtHand
<1>2. job[w] \in JobIds
  BY <1>1 DEF TypeOK
<1>3. staged[w][job[w]] # Nothing
  BY <1>1 DEF JobAtHand
<1>4. w \in Txns
  BY DEF Txns
<1>5. staged[w][job[w]] \in JobRow
  <2>1. staged \in [Txns -> [JobIds -> JobRow \cup {Nothing}]]
    BY DEF TypeOK
  <2> QED
    BY <1>2, <1>3, <1>4, <2>1
<1> QED
  BY <1>2, <1>3, <1>5 DEF JobAtHand

LEMMA PutBackType ==
    ASSUME TypeOK, NEW w \in Workers, job[w] \in JobIds, NEW row \in JobRow, PutBack(w, row)
    PROVE  /\ staged' \in [Txns -> [JobIds -> JobRow \cup {Nothing}]]
           /\ job' \in [Workers -> JobIds \cup {Nothing}]
           /\ asked' \in [Txns -> Runs \cup {Nothing}]
           /\ pc' \in [Txns -> {"idle", "ask", "question", "check", "insert", "run", "claim",
                                "commit", "done"}]
<1>1. w \in Txns
  BY DEF Txns
<1> QED
  BY <1>1 DEF TypeOK, PutBack, Goto

LEMMA LoopType ==
    ASSUME TypeOK, RowsHeld, Budgets, NEW w \in Workers,
           BeginWork(w) \/ ClaimJob(w) \/ StopClaiming(w)
    PROVE  TypeOK'
<1>0. w \in Txns
  BY DEF Txns
<1>1. CASE BeginWork(w)
  BY <1>0, <1>1, Bounds DEF TypeOK, BeginWork, Goto, tables, writes
<1>2. CASE StopClaiming(w)
  BY <1>0, <1>2 DEF TypeOK, StopClaiming, Goto, tables, writes
<1>3. CASE ClaimJob(w)
  <2>1. PICK j \in Claimable(w) :
          /\ staged' = [staged EXCEPT ![w][j] = Claimed(RowOf(w, j))]
          /\ job' = [job EXCEPT ![w] = j]
          /\ asked' = [asked EXCEPT ![w] = RowOf(w, j).run]
    BY <1>3 DEF ClaimJob
  <2>2. j \in JobIds /\ RowOf(w, j).run \in Runs /\ Claimed(RowOf(w, j)) \in JobRow
    <3>1. j \in JobIds /\ RowOf(w, j) \in JobRow /\ Claimed(RowOf(w, j)) \in JobRow
      BY ClaimableRow
    <3> QED
      BY <3>1 DEF JobRow
  <2>3. left' \in [Workers -> 0..MaxJobs]
    <3>1. \A n \in 0..MaxJobs : n > 0 => n - 1 \in 0..MaxJobs
      BY Bounds
    <3>2. left' = [left EXCEPT ![w] = @ - 1] /\ left[w] > 0 /\ left \in [Workers -> 0..MaxJobs]
      BY <1>3 DEF TypeOK, ClaimJob
    <3> QED
      BY <3>1, <3>2
  <2> QED
    BY <1>0, <1>3, <2>1, <2>2, <2>3 DEF TypeOK, ClaimJob, Goto, tables
<1> QED
  BY <1>1, <1>2, <1>3
\* Finishing an attempt changes its status only.
LEMMA FinishedAttempt ==
    ASSUME NEW a \in Attempt, NEW status \in {"COMPLETED", "PARTIAL"}
    PROVE  LET b == [a EXCEPT !.status = status] IN
           /\ b \in Attempt /\ ~IsLive(b)
           /\ b.run = a.run /\ b.number = a.number /\ b.job = a.job
  BY DEF Attempt, IsLive, Terminal

\* The attempt start_attempt inserts.
Opened(t) == [run |-> Target(t), number |-> number[t], status |-> "PENDING",
              asked |-> asked[t], job |-> IF t \in Workers THEN job[t] ELSE Nothing]

LEMMA OpenedType ==
    ASSUME TypeOK, PhaseOK, NEW t \in Txns, pc[t] \in Executing
    PROVE  Opened(t) \in Attempt /\ IsLive(Opened(t))
<1>1. Target(t) \in Runs
  BY TargetType
<1>2. asked[t] \in Runs
  BY DEF PhaseOK
<1>3. number[t] \in Nat
  BY DEF TypeOK
<1>4. (IF t \in Workers THEN job[t] ELSE Nothing) \in JobIds \cup {Nothing}
  BY DEF TypeOK
<1> QED
  BY <1>1, <1>2, <1>3, <1>4 DEF Opened, Attempt, IsLive, Terminal

LEMMA StepType ==
    ASSUME TypeOK, PhaseOK, JobAtHand, NumbersOK, NEW t \in Txns, Step(t)
    PROVE  TypeOK'
<1>0. crashes \in 0..MaxCrashes
  BY DEF TypeOK
<1>1. CASE Question(t)
  <2>1. Target(t) \in Runs
    BY <1>1, TargetType DEF Question, Executing
  <2> QED
    BY <1>1, <2>1 DEF TypeOK, Question, Goto, tables
<1>2. CASE CheckFree(t)
  <2>1. Target(t) \in Runs
    BY <1>2, TargetType DEF CheckFree, Executing
  <2>2. NextNumber(t, Target(t)) \in Nat
    BY <2>1, NextIsFree DEF NumbersOK
  <2> QED
    BY <1>2, <2>2 DEF TypeOK, CheckFree, Goto, tables, writes
<1>3. CASE CheckLive(t)
  <2>1. CASE t \in Callers
    BY <1>0, <1>3, <2>1, RollBackType DEF CheckLive
  <2>2. CASE t \notin Callers
    <3>1. t \in Workers /\ pc[t] \in Executing
      BY <1>3, <2>2 DEF CheckLive, Txns, Executing
    <3>2. Failed(staged[t][job[t]]) \in JobRow /\ job[t] \in JobIds
      BY <3>1, RowAtHand, FailedRow
    <3>3. PutBack(t, Failed(staged[t][job[t]]))
      BY <1>3, <2>2 DEF CheckLive
    <3>4. UNCHANGED <<tables, ended, opening, number, left, newRuns, newTries, crashes>>
      BY <1>3, <2>2 DEF CheckLive
    <3> QED
      BY <3>1, <3>2, <3>3, <3>4, PutBackType DEF TypeOK, tables
  <2> QED
    BY <2>1, <2>2
<1>4. CASE InsertAttempt(t)
  <2>1. Opened(t) \in Attempt
    BY <1>4, OpenedType DEF InsertAttempt, Executing
  <2>2. newTries' = [newTries EXCEPT ![t] = @ \cup {Opened(t)}]
    BY <1>4 DEF InsertAttempt, Opened
  <2>3. newTries' \in [Txns -> SUBSET Attempt]
    BY <2>1, <2>2 DEF TypeOK
  <2>4. \E stage \in {"commit", "run"} : pc' = [pc EXCEPT ![t] = stage]
    BY <1>4 DEF InsertAttempt, Goto
  <2>5. UNCHANGED <<tables, ended, asked, opening, number, job, left, newRuns, staged, crashes>>
    BY <1>4 DEF InsertAttempt
  <2> QED
    BY <2>3, <2>4, <2>5 DEF TypeOK, tables
<1>5. CASE InsertRefused(t)
  BY <1>0, <1>5, RollBackType DEF InsertRefused
<1>6. CASE RunPipeline(t)
  <2>1. newTries' \in [Txns -> SUBSET Attempt]
    <3>1. PICK a \in newTries[t], s \in {"COMPLETED", "PARTIAL"} :
            newTries' = [newTries EXCEPT ![t] = (@ \ {a}) \cup {[a EXCEPT !.status = s]}]
      BY <1>6 DEF RunPipeline
    <3>2. newTries \in [Txns -> SUBSET Attempt]
      BY DEF TypeOK
    <3>3. [a EXCEPT !.status = s] \in Attempt
      BY <3>2, FinishedAttempt
    <3> QED
      BY <3>1, <3>2, <3>3
  <2>2. UNCHANGED <<tables, ended, opening, number, left, newRuns, crashes>>
    BY <1>6 DEF RunPipeline
  <2>3. CASE t \in Workers
    <3>1. PutBack(t, Completed(staged[t][job[t]]))
      BY <1>6, <2>3 DEF RunPipeline
    <3>2. Completed(staged[t][job[t]]) \in JobRow /\ job[t] \in JobIds
      BY <1>6, <2>3, RowAtHand, CompletedRow DEF RunPipeline, Executing
    <3> QED
      BY <2>1, <2>2, <2>3, <3>1, <3>2, PutBackType DEF TypeOK, tables
  <2>4. CASE t \notin Workers
    BY <1>6, <2>1, <2>2, <2>4 DEF TypeOK, RunPipeline, Goto, tables
  <2> QED
    BY <2>3, <2>4
<1>7. CASE PipelineRaises(t)
  BY <1>0, <1>7, RollBackType DEF PipelineRaises
<1>8. CASE Commit(t)
  BY <1>8, CommitType
<1> QED
  BY <1>1, <1>2, <1>3, <1>4, <1>5, <1>6, <1>7, <1>8 DEF Step

LEMMA TimeType ==
    ASSUME TypeOK, RetryDelayEnds
    PROVE  TypeOK'
<1>1. jobs' = [j \in JobIds |-> Later(jobs[j])]
      /\ staged' = [t \in Txns |-> [j \in JobIds |-> Later(staged[t][j])]]
      /\ UNCHANGED <<questions, attempts, pc, ended, asked, opening, number, job, left,
                     newRuns, newTries, crashes>>
  BY DEF RetryDelayEnds
<1>2. \A j \in JobIds : Later(jobs[j]) \in JobRow \cup {Nothing}
  BY LaterRow DEF TypeOK
<1>3. \A t \in Txns, j \in JobIds : Later(staged[t][j]) \in JobRow \cup {Nothing}
  BY LaterRow DEF TypeOK
<1> QED
  BY <1>1, <1>2, <1>3 DEF TypeOK

\* A process dies, or the database ends a transaction that waits in a circle.
LEMMA EnvironmentType ==
    ASSUME TypeOK, NEW t \in Txns, Crash(t) \/ DeadlockVictim(t)
    PROVE  TypeOK'
<1>1. crashes' \in 0..MaxCrashes
  <2>1. MaxCrashes \in Nat
    BY JobsAssumption
  <2>2. crashes \in 0..MaxCrashes
    BY DEF TypeOK
  <2> QED
    BY <2>1, <2>2 DEF Crash, DeadlockVictim
<1> QED
  BY <1>1, RollBackType DEF Crash, DeadlockVictim

LEMMA TypeStep ==
    ASSUME JobsInv, [Next]_vars
    PROVE  TypeOK'
<1> USE DEF JobsInv
<1>1. CASE \E c \in Callers : Ask(c) \/ Execute(c) \/ Open(c) \/ Enqueue(c)
  BY <1>1, CallerType
<1>2. CASE \E t \in Txns : Step(t)
  BY <1>2, StepType
<1>3. CASE \E w \in Workers : BeginWork(w) \/ ClaimJob(w) \/ StopClaiming(w)
  BY <1>3, LoopType
<1>4. CASE \E t \in Txns : Crash(t) \/ DeadlockVictim(t)
  BY <1>4, EnvironmentType
<1>5. CASE RetryDelayEnds
  BY <1>5, TimeType
<1>6. CASE UNCHANGED vars
  BY <1>6 DEF TypeOK, vars, tables, writes
<1> QED
  BY <1>1, <1>2, <1>3, <1>4, <1>5, <1>6 DEF Next, WorkerStep, Txns
-----------------------------------------------------------------------------
(***************************************************************************)
(* The queue: who is at which job, and what its row says.                  *)
(***************************************************************************)

\* How a transaction ends: nothing of it is left behind, and no other one is
\* touched.
LEMMA Ended ==
    ASSUME TypeOK, NEW t \in Txns, NEW how,
           End(t, IF t \in Workers THEN "idle" ELSE "done", how)
    PROVE  /\ pc'[t] = IF t \in Workers THEN "idle" ELSE "done"
           /\ t \in Workers => job'[t] = Nothing
           /\ staged'[t] = NoWrites
           /\ newTries'[t] = {}
           /\ \A s \in Txns \ {t} :
                 /\ pc'[s] = pc[s] /\ asked'[s] = asked[s] /\ number'[s] = number[s]
                 /\ staged'[s] = staged[s] /\ newTries'[s] = newTries[s]
                 /\ s \in opening' <=> s \in opening
           /\ \A w \in Workers \ {t} : job'[w] = job[w]
<1> USE DEF TypeOK, End, Goto
<1>1. /\ pc'[t] = IF t \in Workers THEN "idle" ELSE "done"
      /\ staged'[t] = NoWrites
      /\ newTries'[t] = {}
  OBVIOUS
<1>2. /\ t \in Workers => job'[t] = Nothing
      /\ \A w \in Workers \ {t} : job'[w] = job[w]
  OBVIOUS
<1>3. ASSUME NEW s \in Txns \ {t}
      PROVE  /\ pc'[s] = pc[s] /\ asked'[s] = asked[s] /\ number'[s] = number[s]
             /\ staged'[s] = staged[s] /\ newTries'[s] = newTries[s]
             /\ s \in opening' <=> s \in opening
  OBVIOUS
<1> QED
  BY <1>1, <1>2, <1>3

LEMMA PhaseEnd ==
    ASSUME TypeOK, PhaseOK, NEW t \in Txns, NEW how,
           End(t, IF t \in Workers THEN "idle" ELSE "done", how)
    PROVE  PhaseOK'
<1>1. Callers \cap Workers = {}
  BY JobsAssumption
<1>2. ASSUME NEW s \in Txns
      PROVE  /\ pc'[s] \in Executing \cup {"ask"} => asked'[s] \in Runs
             /\ s \in Workers => pc'[s] \notin {"ask", "done"}
             /\ s \in Callers => pc'[s] # "claim" /\ staged'[s] = NoWrites
  <2>1. CASE s = t
    BY <1>1, <2>1, Ended DEF Executing
  <2>2. CASE s # t
    BY <2>2, Ended DEF PhaseOK
  <2> QED
    BY <2>1, <2>2
<1> QED
  BY <1>2 DEF PhaseOK

\* A step of one transaction that keeps its phase right keeps everybody's.
LEMMA PhaseOne ==
    ASSUME TypeOK, PhaseOK, NEW t \in Txns, NEW stage,
           pc' = [pc EXCEPT ![t] = stage],
           \A s \in Txns \ {t} : asked'[s] = asked[s] /\ staged'[s] = staged[s],
           stage \in Executing \cup {"ask"} => asked'[t] \in Runs,
           t \in Workers => stage \notin {"ask", "done"},
           t \in Callers => stage # "claim" /\ staged'[t] = staged[t]
    PROVE  PhaseOK'
<1>1. \A s \in Txns : pc'[s] = IF s = t THEN stage ELSE pc[s]
  BY DEF TypeOK
<1> QED
  BY <1>1 DEF PhaseOK

LEMMA PhaseStep ==
    ASSUME JobsInv, [Next]_vars
    PROVE  PhaseOK'
<1> USE DEF JobsInv
<1>0. /\ Callers \cap Workers = {} /\ Callers \subseteq Txns /\ Workers \subseteq Txns
      /\ questions \subseteq Runs /\ asked \in [Txns -> Runs \cup {Nothing}]
  BY JobsAssumption DEF Txns, TypeOK
<1>1. ASSUME NEW c \in Callers, Ask(c) \/ Execute(c) \/ Open(c) \/ Enqueue(c)
      PROVE  PhaseOK'
  <2>1. CASE Ask(c) \/ Execute(c) \/ Open(c)
    <3>1. /\ \E r \in Runs : asked' = [asked EXCEPT ![c] = r]
          /\ staged' = staged
      BY <1>0, <2>1 DEF Ask, Execute, Open, BeginCaller, writes
    <3>2. \E stage \in {"ask", "question", "check"} : pc' = [pc EXCEPT ![c] = stage]
      BY <2>1 DEF Ask, Execute, Open, BeginCaller, Goto
    <3>3. asked'[c] \in Runs /\ \A s \in Txns \ {c} : asked'[s] = asked[s]
      BY <1>0, <3>1
    <3> QED
      BY <1>0, <3>1, <3>2, <3>3, PhaseOne
  <2>2. CASE Enqueue(c)
    BY <1>0, <2>2, PhaseOne DEF Enqueue, Goto, writes, Executing
  <2> QED
    BY <1>1, <2>1, <2>2
<1>2. ASSUME NEW w \in Workers, BeginWork(w) \/ ClaimJob(w) \/ StopClaiming(w)
      PROVE  PhaseOK'
  <2>1. CASE BeginWork(w)
    BY <1>0, <2>1, PhaseOne DEF BeginWork, Goto, writes, Executing
  <2>2. CASE StopClaiming(w)
    BY <1>0, <2>2, PhaseOne DEF StopClaiming, Goto, writes, Executing
  <2>3. CASE ClaimJob(w)
    <3>1. PICK j \in Claimable(w) :
            /\ staged' = [staged EXCEPT ![w][j] = Claimed(RowOf(w, j))]
            /\ asked' = [asked EXCEPT ![w] = RowOf(w, j).run]
      BY <2>3 DEF ClaimJob
    <3>2. RowOf(w, j).run \in Runs
      BY ClaimableRow DEF JobRow
    <3>3. \A s \in Txns \ {w} : asked'[s] = asked[s] /\ staged'[s] = staged[s]
      BY <3>1 DEF TypeOK
    <3>4. asked'[w] \in Runs
      BY <1>0, <3>1, <3>2
    <3>5. pc' = [pc EXCEPT ![w] = "question"]
      BY <2>3 DEF ClaimJob, Goto
    <3> QED
      BY <1>0, <3>3, <3>4, <3>5, PhaseOne
  <2> QED
    BY <1>2, <2>1, <2>2, <2>3
<1>3. ASSUME NEW t \in Txns, Step(t)
      PROVE  PhaseOK'
  <2>0. pc[t] \in Executing \cup {"ask"} => asked[t] \in Runs
    BY DEF PhaseOK
  <2>1. CASE Question(t)
    BY <2>0, <2>1, PhaseOne DEF Question, Goto, Executing
  <2>2. CASE CheckFree(t)
    BY <2>0, <2>2, PhaseOne DEF CheckFree, Goto, Executing, writes
  <2>3. CASE InsertAttempt(t)
    <3>1. /\ \E stage \in {"commit", "run"} : pc' = [pc EXCEPT ![t] = stage]
          /\ asked' = asked /\ staged' = staged
          /\ asked[t] \in Runs
      BY <2>0, <2>3 DEF InsertAttempt, Goto, Executing
    <3> QED
      BY <3>1, PhaseOne
  <2>4. ASSUME t \in Workers, NEW row, PutBack(t, row)
        PROVE  PhaseOK'
    <3>1. /\ pc' = [pc EXCEPT ![t] = "claim"]
          /\ \A s \in Txns \ {t} : asked'[s] = asked[s] /\ staged'[s] = staged[s]
      BY <2>4 DEF PutBack, Goto, TypeOK
    <3> QED
      BY <1>0, <2>4, <3>1, PhaseOne DEF Executing
  <2>5. CASE RunPipeline(t)
    <3>1. CASE t \in Workers
      BY <2>4, <2>5, <3>1 DEF RunPipeline
    <3>2. CASE t \notin Workers
      BY <2>5, <3>2, PhaseOne DEF RunPipeline, Goto, Executing
    <3> QED
      BY <3>1, <3>2
  <2>6. CASE CheckLive(t)
    <3>1. CASE t \in Callers
      BY <2>6, <3>1, PhaseEnd DEF CheckLive, RollBack
    <3>2. CASE t \notin Callers
      BY <2>4, <2>6, <3>2 DEF CheckLive, Txns
    <3> QED
      BY <3>1, <3>2
  <2>7. CASE InsertRefused(t) \/ PipelineRaises(t) \/ Commit(t)
    BY <2>7, PhaseEnd DEF InsertRefused, PipelineRaises, Commit, RollBack
  <2> QED
    BY <1>3, <2>1, <2>2, <2>3, <2>5, <2>6, <2>7 DEF Step
<1>4. ASSUME NEW t \in Txns, Crash(t) \/ DeadlockVictim(t)
      PROVE  PhaseOK'
  BY <1>4, PhaseEnd DEF Crash, DeadlockVictim, RollBack
<1>5. CASE RetryDelayEnds
  <2>1. /\ UNCHANGED <<pc, asked>>
        /\ staged' = [t \in Txns |-> [j \in JobIds |-> Later(staged[t][j])]]
    BY <1>5 DEF RetryDelayEnds
  <2>2. \A t \in Txns : staged[t] = NoWrites => staged'[t] = NoWrites
    BY <2>1 DEF NoWrites, Later
  <2> QED
    BY <2>1, <2>2 DEF PhaseOK
<1>6. CASE UNCHANGED vars
  BY <1>6 DEF PhaseOK, vars, writes
<1> QED
  BY <1>1, <1>2, <1>3, <1>4, <1>5, <1>6 DEF Next, WorkerStep, Txns
QueueInv == JobAtHand /\ RowsHeld /\ Budgets

\* Statements that leave the rows alone, and a worker at its job or without one.
LEMMA QueueQuiet ==
    ASSUME QueueInv, UNCHANGED <<jobs, staged, job>>,
           \A w \in Workers : pc'[w] \in Executing <=> pc[w] \in Executing
    PROVE  QueueInv'
<1>1. JobAtHand'
  BY DEF QueueInv, JobAtHand
<1>2. RowsHeld'
  BY DEF QueueInv, RowsHeld
<1>3. Budgets'
  BY DEF QueueInv, Budgets
<1> QED
  BY <1>1, <1>2, <1>3 DEF QueueInv

\* A rollback lets go of the rows.
LEMMA QueueRollBack ==
    ASSUME TypeOK, QueueInv, NEW t \in Txns, NEW how, RollBack(t, how)
    PROVE  QueueInv'
<1> USE DEF QueueInv
<1>1. jobs' = jobs /\ End(t, IF t \in Workers THEN "idle" ELSE "done", how)
  BY DEF RollBack, tables
<1>2. \A s \in Txns, j \in JobIds :
        /\ staged'[s][j] = IF s = t THEN Nothing ELSE staged[s][j]
  BY <1>1, Ended DEF NoWrites
<1>3. JobAtHand'
  <2> SUFFICES ASSUME NEW w \in Workers
               PROVE  /\ job'[w] # Nothing <=> pc'[w] \in Executing
                      /\ job'[w] # Nothing => staged'[w][job'[w]] # Nothing
                      /\ \A j \in JobIds : staged'[w][j] # Nothing =>
                            (staged'[w][j].status = "RUNNING" <=> j = job'[w])
    BY DEF JobAtHand
  <2>0. w \in Txns
    BY DEF Txns
  <2>1. CASE w = t
    BY <1>1, <1>2, <2>1, Ended DEF Executing
  <2>2. CASE w # t
    <3>1. job'[w] = job[w] /\ pc'[w] = pc[w] /\ staged'[w] = staged[w]
      BY <1>1, <2>0, <2>2, Ended
    <3> QED
      BY <3>1 DEF JobAtHand
  <2> QED
    BY <2>1, <2>2
<1>4. RowsHeld'
  BY <1>1, <1>2 DEF RowsHeld
<1>5. Budgets'
  BY <1>1, <1>2 DEF Budgets
<1> QED
  BY <1>3, <1>4, <1>5

\* A commit publishes rows that nobody else has, and none that is RUNNING.
LEMMA QueueCommit ==
    ASSUME TypeOK, PhaseOK, QueueInv, NEW t \in Txns, Commit(t)
    PROVE  QueueInv'
<1> USE DEF QueueInv
<1>1. End(t, IF t \in Workers THEN "idle" ELSE "done", "committed")
  BY DEF Commit
<1>2. \A s \in Txns, j \in JobIds :
        /\ staged'[s][j] = IF s = t THEN Nothing ELSE staged[s][j]
  BY <1>1, Ended DEF NoWrites
<1>3. \A j \in JobIds : jobs'[j] = IF staged[t][j] = Nothing THEN jobs[j] ELSE staged[t][j]
  BY DEF Commit, RowOf
<1>4. \A j \in JobIds : staged[t][j] # Nothing => staged[t][j].status # "RUNNING"
  <2>1. CASE t \in Workers
    <3>1. job[t] = Nothing
      BY <2>1 DEF Commit, JobAtHand, Executing
    <3>2. Nothing \notin JobIds
      BY JobsAssumption
    <3> QED
      BY <2>1, <3>1, <3>2 DEF JobAtHand
  <2>2. CASE t \in Callers
    BY <2>2 DEF PhaseOK, NoWrites
  <2> QED
    BY <2>1, <2>2 DEF Txns
<1>5. JobAtHand'
  <2> SUFFICES ASSUME NEW w \in Workers
               PROVE  /\ job'[w] # Nothing <=> pc'[w] \in Executing
                      /\ job'[w] # Nothing => staged'[w][job'[w]] # Nothing
                      /\ \A j \in JobIds : staged'[w][j] # Nothing =>
                            (staged'[w][j].status = "RUNNING" <=> j = job'[w])
    BY DEF JobAtHand
  <2>0. w \in Txns
    BY DEF Txns
  <2>1. CASE w = t
    BY <1>1, <1>2, <2>1, Ended DEF Executing
  <2>2. CASE w # t
    <3>1. job'[w] = job[w] /\ pc'[w] = pc[w] /\ staged'[w] = staged[w]
      BY <1>1, <2>0, <2>2, Ended
    <3> QED
      BY <3>1 DEF JobAtHand
  <2> QED
    BY <2>1, <2>2
<1>6. RowsHeld'
  BY <1>2, <1>3 DEF RowsHeld
<1>7. Budgets'
  BY <1>2, <1>3, <1>4 DEF Budgets
<1> QED
  BY <1>5, <1>6, <1>7

LEMMA QueueClaim ==
    ASSUME TypeOK, QueueInv, NEW w \in Workers, ClaimJob(w)
    PROVE  QueueInv'
<1> USE DEF QueueInv
<1>0. w \in Txns
  BY DEF Txns
<1>1. PICK j \in Claimable(w) :
        /\ staged' = [staged EXCEPT ![w][j] = Claimed(RowOf(w, j))]
        /\ job' = [job EXCEPT ![w] = j]
  BY DEF ClaimJob
<1>2. /\ j \in JobIds
      /\ Claimed(RowOf(w, j)) # Nothing
      /\ Claimed(RowOf(w, j)).status = "RUNNING"
      /\ WithinBudget(Claimed(RowOf(w, j)))
  BY ClaimableRow, JobsAssumption
<1>3. /\ job[w] = Nothing
      /\ pc' = [pc EXCEPT ![w] = "question"]
      /\ jobs' = jobs
  BY DEF ClaimJob, JobAtHand, Executing, Goto, tables
<1>4. /\ jobs[j] # Nothing /\ jobs[j].status = "QUEUED"
      /\ \A s \in Txns \ {w} : staged[s][j] = Nothing
  BY <1>0, <1>2 DEF Claimable, RowOf, HeldByAnother, RowsHeld
<1>5. \A s \in Txns, i \in JobIds :
        staged'[s][i] = IF s = w /\ i = j THEN Claimed(RowOf(w, j)) ELSE staged[s][i]
  BY <1>0, <1>1, <1>2 DEF TypeOK
<1>6. \A v \in Workers : job'[v] = (IF v = w THEN j ELSE job[v])
                         /\ pc'[v] = IF v = w THEN "question" ELSE pc[v]
  BY <1>1, <1>3 DEF TypeOK, Txns
<1>7. Nothing \notin JobIds
  BY JobsAssumption
<1>8. JobAtHand'
  <2> SUFFICES ASSUME NEW v \in Workers
               PROVE  /\ job'[v] # Nothing <=> pc'[v] \in Executing
                      /\ job'[v] # Nothing => staged'[v][job'[v]] # Nothing
                      /\ \A i \in JobIds : staged'[v][i] # Nothing =>
                            (staged'[v][i].status = "RUNNING" <=> i = job'[v])
    BY DEF JobAtHand
  <2>0. v \in Txns
    BY DEF Txns
  <2>1. CASE v = w
    <3>1. job'[v] = j /\ pc'[v] = "question" /\ j # Nothing
      BY <1>2, <1>6, <1>7, <2>1
    <3>2. \A i \in JobIds : staged[w][i] # Nothing => staged[w][i].status # "RUNNING"
      BY <1>3, <1>7 DEF JobAtHand
    <3> QED
      BY <1>2, <1>5, <2>0, <2>1, <3>1, <3>2 DEF Executing
  <2>2. CASE v # w
    <3>1. job'[v] = job[v] /\ pc'[v] = pc[v] /\ \A i \in JobIds : staged'[v][i] = staged[v][i]
      BY <1>5, <1>6, <2>0, <2>2
    <3>2. job[v] \in JobIds \cup {Nothing}
      BY DEF TypeOK
    <3> QED
      BY <3>1, <3>2 DEF JobAtHand
  <2> QED
    BY <2>1, <2>2
<1>9. RowsHeld'
  BY <1>3, <1>4, <1>5 DEF RowsHeld
<1>10. Budgets'
  BY <1>2, <1>3, <1>5 DEF Budgets
<1> QED
  BY <1>8, <1>9, <1>10

\* The worker writes its job back, done or failed, and is at none.
LEMMA QueuePutBack ==
    ASSUME TypeOK, QueueInv, NEW w \in Workers, pc[w] \in Executing,
           NEW row \in JobRow, row.status # "RUNNING", WithinBudget(row),
           PutBack(w, row), jobs' = jobs
    PROVE  QueueInv'
<1> USE DEF QueueInv
<1>0. w \in Txns
  BY DEF Txns
<1>1. job[w] \in JobIds /\ staged[w][job[w]] # Nothing /\ row # Nothing /\ Nothing \notin JobIds
  BY RowAtHand, JobsAssumption
<1> DEFINE k == job[w]
<1>2. \A s \in Txns, i \in JobIds :
        staged'[s][i] = IF s = w /\ i = k THEN row ELSE staged[s][i]
  BY <1>0, <1>1 DEF TypeOK, PutBack
<1>3. \A v \in Workers : job'[v] = (IF v = w THEN Nothing ELSE job[v])
                         /\ pc'[v] = IF v = w THEN "claim" ELSE pc[v]
  BY DEF TypeOK, PutBack, Goto, Txns
<1> HIDE DEF k
<1>4. JobAtHand'
  <2> SUFFICES ASSUME NEW v \in Workers
               PROVE  /\ job'[v] # Nothing <=> pc'[v] \in Executing
                      /\ job'[v] # Nothing => staged'[v][job'[v]] # Nothing
                      /\ \A i \in JobIds : staged'[v][i] # Nothing =>
                            (staged'[v][i].status = "RUNNING" <=> i = job'[v])
    BY DEF JobAtHand
  <2>0. v \in Txns
    BY DEF Txns
  <2>1. CASE v = w
    <3>1. job'[v] = Nothing /\ pc'[v] = "claim"
      BY <1>3, <2>1
    <3>2. \A i \in JobIds \ {k} : staged[w][i] # Nothing => staged[w][i].status # "RUNNING"
      BY DEF JobAtHand, k
    <3> QED
      BY <1>1, <1>2, <2>0, <2>1, <3>1, <3>2 DEF Executing
  <2>2. CASE v # w
    <3>1. job'[v] = job[v] /\ pc'[v] = pc[v] /\ \A i \in JobIds : staged'[v][i] = staged[v][i]
      BY <1>2, <1>3, <2>0, <2>2
    <3>2. job[v] \in JobIds \cup {Nothing}
      BY DEF TypeOK
    <3> QED
      BY <3>1, <3>2 DEF JobAtHand
  <2> QED
    BY <2>1, <2>2
<1>5. RowsHeld'
  BY <1>0, <1>1, <1>2 DEF RowsHeld, k
<1>6. Budgets'
  BY <1>1, <1>2 DEF Budgets
<1> QED
  BY <1>4, <1>5, <1>6

\* A new job is nobody's.
LEMMA QueueEnqueue ==
    ASSUME TypeOK, QueueInv, NEW c \in Callers, Enqueue(c)
    PROVE  QueueInv'
<1> USE DEF QueueInv
<1>0. c \notin Workers
  BY JobsAssumption
<1>1. PICK r \in questions, j \in JobIds : jobs[j] = Nothing /\ jobs' = [jobs EXCEPT ![j] = NewJob(r)]
  BY DEF Enqueue
<1>2. staged' = staged /\ job' = job /\ \A w \in Workers : pc'[w] = pc[w]
  BY <1>0 DEF Enqueue, Goto, writes, TypeOK, Txns
<1>3. NewJob(r).status = "QUEUED" /\ WithinBudget(NewJob(r))
  <2>1. 0 < MaxAttempts
    BY JobsAssumption
  <2> QED
    BY <2>1 DEF NewJob, WithinBudget
<1>4. \A i \in JobIds : jobs'[i] = IF i = j THEN NewJob(r) ELSE jobs[i]
  BY <1>1 DEF TypeOK
<1>5. JobAtHand'
  BY <1>2 DEF JobAtHand
<1>6. RowsHeld'
  BY <1>1, <1>2, <1>4 DEF RowsHeld
<1>7. Budgets'
  BY <1>2, <1>3, <1>4 DEF Budgets
<1> QED
  BY <1>5, <1>6, <1>7

LEMMA QueueTime ==
    ASSUME TypeOK, QueueInv, RetryDelayEnds
    PROVE  QueueInv'
<1> USE DEF QueueInv
<1>1. /\ \A j \in JobIds : jobs'[j] = Later(jobs[j])
      /\ \A t \in Txns, j \in JobIds : staged'[t][j] = Later(staged[t][j])
      /\ UNCHANGED <<pc, job>>
  BY DEF RetryDelayEnds
<1>2. \A j \in JobIds :
        /\ Later(jobs[j]) = Nothing <=> jobs[j] = Nothing
        /\ jobs[j] # Nothing => /\ Later(jobs[j]).status = jobs[j].status
                                /\ WithinBudget(jobs[j]) => WithinBudget(Later(jobs[j]))
  BY LaterRow DEF TypeOK
<1>3. \A t \in Txns, j \in JobIds :
        /\ Later(staged[t][j]) = Nothing <=> staged[t][j] = Nothing
        /\ staged[t][j] # Nothing =>
              /\ Later(staged[t][j]).status = staged[t][j].status
              /\ WithinBudget(staged[t][j]) => WithinBudget(Later(staged[t][j]))
  BY LaterRow DEF TypeOK
<1>4. JobAtHand'
  <2> SUFFICES ASSUME NEW w \in Workers
               PROVE  /\ job'[w] # Nothing <=> pc'[w] \in Executing
                      /\ job'[w] # Nothing => staged'[w][job'[w]] # Nothing
                      /\ \A j \in JobIds : staged'[w][j] # Nothing =>
                            (staged'[w][j].status = "RUNNING" <=> j = job'[w])
    BY DEF JobAtHand
  <2>1. w \in Txns /\ job'[w] = job[w] /\ pc'[w] = pc[w]
        /\ job[w] \in JobIds \cup {Nothing}
    BY <1>1 DEF Txns, TypeOK
  <2> QED
    BY <1>1, <1>3, <2>1 DEF JobAtHand
<1>5. RowsHeld'
  BY <1>1, <1>2, <1>3 DEF RowsHeld
<1>6. Budgets'
  BY <1>1, <1>2, <1>3 DEF Budgets
<1> QED
  BY <1>4, <1>5, <1>6
LEMMA QueueStep ==
    ASSUME JobsInv, [Next]_vars
    PROVE  QueueInv'
<1> USE DEF JobsInv
<1>0. QueueInv /\ Callers \cap Workers = {}
  BY JobsAssumption DEF QueueInv
<1>1. ASSUME NEW t \in Txns, NEW stage, pc' = [pc EXCEPT ![t] = stage],
             UNCHANGED <<jobs, staged, job>>,
             t \in Workers => (stage \in Executing <=> pc[t] \in Executing)
      PROVE  QueueInv'
  <2>1. \A w \in Workers : pc'[w] \in Executing <=> pc[w] \in Executing
    BY <1>1 DEF TypeOK, Txns
  <2> QED
    BY <1>0, <1>1, <2>1, QueueQuiet
<1>2. ASSUME NEW c \in Callers, Ask(c) \/ Execute(c) \/ Open(c) \/ Enqueue(c)
      PROVE  QueueInv'
  <2>1. CASE Ask(c) \/ Execute(c) \/ Open(c)
    <3>1. /\ UNCHANGED <<jobs, staged, job>>
          /\ \E stage \in {"ask", "question", "check"} : pc' = [pc EXCEPT ![c] = stage]
      BY <2>1 DEF Ask, Execute, Open, BeginCaller, Goto, tables, writes
    <3> QED
      BY <1>0, <1>1, <3>1 DEF Txns
  <2>2. CASE Enqueue(c)
    BY <1>0, <2>2, QueueEnqueue
  <2> QED
    BY <1>2, <2>1, <2>2
<1>3. ASSUME NEW w \in Workers, BeginWork(w) \/ ClaimJob(w) \/ StopClaiming(w)
      PROVE  QueueInv'
  <2>1. CASE BeginWork(w) \/ StopClaiming(w)
    <3>1. /\ UNCHANGED <<jobs, staged, job>>
          /\ \E stage \in {"claim", "commit"} : pc' = [pc EXCEPT ![w] = stage]
          /\ pc[w] \in {"idle", "claim"}
      BY <2>1 DEF BeginWork, StopClaiming, Goto, tables, writes
    <3> QED
      BY <1>1, <3>1 DEF Txns, Executing
  <2>2. CASE ClaimJob(w)
    BY <1>0, <2>2, QueueClaim
  <2> QED
    BY <1>3, <2>1, <2>2
<1>4. ASSUME NEW t \in Txns, Step(t)
      PROVE  QueueInv'
  <2>1. CASE Question(t)
    <3>1. /\ UNCHANGED <<jobs, staged, job>>
          /\ pc' = [pc EXCEPT ![t] = IF pc[t] = "ask" THEN "commit" ELSE "check"]
          /\ pc[t] \in {"ask", "question"}
      BY <2>1 DEF Question, Goto, tables
    <3>2. t \in Workers => pc[t] # "ask"
      BY DEF PhaseOK
    <3> QED
      BY <1>1, <3>1, <3>2 DEF Executing
  <2>2. CASE CheckFree(t)
    BY <1>1, <2>2 DEF CheckFree, Goto, tables, writes, Executing
  <2>3. CASE InsertAttempt(t)
    <3>1. /\ UNCHANGED <<jobs, staged, job>>
          /\ pc' = [pc EXCEPT ![t] = IF t \in opening THEN "commit" ELSE "run"]
          /\ pc[t] = "insert"
          /\ t \in Workers => t \notin opening
      BY <1>0, <2>3 DEF InsertAttempt, Goto, tables, TypeOK
    <3> QED
      BY <1>1, <3>1 DEF Executing
  <2>4. CASE RunPipeline(t)
    <3>1. CASE t \in Workers
      <4>1. /\ pc[t] \in Executing /\ jobs' = jobs
            /\ PutBack(t, Completed(staged[t][job[t]]))
        BY <2>4, <3>1 DEF RunPipeline, tables, Executing
      <4>2. staged[t][job[t]] \in JobRow
        BY <3>1, <4>1, RowAtHand
      <4> QED
        BY <1>0, <3>1, <4>1, <4>2, CompletedRow, QueuePutBack
    <3>2. CASE t \notin Workers
      BY <1>1, <2>4, <3>2 DEF RunPipeline, Goto, tables
    <3> QED
      BY <3>1, <3>2
  <2>5. CASE CheckLive(t)
    <3>1. CASE t \in Callers
      BY <1>0, <2>5, <3>1, QueueRollBack DEF CheckLive
    <3>2. CASE t \notin Callers
      <4>0. t \in Workers
        BY <3>2 DEF Txns
      <4>1. /\ pc[t] \in Executing /\ jobs' = jobs
            /\ PutBack(t, Failed(staged[t][job[t]]))
        BY <2>5, <3>2 DEF CheckLive, tables, Executing
      <4>2. staged[t][job[t]] \in JobRow
        BY <4>0, <4>1, RowAtHand
      <4>3. Failed(staged[t][job[t]]).status # "RUNNING"
        BY <4>2, FailedRow
      <4> QED
        BY <1>0, <4>0, <4>1, <4>2, <4>3, FailedRow, QueuePutBack
    <3> QED
      BY <3>1, <3>2
  <2>6. CASE InsertRefused(t) \/ PipelineRaises(t)
    BY <1>0, <2>6, QueueRollBack DEF InsertRefused, PipelineRaises
  <2>7. CASE Commit(t)
    BY <1>0, <2>7, QueueCommit
  <2> QED
    BY <1>4, <2>1, <2>2, <2>3, <2>4, <2>5, <2>6, <2>7 DEF Step
<1>5. ASSUME NEW t \in Txns, Crash(t) \/ DeadlockVictim(t)
      PROVE  QueueInv'
  BY <1>0, <1>5, QueueRollBack DEF Crash, DeadlockVictim
<1>6. CASE RetryDelayEnds
  BY <1>0, <1>6, QueueTime
<1>7. CASE UNCHANGED vars
  BY <1>0, <1>7, QueueQuiet DEF vars, tables, writes
<1> QED
  BY <1>2, <1>3, <1>4, <1>5, <1>6, <1>7 DEF Next, WorkerStep, Txns

-----------------------------------------------------------------------------
(***************************************************************************)
(* The numbers: attempts of a question, and the one about to be inserted.  *)
(***************************************************************************)

\* The next number keeps attempts in order, once none of them is live.
LEMMA OrderAppend ==
    ASSUME NEW S \in SUBSET Attempt, InOrder(S), \A a \in S : ~IsLive(a),
           NEW b \in Attempt, b.number # 0,
           b.number = 1 \/ \E a \in S : a.number = b.number - 1,
           \A a \in S : a.number # b.number
    PROVE  /\ InOrder(S \cup {b})
           /\ b \notin S
           /\ \A a \in S : a.number < b.number
<1>1. PICK k \in Nat : {a.number : a \in S} = 1..k
  BY DEF InOrder
<1>2. b.number \in Nat /\ \A a \in S : a.number \in Nat
  BY DEF Attempt
<1>3. b.number - 1 \in 0..k /\ b.number \notin 1..k
  BY <1>1, <1>2
<1>4. b.number = k + 1
  BY <1>2, <1>3
<1>5. \A a \in S : a.number \in 1..k
  BY <1>1
<1>6. \A a \in S : a.number < b.number
  BY <1>4, <1>5
<1>7. {a.number : a \in S \cup {b}} = 1..(k + 1)
  <2>1. {a.number : a \in S \cup {b}} = (1..k) \cup {k + 1}
    BY <1>1, <1>4
  <2> QED
    BY <2>1
<1>8. InOrder(S \cup {b})
  <2>1. \E n \in Nat : {a.number : a \in S \cup {b}} = 1..n
    BY <1>7
  <2>2. \A a, c \in S \cup {b} : a.number = c.number => a = c
    BY <1>2, <1>6 DEF InOrder
  <2>3. \A a, c \in S \cup {b} : IsLive(a) => c.number <= a.number
    BY <1>2, <1>6
  <2> QED
    BY <2>1, <2>2, <2>3 DEF InOrder
<1> QED
  BY <1>6, <1>8

\* So does finishing one of them.
LEMMA OrderFinish ==
    ASSUME NEW S \in SUBSET Attempt, InOrder(S), NEW a \in S, NEW b \in Attempt,
           b.number = a.number, ~IsLive(b)
    PROVE  /\ InOrder((S \ {a}) \cup {b})
           /\ b \in S => b = a
<1> DEFINE T == (S \ {a}) \cup {b}
<1>1. {c.number : c \in T} = {c.number : c \in S}
  OBVIOUS
<1>2. \A c, d \in T : c.number = d.number => c = d
  BY DEF InOrder
<1>3. \A c, d \in T : IsLive(c) => d.number <= c.number
  BY DEF InOrder
<1> QED
  BY <1>1, <1>2, <1>3 DEF InOrder
\* Whoever is about to insert keeps the number and the question it has read.
LEMMA NumbersQuiet ==
    ASSUME NumbersOK, UNCHANGED <<attempts, newTries>>,
           \A t \in Txns : pc'[t] = "insert" =>
              /\ pc[t] = "insert" /\ number'[t] = number[t]
              /\ Target(t)' = Target(t)
    PROVE  NumbersOK'
<1>1. \A t, r : SeenOf(t, r)' = SeenOf(t, r) /\ OwnOf(t, r)' = OwnOf(t, r)
  BY DEF SeenOf, OwnOf
<1>2. \A r : CommittedOf(r)' = CommittedOf(r)
  BY DEF CommittedOf
<1>3. ASSUME NEW t \in Txns, pc'[t] = "insert"
      PROVE  NumberRead(t)'
  BY <1>1, <1>3 DEF NumbersOK, NumberRead
<1>4. \A S : InOrder(S)' <=> InOrder(S)
  BY DEF InOrder, IsLive
<1> QED
  BY <1>1, <1>2, <1>3 DEF NumbersOK, InOrder, IsLive

\* The question of a transaction depends on what it has at hand only.
LEMMA SameTarget ==
    ASSUME NEW s, pc'[s] = pc[s], asked'[s] = asked[s], s \in opening' <=> s \in opening
    PROVE  Target(s)' = Target(s)
  BY DEF Target, ExecutedFor

\* A transaction that ends without its attempts leaves the committed ones, in
\* order.
LEMMA NumbersRollBack ==
    ASSUME TypeOK, NumbersOK, NEW t \in Txns, NEW how, RollBack(t, how)
    PROVE  NumbersOK'
<1>1. attempts' = attempts /\ End(t, IF t \in Workers THEN "idle" ELSE "done", how)
  BY DEF RollBack, tables
<1>2. /\ newTries'[t] = {} /\ pc'[t] # "insert"
      /\ \A s \in Txns \ {t} : /\ newTries'[s] = newTries[s] /\ pc'[s] = pc[s]
                               /\ number'[s] = number[s] /\ Target(s)' = Target(s)
  BY <1>1, Ended, SameTarget
<1>3. \A r : CommittedOf(r)' = CommittedOf(r) /\ SeenOf(t, r)' = CommittedOf(r)
             /\ OwnOf(t, r)' = {}
  BY <1>1, <1>2 DEF CommittedOf, SeenOf, OwnOf
<1>4. \A s \in Txns \ {t} : \A r : SeenOf(s, r)' = SeenOf(s, r) /\ OwnOf(s, r)' = OwnOf(s, r)
  BY <1>1, <1>2 DEF SeenOf, OwnOf
<1>5. ASSUME NEW s \in Txns, pc'[s] = "insert"
      PROVE  NumberRead(s)'
  <2>1. s # t /\ pc[s] = "insert"
    BY <1>2, <1>5
  <2> QED
    BY <1>2, <1>4, <2>1 DEF NumbersOK, NumberRead
<1>6. /\ \A r \in Runs : InOrder(CommittedOf(r)')
      /\ \A s \in Txns, r \in Runs : InOrder(SeenOf(s, r)')
  BY <1>3, <1>4 DEF NumbersOK
<1>7. \A s \in Txns : newTries'[s] \cap attempts' = {}
  BY <1>1, <1>2 DEF NumbersOK
<1>8. \A s, u \in Txns, r \in Runs : OwnOf(s, r)' # {} /\ OwnOf(u, r)' # {} => s = u
  BY <1>3, <1>4 DEF NumbersOK
<1> QED
  BY <1>5, <1>6, <1>7, <1>8 DEF NumbersOK, InOrder, IsLive

\* A commit adds attempts to the questions that nobody else has attempts of,
\* so what the others see, and have read, stays in order.
LEMMA NumbersCommit ==
    ASSUME TypeOK, PhaseOK, NumbersOK, NEW t \in Txns, Commit(t)
    PROVE  NumbersOK'
<1>1. attempts' = attempts \cup newTries[t]
      /\ End(t, IF t \in Workers THEN "idle" ELSE "done", "committed")
  BY DEF Commit
<1>2. /\ newTries'[t] = {} /\ pc'[t] # "insert"
      /\ \A s \in Txns \ {t} : /\ newTries'[s] = newTries[s] /\ pc'[s] = pc[s]
                               /\ number'[s] = number[s] /\ Target(s)' = Target(s)
  BY <1>1, Ended, SameTarget
<1>3. \A r : CommittedOf(r)' = SeenOf(t, r) /\ SeenOf(t, r)' = SeenOf(t, r)
             /\ OwnOf(t, r)' = {}
  BY <1>1, <1>2 DEF CommittedOf, SeenOf, OwnOf
<1>4. \A s \in Txns \ {t} : \A r : OwnOf(s, r)' = OwnOf(s, r)
  BY <1>2 DEF OwnOf
<1>5. ASSUME NEW s \in Txns \ {t}, NEW r \in Runs
      PROVE  /\ OwnOf(s, r) = {} => SeenOf(s, r)' = SeenOf(t, r)
             /\ OwnOf(s, r) # {} => SeenOf(s, r)' = SeenOf(s, r)
             /\ SeenOf(s, r) \subseteq SeenOf(s, r)'
  <2>1. CASE OwnOf(s, r) = {}
    BY <1>1, <1>2, <2>1 DEF SeenOf, OwnOf
  <2>2. CASE OwnOf(s, r) # {}
    <3>1. OwnOf(t, r) = {}
      BY <2>2 DEF NumbersOK
    <3> QED
      BY <1>1, <1>2, <2>2, <3>1 DEF SeenOf, OwnOf
  <2> QED
    BY <2>1, <2>2
<1>6. ASSUME NEW s \in Txns, pc'[s] = "insert"
      PROVE  NumberRead(s)'
  <2>1. s \in Txns \ {t} /\ pc[s] = "insert" /\ NumberRead(s)
    BY <1>2, <1>6 DEF NumbersOK
  <2>2. PICK q \in Runs : Target(s) = q
    BY <2>1, TargetType DEF Executing
  <2>3. number'[s] = number[s] /\ Target(s)' = q /\ OwnOf(s, q)' = OwnOf(s, q)
    BY <1>2, <1>4, <2>1, <2>2
  <2>4. SeenOf(s, q) \subseteq SeenOf(s, q)'
        /\ (OwnOf(s, q) # {} => SeenOf(s, q)' = SeenOf(s, q))
    BY <1>5, <2>1
  <2> QED
    BY <2>1, <2>2, <2>3, <2>4 DEF NumberRead, IsLive
<1>7. /\ \A r \in Runs : InOrder(CommittedOf(r)')
      /\ \A s \in Txns, r \in Runs : InOrder(SeenOf(s, r)')
  BY <1>3, <1>5 DEF NumbersOK
<1>8. \A s \in Txns : newTries'[s] \cap attempts' = {}
  <2> SUFFICES ASSUME NEW s \in Txns \ {t}, NEW a \in newTries[s]
               PROVE  a \notin attempts'
    BY <1>2
  <2>1. a \in Attempt /\ a.run \in Runs
    <3>1. newTries \in [Txns -> SUBSET Attempt]
      BY DEF TypeOK
    <3> QED
      BY <3>1 DEF Attempt
  <2>2. a \notin newTries[t]
    BY <2>1 DEF NumbersOK, OwnOf
  <2> QED
    BY <1>1, <2>2 DEF NumbersOK
<1>9. \A s, u \in Txns, r \in Runs : OwnOf(s, r)' # {} /\ OwnOf(u, r)' # {} => s = u
  BY <1>3, <1>4 DEF NumbersOK
<1> QED
  BY <1>6, <1>7, <1>8, <1>9 DEF NumbersOK, InOrder, IsLive

\* start_attempt reads the last number while no attempt is live.
LEMMA NumbersCheck ==
    ASSUME TypeOK, PhaseOK, NumbersOK, NEW t \in Txns, CheckFree(t)
    PROVE  NumbersOK'
<1> DEFINE r == Target(t)
<1>1. /\ number' = [number EXCEPT ![t] = NextNumber(t, r)]
      /\ pc' = [pc EXCEPT ![t] = "insert"] /\ pc[t] = "check"
      /\ UNCHANGED <<attempts, newTries, asked, opening>>
  BY DEF CheckFree, Goto, tables, writes
<1>2. r \in Runs
  BY <1>1, TargetType DEF Executing
<1>3. Target(t)' = r
  BY <1>1 DEF Target, ExecutedFor, TypeOK
<1>4. \A s, q : SeenOf(s, q)' = SeenOf(s, q) /\ OwnOf(s, q)' = OwnOf(s, q)
                /\ CommittedOf(q)' = CommittedOf(q)
  BY <1>1 DEF SeenOf, OwnOf, CommittedOf
<1>5. /\ NextNumber(t, r) # 0
      /\ NextNumber(t, r) = 1 \/ \E a \in SeenOf(t, r) : a.number = NextNumber(t, r) - 1
      /\ \A a \in SeenOf(t, r) : a.number < NextNumber(t, r)
  BY <1>2, NextIsFree DEF NumbersOK
<1>6. number'[t] = NextNumber(t, r)
  BY <1>1 DEF TypeOK
<1>7. \A a \in OwnOf(t, r) : ~IsLive(a)
  BY DEF CheckFree, OwnOf, SeenOf
<1> HIDE DEF r
<1>8. NumberRead(t)'
  BY <1>3, <1>4, <1>5, <1>6, <1>7 DEF NumberRead, IsLive
<1>9. ASSUME NEW s \in Txns \ {t}, pc'[s] = "insert"
      PROVE  NumberRead(s)'
  <2>1. pc'[s] = pc[s] /\ number'[s] = number[s]
    BY <1>1 DEF TypeOK
  <2>2. Target(s)' = Target(s)
    BY <1>1, <2>1, SameTarget
  <2> QED
    BY <1>4, <1>9, <2>1, <2>2 DEF NumbersOK, NumberRead, IsLive
<1>10. \A s \in Txns : newTries'[s] \cap attempts' = {}
  BY <1>1 DEF NumbersOK
<1> QED
  BY <1>4, <1>8, <1>9, <1>10 DEF NumbersOK, InOrder, IsLive
\* The insert that nothing stands in the way of takes the next number: a number
\* that somebody committed meanwhile would have collided.
LEMMA NumbersInsert ==
    ASSUME TypeOK, PhaseOK, NumbersOK, NEW t \in Txns, InsertAttempt(t)
    PROVE  NumbersOK'
<1>1. PICK r \in Runs : r = Target(t)
  BY TargetType DEF InsertAttempt, Executing
<1>2. PICK b \in Attempt : b = Opened(t) /\ b.run = r /\ b.number = number[t]
  BY <1>1, OpenedType DEF InsertAttempt, Executing, Opened
<1>3. /\ newTries' = [newTries EXCEPT ![t] = @ \cup {b}]
      /\ \E stage \in {"commit", "run"} : pc' = [pc EXCEPT ![t] = stage]
      /\ UNCHANGED <<attempts, asked, opening, number>>
  BY <1>2 DEF InsertAttempt, Opened, Goto, tables
<1>4. NumberRead(t) /\ InOrder(SeenOf(t, r)) /\ SeenOf(t, r) \subseteq Attempt
  BY SeenType DEF NumbersOK, InsertAttempt
<1>5. \A s \in Txns \ {t} : OwnOf(s, r) = {}
  BY <1>1 DEF InsertAttempt, AttemptHolders, OwnOf
<1>6. \A a \in attempts : a.run = r => ~IsLive(a) /\ a.number # b.number
  BY <1>1, <1>2 DEF InsertAttempt, Collisions
<1>7. /\ \A a \in SeenOf(t, r) : ~IsLive(a) /\ a.number # b.number
      /\ b.number # 0
      /\ b.number = 1 \/ \E a \in SeenOf(t, r) : a.number = b.number - 1
  <2>1. ASSUME NEW a \in SeenOf(t, r)
        PROVE  ~IsLive(a) /\ a.number # b.number
    <3>1. CASE a \in attempts
      BY <1>6, <2>1, <3>1 DEF SeenOf
    <3>2. CASE a \in OwnOf(t, r)
      <4>1. a.number < b.number /\ ~IsLive(a)
        BY <1>1, <1>2, <1>4, <3>2 DEF NumberRead
      <4>2. a.number \in Nat /\ b.number \in Nat
        BY <1>4 DEF Attempt
      <4> QED
        BY <4>1, <4>2
    <3> QED
      BY <3>1, <3>2 DEF SeenOf, OwnOf
  <2> QED
    BY <1>1, <1>2, <1>4, <2>1 DEF NumberRead
<1>8. InOrder(SeenOf(t, r) \cup {b}) /\ b \notin SeenOf(t, r)
  BY <1>4, <1>7, OrderAppend
<1>9. \A s \in Txns : newTries'[s] = IF s = t THEN newTries[s] \cup {b} ELSE newTries[s]
  BY <1>3 DEF TypeOK
<1>10. /\ \A q : CommittedOf(q)' = CommittedOf(q)
       /\ \A s \in Txns : \A q : s # t \/ q # r =>
             SeenOf(s, q)' = SeenOf(s, q) /\ OwnOf(s, q)' = OwnOf(s, q)
       /\ SeenOf(t, r)' = SeenOf(t, r) \cup {b}
  <2>1. \A q : CommittedOf(q)' = CommittedOf(q)
    BY <1>3 DEF CommittedOf
  <2>2. ASSUME NEW s \in Txns, NEW q, s # t \/ q # r
        PROVE  SeenOf(s, q)' = SeenOf(s, q) /\ OwnOf(s, q)' = OwnOf(s, q)
    BY <1>2, <1>3, <1>9, <2>2 DEF SeenOf, OwnOf
  <2>3. SeenOf(t, r)' = SeenOf(t, r) \cup {b}
    BY <1>2, <1>3, <1>9 DEF SeenOf
  <2> QED
    BY <2>1, <2>2, <2>3
<1>11. /\ \A q \in Runs : InOrder(CommittedOf(q)')
       /\ \A s \in Txns, q \in Runs : InOrder(SeenOf(s, q)')
  BY <1>8, <1>10 DEF NumbersOK
<1>12. \A s \in Txns : newTries'[s] \cap attempts' = {}
  <2>1. b \notin attempts
    BY <1>2, <1>8 DEF SeenOf
  <2> QED
    BY <1>3, <1>9, <2>1 DEF NumbersOK
<1>13. \A s, u \in Txns, q \in Runs : OwnOf(s, q)' # {} /\ OwnOf(u, q)' # {} => s = u
  BY <1>5, <1>10 DEF NumbersOK
<1>14. ASSUME NEW s \in Txns, pc'[s] = "insert"
       PROVE  NumberRead(s)'
  <2>1. s # t /\ pc[s] = "insert" /\ pc'[s] = pc[s]
    BY <1>3, <1>14 DEF TypeOK
  <2>2. number'[s] = number[s] /\ Target(s)' = Target(s)
    BY <1>3, <2>1, SameTarget
  <2> QED
    BY <1>10, <2>1, <2>2 DEF NumbersOK, NumberRead, IsLive
<1> QED
  BY <1>11, <1>12, <1>13, <1>14 DEF NumbersOK, InOrder, IsLive

\* Taking an attempt to its terminal status disturbs no number.
LEMMA NumbersFinish ==
    ASSUME TypeOK, PhaseOK, NumbersOK, NEW t \in Txns, RunPipeline(t)
    PROVE  NumbersOK'
<1>1. PICK a \in newTries[t], status \in {"COMPLETED", "PARTIAL"} :
        newTries' = [newTries EXCEPT ![t] = (@ \ {a}) \cup {[a EXCEPT !.status = status]}]
  BY DEF RunPipeline
<1>2. a \in Attempt /\ a.run \in Runs
  <2>1. newTries \in [Txns -> SUBSET Attempt]
    BY DEF TypeOK
  <2> QED
    BY <2>1 DEF Attempt
<1>3. PICK b \in Attempt : /\ b = [a EXCEPT !.status = status] /\ ~IsLive(b)
                           /\ b.run = a.run /\ b.number = a.number
  BY <1>2, FinishedAttempt
<1>4. PICK r \in Runs : r = a.run
  BY <1>2
<1>5. a \in SeenOf(t, r) /\ SeenOf(t, r) \subseteq Attempt /\ InOrder(SeenOf(t, r))
  BY <1>4, SeenType DEF SeenOf, NumbersOK
<1>6. InOrder((SeenOf(t, r) \ {a}) \cup {b}) /\ (b \in SeenOf(t, r) => b = a)
  BY <1>3, <1>5, OrderFinish
<1>7. a \notin attempts
  BY DEF NumbersOK
<1>8. b \notin attempts
  BY <1>3, <1>4, <1>6, <1>7 DEF SeenOf
<1>9. attempts' = attempts /\ opening' = opening /\ number' = number
  BY DEF RunPipeline, tables
<1>10. \A s \in Txns : newTries'[s] = IF s = t THEN (newTries[s] \ {a}) \cup {b} ELSE newTries[s]
  BY <1>1, <1>3 DEF TypeOK
<1>11. pc'[t] # "insert" /\ \A s \in Txns \ {t} : pc'[s] = pc[s] /\ asked'[s] = asked[s]
  BY DEF RunPipeline, PutBack, Goto, TypeOK
<1>12. /\ \A q : CommittedOf(q)' = CommittedOf(q)
       /\ \A s \in Txns : \A q : s # t \/ q # r =>
             SeenOf(s, q)' = SeenOf(s, q) /\ OwnOf(s, q)' = OwnOf(s, q)
       /\ SeenOf(t, r)' = (SeenOf(t, r) \ {a}) \cup {b}
       /\ a \in OwnOf(t, r)
  <2>1. \A q : CommittedOf(q)' = CommittedOf(q)
    BY <1>9 DEF CommittedOf
  <2>2. ASSUME NEW s \in Txns, NEW q, s # t \/ q # r
        PROVE  SeenOf(s, q)' = SeenOf(s, q) /\ OwnOf(s, q)' = OwnOf(s, q)
    BY <1>3, <1>4, <1>9, <1>10, <2>2 DEF SeenOf, OwnOf
  <2>3. SeenOf(t, r)' = (SeenOf(t, r) \ {a}) \cup {b}
    BY <1>3, <1>4, <1>7, <1>9, <1>10 DEF SeenOf
  <2> QED
    BY <1>4, <2>1, <2>2, <2>3 DEF OwnOf
<1>13. /\ \A q \in Runs : InOrder(CommittedOf(q)')
       /\ \A s \in Txns, q \in Runs : InOrder(SeenOf(s, q)')
  BY <1>6, <1>12 DEF NumbersOK
<1>14. \A s \in Txns : newTries'[s] \cap attempts' = {}
  BY <1>8, <1>9, <1>10 DEF NumbersOK
<1>15. \A s, u \in Txns, q \in Runs : OwnOf(s, q)' # {} /\ OwnOf(u, q)' # {} => s = u
  BY <1>12 DEF NumbersOK
<1>16. ASSUME NEW s \in Txns, pc'[s] = "insert"
       PROVE  NumberRead(s)'
  <2>1. s # t /\ pc[s] = "insert"
    BY <1>11, <1>16
  <2>2. number'[s] = number[s] /\ Target(s)' = Target(s)
    BY <1>9, <1>11, <2>1, SameTarget
  <2> QED
    BY <1>12, <2>1, <2>2 DEF NumbersOK, NumberRead, IsLive
<1> QED
  BY <1>13, <1>14, <1>15, <1>16 DEF NumbersOK, InOrder, IsLive

LEMMA NumbersStep ==
    ASSUME JobsInv, [Next]_vars
    PROVE  NumbersOK'
<1> USE DEF JobsInv
<1>1. ASSUME NEW t \in Txns, NEW stage, pc' = [pc EXCEPT ![t] = stage],
             UNCHANGED <<attempts, newTries>>, stage # "insert",
             \A s \in Txns \ {t} : /\ asked'[s] = asked[s] /\ number'[s] = number[s]
                                   /\ s \in opening' <=> s \in opening
      PROVE  NumbersOK'
  <2>1. ASSUME NEW s \in Txns, pc'[s] = "insert"
        PROVE  pc[s] = "insert" /\ number'[s] = number[s] /\ Target(s)' = Target(s)
    <3>1. s # t /\ pc'[s] = pc[s]
      BY <1>1, <2>1 DEF TypeOK
    <3> QED
      BY <1>1, <2>1, <3>1, SameTarget
  <2> QED
    BY <1>1, <2>1, NumbersQuiet
<1>2. ASSUME NEW c \in Callers, Ask(c) \/ Execute(c) \/ Open(c) \/ Enqueue(c)
      PROVE  NumbersOK'
  <2>1. c \in Txns /\ opening \subseteq Txns
    BY DEF Txns, TypeOK
  <2>2. /\ UNCHANGED <<attempts, newTries, number>>
        /\ \E r : asked' \in {asked, [asked EXCEPT ![c] = r]}
        /\ opening' \in {opening, opening \cup {c}}
        /\ \E stage \in {"ask", "question", "check", "done"} : pc' = [pc EXCEPT ![c] = stage]
    BY <1>2 DEF Ask, Execute, Open, BeginCaller, Enqueue, Goto, tables, writes
  <2>3. \A s \in Txns \ {c} : /\ asked'[s] = asked[s]
                              /\ s \in opening' <=> s \in opening
    BY <2>2 DEF TypeOK
  <2> QED
    BY <1>1, <2>1, <2>2, <2>3
<1>3. ASSUME NEW w \in Workers, BeginWork(w) \/ ClaimJob(w) \/ StopClaiming(w)
      PROVE  NumbersOK'
  <2>1. w \in Txns
    BY DEF Txns
  <2>2. /\ UNCHANGED <<attempts, newTries, number, opening>>
        /\ \E r : asked' \in {asked, [asked EXCEPT ![w] = r]}
        /\ \E stage \in {"claim", "question", "commit"} : pc' = [pc EXCEPT ![w] = stage]
    BY <1>3 DEF BeginWork, ClaimJob, StopClaiming, Goto, tables, writes
  <2>3. \A s \in Txns \ {w} : asked'[s] = asked[s]
    BY <2>2 DEF TypeOK
  <2> QED
    BY <1>1, <2>1, <2>2, <2>3
<1>4. ASSUME NEW t \in Txns, Step(t)
      PROVE  NumbersOK'
  <2>1. CASE Question(t)
    <3>1. /\ UNCHANGED <<attempts, newTries, number, opening, asked>>
          /\ \E stage \in {"commit", "check"} : pc' = [pc EXCEPT ![t] = stage]
      BY <2>1 DEF Question, Goto, tables
    <3> QED
      BY <1>1, <3>1
  <2>2. CASE CheckLive(t)
    <3>1. CASE t \in Callers
      BY <2>2, <3>1, NumbersRollBack DEF CheckLive
    <3>2. CASE t \notin Callers
      <4>1. /\ UNCHANGED <<attempts, newTries, number, opening>>
            /\ asked' = [asked EXCEPT ![t] = Nothing]
            /\ pc' = [pc EXCEPT ![t] = "claim"]
        BY <2>2, <3>2 DEF CheckLive, PutBack, Goto, tables
      <4>2. \A s \in Txns \ {t} : asked'[s] = asked[s]
        BY <4>1 DEF TypeOK
      <4> QED
        BY <1>1, <4>1, <4>2
    <3> QED
      BY <3>1, <3>2
  <2>3. CASE InsertRefused(t) \/ PipelineRaises(t)
    BY <2>3, NumbersRollBack DEF InsertRefused, PipelineRaises
  <2> QED
    BY <1>4, <2>1, <2>2, <2>3, NumbersCheck, NumbersInsert, NumbersFinish, NumbersCommit
       DEF Step
<1>5. ASSUME NEW t \in Txns, Crash(t) \/ DeadlockVictim(t)
      PROVE  NumbersOK'
  BY <1>5, NumbersRollBack DEF Crash, DeadlockVictim
<1>6. CASE RetryDelayEnds \/ UNCHANGED vars
  <2>1. UNCHANGED <<attempts, newTries, number, opening, asked, pc>>
    BY <1>6 DEF RetryDelayEnds, vars, tables, writes
  <2> QED
    BY <2>1, SameTarget, NumbersQuiet
<1> QED
  BY <1>2, <1>3, <1>4, <1>5, <1>6 DEF Next, WorkerStep, Txns
-----------------------------------------------------------------------------
(***************************************************************************)
(* The work: a job and the attempt made for it.                            *)
(***************************************************************************)

IsDone(row) == row # Nothing /\ row.status = "DONE"

AtRun(w, j) == j = job[w] /\ pc[w] = "run"

\* Steps that touch no attempt, finish no job and begin no run.
LEMMA WorkQuiet ==
    ASSUME WorkOK, UNCHANGED <<attempts, newTries>>,
           \A j \in JobIds : IsDone(jobs'[j]) <=> IsDone(jobs[j]),
           \A w \in Workers, j \in JobIds : IsDone(staged'[w][j]) <=> IsDone(staged[w][j]),
           \A w \in Workers, j \in JobIds : AtRun(w, j)' <=> AtRun(w, j)
    PROVE  WorkOK'
<1>1. OneExecutionPerJob'
  BY DEF WorkOK, OneExecutionPerJob, IsDone, IsLive
<1>2. ASSUME NEW w \in Workers, NEW j \in JobIds
      PROVE  Accounted(w, j)'
  <2>1. Accounted(w, j)
    BY DEF WorkOK
  <2> QED
    BY <2>1 DEF Accounted, IsDone, AtRun, OneTerminal, OneLive, MadeFor, IsLive
<1> QED
  BY <1>1, <1>2 DEF WorkOK

LEMMA WorkRollBack ==
    ASSUME TypeOK, WorkOK, NEW t \in Txns, NEW how, RollBack(t, how)
    PROVE  WorkOK'
<1>1. /\ attempts' = attempts /\ jobs' = jobs
      /\ End(t, IF t \in Workers THEN "idle" ELSE "done", how)
  BY DEF RollBack, tables
<1>2. /\ newTries'[t] = {} /\ staged'[t] = NoWrites /\ pc'[t] # "run"
      /\ \A s \in Txns \ {t} : /\ newTries'[s] = newTries[s] /\ pc'[s] = pc[s]
                               /\ staged'[s] = staged[s]
      /\ \A w \in Workers \ {t} : job'[w] = job[w]
  BY <1>1, Ended
<1>3. OneExecutionPerJob'
  BY <1>1 DEF WorkOK, OneExecutionPerJob, IsLive
<1>4. ASSUME NEW w \in Workers, NEW j \in JobIds
      PROVE  Accounted(w, j)'
  <2>1. w \in Txns
    BY DEF Txns
  <2>2. CASE w = t
    <3>1. MadeFor(newTries[w], j)' = {}
      BY <1>2, <2>2 DEF MadeFor
    <3>2. staged'[w][j] = Nothing
      BY <1>2, <2>2 DEF NoWrites
    <3> QED
      BY <1>2, <2>2, <3>1, <3>2 DEF Accounted
  <2>3. CASE w # t
    <3>1. newTries'[w] = newTries[w] /\ pc'[w] = pc[w] /\ staged'[w] = staged[w]
          /\ job'[w] = job[w]
      BY <1>2, <2>1, <2>3
    <3>2. Accounted(w, j)
      BY DEF WorkOK
    <3> QED
      BY <3>1, <3>2 DEF Accounted, OneTerminal, OneLive, MadeFor, IsLive
  <2> QED
    BY <2>2, <2>3
<1>5. ASSUME NEW s \in Txns
      PROVE  newTries'[s] \subseteq newTries[s]
  BY <1>2
<1> QED
  BY <1>3, <1>4, <1>5 DEF WorkOK, Txns

\* A commit publishes a DONE row together with the attempt it stands for, and
\* no attempt with any other row.
LEMMA WorkCommit ==
    ASSUME TypeOK, PhaseOK, QueueInv, WorkOK, NEW t \in Txns, Commit(t)
    PROVE  WorkOK'
<1>1. /\ attempts' = attempts \cup newTries[t] /\ pc[t] = "commit"
      /\ \A j \in JobIds : jobs'[j] = IF staged[t][j] = Nothing THEN jobs[j] ELSE staged[t][j]
      /\ End(t, IF t \in Workers THEN "idle" ELSE "done", "committed")
  BY DEF Commit, RowOf
<1>2. /\ newTries'[t] = {} /\ staged'[t] = NoWrites /\ pc'[t] # "run"
      /\ \A s \in Txns \ {t} : /\ newTries'[s] = newTries[s] /\ pc'[s] = pc[s]
                               /\ staged'[s] = staged[s]
      /\ \A w \in Workers \ {t} : job'[w] = job[w]
  BY <1>1, Ended
<1>3. \A j \in JobIds :
        IF IsDone(jobs[j]) THEN OneTerminal(MadeFor(attempts, j)) ELSE MadeFor(attempts, j) = {}
  BY DEF WorkOK, OneExecutionPerJob, IsDone, OneTerminal, MadeFor
<1>4. \A j \in JobIds : MadeFor(attempts, j)' = MadeFor(attempts, j) \cup MadeFor(newTries[t], j)
  BY <1>1 DEF MadeFor
<1>5. ASSUME NEW j \in JobIds
      PROVE  IF IsDone(jobs'[j]) THEN OneTerminal(MadeFor(attempts, j)')
                                 ELSE MadeFor(attempts, j)' = {}
  <2>1. CASE t \in Callers
    <3>1. MadeFor(newTries[t], j) = {}
      BY <2>1, JobsAssumption DEF WorkOK, MadeFor
    <3>2. staged[t][j] = Nothing
      BY <2>1 DEF PhaseOK, NoWrites
    <3> QED
      BY <1>1, <1>3, <1>4, <3>1, <3>2
  <2>2. CASE t \in Workers
    <3>1. IF IsDone(staged[t][j]) THEN OneTerminal(MadeFor(newTries[t], j))
                                  ELSE MadeFor(newTries[t], j) = {}
      BY <1>1, <2>2 DEF WorkOK, Accounted, IsDone
    <3>2. CASE staged[t][j] = Nothing
      BY <1>1, <1>3, <1>4, <3>1, <3>2 DEF IsDone
    <3>3. CASE staged[t][j] # Nothing
      <4>1. ~IsDone(jobs[j])
        BY <3>3 DEF QueueInv, RowsHeld, IsDone
      <4>2. MadeFor(attempts, j)' = MadeFor(newTries[t], j)
        BY <1>3, <1>4, <4>1
      <4> QED
        BY <1>1, <3>1, <3>3, <4>2
    <3> QED
      BY <3>2, <3>3
  <2> QED
    BY <2>1, <2>2 DEF Txns
<1>6. OneExecutionPerJob'
  BY <1>5 DEF OneExecutionPerJob, IsDone, OneTerminal, MadeFor, IsLive
<1>7. ASSUME NEW w \in Workers, NEW j \in JobIds
      PROVE  Accounted(w, j)'
  <2>1. w \in Txns
    BY DEF Txns
  <2>2. CASE w = t
    <3>1. MadeFor(newTries[w], j)' = {}
      BY <1>2, <2>2 DEF MadeFor
    <3>2. staged'[w][j] = Nothing
      BY <1>2, <2>2 DEF NoWrites
    <3> QED
      BY <1>2, <2>2, <3>1, <3>2 DEF Accounted
  <2>3. CASE w # t
    <3>1. newTries'[w] = newTries[w] /\ pc'[w] = pc[w] /\ staged'[w] = staged[w]
          /\ job'[w] = job[w]
      BY <1>2, <2>1, <2>3
    <3>2. Accounted(w, j)
      BY DEF WorkOK
    <3> QED
      BY <3>1, <3>2 DEF Accounted, OneTerminal, OneLive, MadeFor, IsLive
  <2> QED
    BY <2>2, <2>3
<1>8. \A s \in Txns : newTries'[s] \subseteq newTries[s]
  BY <1>2
<1> QED
  BY <1>6, <1>7, <1>8 DEF WorkOK, Txns

\* The attempt a worker inserts is the one attempt made for its job.
LEMMA WorkInsert ==
    ASSUME TypeOK, PhaseOK, QueueInv, WorkOK, NEW t \in Txns, InsertAttempt(t)
    PROVE  WorkOK'
<1>0. Callers \cap Workers = {} /\ Nothing \notin JobIds
  BY JobsAssumption
<1>1. PICK b : b = Opened(t) /\ IsLive(b) /\ b.job = IF t \in Workers THEN job[t] ELSE Nothing
  <2>1. IsLive(Opened(t))
    BY OpenedType DEF InsertAttempt, Executing
  <2>2. Opened(t).job = IF t \in Workers THEN job[t] ELSE Nothing
    BY DEF Opened
  <2> QED
    BY <2>1, <2>2
<1>2. /\ newTries' = [newTries EXCEPT ![t] = @ \cup {b}]
      /\ pc' = [pc EXCEPT ![t] = IF t \in opening THEN "commit" ELSE "run"]
      /\ UNCHANGED <<attempts, jobs, staged, job>>
      /\ pc[t] = "insert"
  BY <1>1 DEF InsertAttempt, Opened, Goto, tables
<1>3. /\ newTries'[t] = newTries[t] \cup {b}
      /\ \A s \in Txns \ {t} : newTries'[s] = newTries[s] /\ pc'[s] = pc[s]
      /\ pc'[t] = IF t \in opening THEN "commit" ELSE "run"
  BY <1>2 DEF TypeOK
<1>4. OneExecutionPerJob'
  BY <1>2 DEF WorkOK, OneExecutionPerJob, IsLive
<1>5. t \in Workers => b.job \in JobIds /\ ~IsDone(staged[t][b.job]) /\ pc'[t] = "run"
  <2> SUFFICES ASSUME t \in Workers
               PROVE  b.job \in JobIds /\ ~IsDone(staged[t][b.job]) /\ pc'[t] = "run"
    OBVIOUS
  <2>1. b.job = job[t] /\ job[t] \in JobIds /\ staged[t][job[t]].status = "RUNNING"
    BY <1>1, <1>2, RowAtHand DEF QueueInv, Executing
  <2>2. t \notin opening
    BY <1>0 DEF TypeOK
  <2> QED
    BY <1>3, <2>1, <2>2 DEF IsDone
<1>6. ASSUME NEW w \in Workers, NEW j \in JobIds
      PROVE  Accounted(w, j)'
  <2>0. w \in Txns /\ Accounted(w, j)
    BY DEF WorkOK, Txns
  <2>1. CASE w # t
    <3>1. newTries'[w] = newTries[w] /\ pc'[w] = pc[w] /\ staged'[w] = staged[w]
          /\ job'[w] = job[w]
      BY <1>2, <1>3, <2>0, <2>1
    <3> QED
      BY <2>0, <3>1 DEF Accounted, OneTerminal, OneLive, MadeFor, IsLive
  <2>2. CASE w = t /\ j = b.job
    <3>1. MadeFor(newTries[t], j) = {}
      BY <1>2, <1>5, <2>0, <2>2 DEF Accounted, IsDone
    <3>2. MadeFor(newTries'[t], j) = {b}
      BY <1>3, <2>2, <3>1 DEF MadeFor
    <3>3. OneLive(MadeFor(newTries'[t], j))
      BY <1>1, <3>2 DEF OneLive
    <3> QED
      BY <1>1, <1>2, <1>5, <2>2, <3>3 DEF Accounted, IsDone, OneLive, MadeFor, IsLive
  <2>3. CASE w = t /\ j # b.job
    <3>1. MadeFor(newTries'[t], j) = MadeFor(newTries[t], j)
      BY <1>3, <2>3 DEF MadeFor
    <3>2. j # job[t]
      BY <1>1, <2>3
    <3> QED
      BY <1>2, <2>0, <2>3, <3>1, <3>2
         DEF Accounted, OneTerminal, OneLive, MadeFor, IsLive
  <2> QED
    BY <2>1, <2>2, <2>3
<1>7. \A c \in Callers : \A a \in newTries'[c] : a.job = Nothing
  BY <1>0, <1>1, <1>3 DEF WorkOK, Txns
<1>8. \A w \in Workers : \A a \in newTries'[w] : a.job \in JobIds
  BY <1>3, <1>5 DEF WorkOK, Txns
<1> QED
  BY <1>4, <1>6, <1>7, <1>8 DEF WorkOK
\* The pipeline ends the attempt of the job at hand, and the job is DONE with it.
LEMMA WorkFinish ==
    ASSUME TypeOK, PhaseOK, QueueInv, WorkOK, NEW t \in Txns, RunPipeline(t)
    PROVE  WorkOK'
<1>0. Callers \cap Workers = {} /\ Nothing \notin JobIds \cup JobRow
  BY JobsAssumption
<1>1. PICK a \in newTries[t], status \in {"COMPLETED", "PARTIAL"} :
        /\ IsLive(a)
        /\ newTries' = [newTries EXCEPT ![t] = (@ \ {a}) \cup {[a EXCEPT !.status = status]}]
  BY DEF RunPipeline
<1>2. a \in Attempt
  <2>1. newTries \in [Txns -> SUBSET Attempt]
    BY DEF TypeOK
  <2> QED
    BY <2>1
<1>3. PICK b : b = [a EXCEPT !.status = status] /\ ~IsLive(b) /\ b.job = a.job
  BY <1>2, FinishedAttempt
<1>4. /\ newTries'[t] = (newTries[t] \ {a}) \cup {b}
      /\ \A s \in Txns \ {t} : newTries'[s] = newTries[s]
  BY <1>1, <1>3 DEF TypeOK
<1>5. attempts' = attempts /\ jobs' = jobs
  BY DEF RunPipeline, tables
<1>6. OneExecutionPerJob'
  BY <1>5 DEF WorkOK, OneExecutionPerJob, IsLive
<1>7. \A w \in Workers \ {t} : /\ staged'[w] = staged[w] /\ job'[w] = job[w] /\ pc'[w] = pc[w]
                               /\ newTries'[w] = newTries[w]
  BY <1>4 DEF RunPipeline, PutBack, Goto, TypeOK, Txns
<1>8. ASSUME NEW w \in Workers, NEW j \in JobIds
      PROVE  Accounted(w, j)'
  <2>0. w \in Txns /\ Accounted(w, j)
    BY DEF WorkOK, Txns
  <2>1. CASE w # t
    BY <1>7, <2>0, <2>1 DEF Accounted, OneTerminal, OneLive, MadeFor, IsLive
  <2>2. CASE w = t
    <3>1. PutBack(t, Completed(staged[t][job[t]]))
      BY <2>2 DEF RunPipeline
    <3>2. job[t] \in JobIds /\ staged[t][job[t]] \in JobRow
      BY <2>2, RowAtHand DEF RunPipeline, QueueInv, Executing
    <3>3. \A i \in JobIds : staged'[t][i] = IF i = job[t] THEN Completed(staged[t][job[t]])
                                                         ELSE staged[t][i]
      BY <3>1, <3>2 DEF PutBack, TypeOK
    <3>4. pc'[t] = "claim" /\ IsDone(Completed(staged[t][job[t]]))
      BY <1>0, <3>1, <3>2, CompletedRow DEF PutBack, Goto, TypeOK, IsDone
    <3>5. a.job = job[t] /\ MadeFor(newTries[t], a.job) = {a}
      <4>1. a.job \in JobIds /\ Accounted(t, a.job) /\ a \in MadeFor(newTries[t], a.job)
        BY <2>2 DEF WorkOK, MadeFor
      <4>2. ~OneTerminal(MadeFor(newTries[t], a.job))
        BY <1>1, <4>1 DEF OneTerminal
      <4>3. a.job = job[t] /\ OneLive(MadeFor(newTries[t], a.job))
        BY <4>1, <4>2 DEF Accounted
      <4> QED
        BY <4>1, <4>3 DEF OneLive
    <3>6. CASE j = job[t]
      <4>1. MadeFor(newTries'[t], j) = {b}
        BY <1>3, <1>4, <3>5, <3>6 DEF MadeFor
      <4>2. OneTerminal(MadeFor(newTries'[t], j))
        BY <1>3, <4>1 DEF OneTerminal
      <4>3. IsDone(staged'[t][j])
        BY <3>2, <3>3, <3>4, <3>6
      <4> QED
        BY <2>2, <4>2, <4>3 DEF Accounted, IsDone, OneTerminal, MadeFor, IsLive
    <3>7. CASE j # job[t]
      <4>1. MadeFor(newTries'[t], j) = MadeFor(newTries[t], j)
        BY <1>3, <1>4, <3>5, <3>7 DEF MadeFor
      <4>2. staged'[t][j] = staged[t][j]
        BY <3>3, <3>7
      <4> QED
        BY <2>0, <2>2, <3>4, <3>7, <4>1, <4>2
           DEF Accounted, OneTerminal, OneLive, MadeFor, IsLive
    <3> QED
      BY <3>6, <3>7
  <2> QED
    BY <2>1, <2>2
<1>9. \A s \in Txns : \A x \in newTries'[s] : \E y \in newTries[s] : x.job = y.job
  BY <1>3, <1>4
<1> QED
  BY <1>6, <1>8, <1>9 DEF WorkOK, Txns

LEMMA WorkStep ==
    ASSUME JobsInv, [Next]_vars
    PROVE  WorkOK'
<1> USE DEF JobsInv
<1>0. /\ QueueInv /\ Callers \cap Workers = {} /\ Nothing \notin JobIds \cup JobRow
      /\ Callers \subseteq Txns /\ Workers \subseteq Txns
  BY JobsAssumption DEF QueueInv, Txns
<1>1. ASSUME NEW t \in Txns, NEW stage, pc' = [pc EXCEPT ![t] = stage],
             UNCHANGED <<attempts, newTries, jobs, staged, job>>,
             t \in Workers => stage # "run" /\ pc[t] # "run"
      PROVE  WorkOK'
  <2>1. \A w \in Workers : pc'[w] = "run" <=> pc[w] = "run"
    BY <1>0, <1>1 DEF TypeOK
  <2> QED
    BY <1>1, <2>1, WorkQuiet DEF AtRun
<1>2. ASSUME NEW c \in Callers, Ask(c) \/ Execute(c) \/ Open(c) \/ Enqueue(c)
      PROVE  WorkOK'
  <2>1. CASE Ask(c) \/ Execute(c) \/ Open(c)
    <3>1. /\ UNCHANGED <<attempts, newTries, jobs, staged, job>>
          /\ \E stage \in {"ask", "question", "check"} : pc' = [pc EXCEPT ![c] = stage]
      BY <2>1 DEF Ask, Execute, Open, BeginCaller, Goto, tables, writes
    <3> QED
      BY <1>0, <1>1, <3>1
  <2>2. CASE Enqueue(c)
    <3>1. PICK r \in questions, j \in JobIds :
            jobs[j] = Nothing /\ jobs' = [jobs EXCEPT ![j] = NewJob(r)]
      BY <2>2 DEF Enqueue
    <3>2. \A i \in JobIds : IsDone(jobs'[i]) <=> IsDone(jobs[i])
      BY <3>1 DEF TypeOK, IsDone, NewJob
    <3>3. /\ UNCHANGED <<attempts, newTries, staged, job>>
          /\ \A w \in Workers : pc'[w] = pc[w]
      BY <1>0, <2>2 DEF Enqueue, Goto, writes, TypeOK
    <3> QED
      BY <3>2, <3>3, WorkQuiet DEF AtRun
  <2> QED
    BY <1>2, <2>1, <2>2
<1>3. ASSUME NEW w \in Workers, BeginWork(w) \/ ClaimJob(w) \/ StopClaiming(w)
      PROVE  WorkOK'
  <2>1. CASE BeginWork(w) \/ StopClaiming(w)
    <3>1. /\ UNCHANGED <<attempts, newTries, jobs, staged, job>>
          /\ \E stage \in {"claim", "commit"} : pc' = [pc EXCEPT ![w] = stage]
          /\ pc[w] \in {"idle", "claim"}
      BY <2>1 DEF BeginWork, StopClaiming, Goto, tables, writes
    <3> QED
      BY <1>0, <1>1, <3>1
  <2>2. CASE ClaimJob(w)
    <3>1. PICK j \in Claimable(w) :
            /\ staged' = [staged EXCEPT ![w][j] = Claimed(RowOf(w, j))]
            /\ job' = [job EXCEPT ![w] = j]
      BY <2>2 DEF ClaimJob
    <3>2. j \in JobIds /\ ~IsDone(Claimed(RowOf(w, j))) /\ ~IsDone(staged[w][j])
      <4>1. j \in JobIds /\ Claimed(RowOf(w, j)).status = "RUNNING"
            /\ RowOf(w, j).status = "QUEUED"
        BY <1>0, ClaimableRow DEF QueueInv
      <4> QED
        BY <4>1 DEF IsDone, RowOf
    <3>3. \A v \in Workers, i \in JobIds : IsDone(staged'[v][i]) <=> IsDone(staged[v][i])
      BY <1>0, <3>1, <3>2 DEF TypeOK
    <3>4. /\ UNCHANGED <<attempts, newTries, jobs>>
          /\ pc[w] = "claim" /\ pc' = [pc EXCEPT ![w] = "question"]
      BY <2>2 DEF ClaimJob, Goto, tables
    <3>5. \A v \in Workers, i \in JobIds : AtRun(v, i)' <=> AtRun(v, i)
      BY <1>0, <3>1, <3>4 DEF TypeOK, AtRun
    <3> QED
      BY <3>3, <3>4, <3>5, WorkQuiet
  <2> QED
    BY <1>3, <2>1, <2>2
<1>4. ASSUME NEW t \in Txns, Step(t)
      PROVE  WorkOK'
  <2>1. CASE Question(t)
    <3>1. /\ UNCHANGED <<attempts, newTries, jobs, staged, job>>
          /\ \E stage \in {"commit", "check"} : pc' = [pc EXCEPT ![t] = stage]
          /\ pc[t] \in {"ask", "question"}
      BY <2>1 DEF Question, Goto, tables
    <3> QED
      BY <1>1, <3>1
  <2>2. CASE CheckFree(t)
    BY <1>1, <2>2 DEF CheckFree, Goto, tables, writes
  <2>3. CASE CheckLive(t)
    <3>1. CASE t \in Callers
      BY <2>3, <3>1, WorkRollBack DEF CheckLive
    <3>2. CASE t \notin Callers
      <4>1. t \in Workers /\ pc[t] = "check" /\ pc[t] \in Executing
        BY <2>3, <3>2 DEF CheckLive, Txns, Executing
      <4>2. job[t] \in JobIds /\ staged[t][job[t]] \in JobRow
            /\ staged[t][job[t]].status = "RUNNING"
        BY <1>0, <4>1, RowAtHand DEF QueueInv
      <4>3. ~IsDone(Failed(staged[t][job[t]])) /\ ~IsDone(staged[t][job[t]])
        BY <4>2, FailedRow DEF IsDone
      <4>4. /\ PutBack(t, Failed(staged[t][job[t]]))
            /\ UNCHANGED <<attempts, newTries, jobs>>
        BY <2>3, <3>2 DEF CheckLive, tables
      <4>5. \A v \in Workers, i \in JobIds : IsDone(staged'[v][i]) <=> IsDone(staged[v][i])
        BY <1>0, <4>2, <4>3, <4>4 DEF TypeOK, PutBack
      <4>6. \A v \in Workers, i \in JobIds : AtRun(v, i)' <=> AtRun(v, i)
        BY <1>0, <4>1, <4>4 DEF TypeOK, PutBack, Goto, AtRun
      <4> QED
        BY <4>4, <4>5, <4>6, WorkQuiet
    <3> QED
      BY <3>1, <3>2
  <2>4. CASE InsertRefused(t) \/ PipelineRaises(t)
    BY <2>4, WorkRollBack DEF InsertRefused, PipelineRaises
  <2> QED
    BY <1>0, <1>4, <2>1, <2>2, <2>3, <2>4, WorkInsert, WorkFinish, WorkCommit DEF Step
<1>5. ASSUME NEW t \in Txns, Crash(t) \/ DeadlockVictim(t)
      PROVE  WorkOK'
  BY <1>5, WorkRollBack DEF Crash, DeadlockVictim
<1>6. CASE RetryDelayEnds
  <2>1. /\ \A j \in JobIds : jobs'[j] = Later(jobs[j])
        /\ \A t \in Txns, j \in JobIds : staged'[t][j] = Later(staged[t][j])
        /\ UNCHANGED <<attempts, newTries, pc, job>>
    BY <1>6 DEF RetryDelayEnds
  <2>2. \A row \in JobRow \cup {Nothing} : IsDone(Later(row)) <=> IsDone(row)
    BY LaterRow DEF IsDone
  <2>3. /\ \A j \in JobIds : jobs[j] \in JobRow \cup {Nothing}
        /\ \A t \in Txns, j \in JobIds : staged[t][j] \in JobRow \cup {Nothing}
    BY DEF TypeOK
  <2> QED
    BY <1>0, <2>1, <2>2, <2>3, WorkQuiet DEF AtRun
<1>7. CASE UNCHANGED vars
  BY <1>7, WorkQuiet DEF vars, tables, writes, AtRun
<1> QED
  BY <1>2, <1>3, <1>4, <1>5, <1>6, <1>7 DEF Next, WorkerStep, Txns

-----------------------------------------------------------------------------
(***************************************************************************)
(* The theorems.                                                           *)
(***************************************************************************)

LEMMA NoneInOrder == InOrder({})
<1>1. {a.number : a \in {}} = {}
  OBVIOUS
<1>2. 1..0 = {} /\ 0 \in Nat
  OBVIOUS
<1>3. \E k \in Nat : {a.number : a \in {}} = 1..k
  BY <1>1, <1>2
<1> QED
  BY <1>3 DEF InOrder

LEMMA BoundsInit == 0 < MaxAttempts /\ 0 \in 0..MaxCrashes
<1>1. MaxCrashes \in Nat /\ MaxAttempts \in Nat \ {0}
  BY JobsAssumption
<1> QED
  BY <1>1

LEMMA JobsInit == Init => JobsInv
<1> SUFFICES ASSUME Init
             PROVE  JobsInv
  OBVIOUS
<1> USE DEF Init
<1>1. /\ Nothing \notin Runs \cup JobIds \cup JobRow
      /\ AskedBefore \subseteq Runs
      /\ QueuedBefore \in [JobIds -> AskedBefore \cup {Nothing}]
  BY JobsAssumption
<1>a. /\ 0 < MaxAttempts
      /\ 0 \in 0..MaxCrashes /\ 0 \in 0..MaxAttempts /\ 0 \in 0..MaxJobs
  BY Bounds, BoundsInit
<1>2. \A r \in Runs : NewJob(r) \in JobRow
  BY <1>a DEF NewJob, JobRow
<1>3. TypeOK
  <2>1. jobs \in [JobIds -> JobRow \cup {Nothing}]
    BY <1>1, <1>2
  <2>2. staged \in [Txns -> [JobIds -> JobRow \cup {Nothing}]]
    BY DEF NoWrites
  <2> QED
    BY <1>1, <1>a, <2>1, <2>2 DEF TypeOK
<1>4. PhaseOK /\ JobAtHand /\ RowsHeld
  BY DEF PhaseOK, JobAtHand, RowsHeld, Executing, NoWrites, Txns
<1>5. Budgets
  BY <1>1, <1>a DEF Budgets, WithinBudget, NewJob, NoWrites
<1>6. WorkOK
  BY DEF WorkOK, OneExecutionPerJob, Accounted, MadeFor, NewJob, NoWrites, Txns
<1>7. NumbersOK
  <2>1. InOrder({})
    BY NoneInOrder
  <2>2. \A t \in Txns : \A r : CommittedOf(r) = {} /\ SeenOf(t, r) = {} /\ OwnOf(t, r) = {}
    BY DEF CommittedOf, SeenOf, OwnOf
  <2> QED
    BY <2>1, <2>2 DEF NumbersOK, CommittedOf
<1> QED
  BY <1>3, <1>4, <1>5, <1>6, <1>7 DEF JobsInv

LEMMA JobsStep == JobsInv /\ [Next]_vars => JobsInv'
  BY TypeStep, PhaseStep, QueueStep, WorkStep, NumbersStep DEF JobsInv, QueueInv

\* Every part of the invariant holds for ever.
LEMMA JobsInvariant == Spec => []JobsInv
  BY JobsInit, JobsStep, PTL DEF Spec

\* Tables, locks and what every process has at hand keep their types: a job never
\* has more attempts than its budget (jobs.py:50-77), and a number is never read
\* of anything but the attempts of a question.
THEOREM TypeCorrect == Spec => []TypeOK
<1>1. JobsInv => TypeOK
  BY DEF JobsInv
<1> QED
  BY <1>1, JobsInvariant, PTL

\* The numbers of a question's attempts are 1, 2, ... without gap or repeat and
\* only the last can be live, for any number of callers and workers that race for
\* the next one, are refused, die or roll back (start_attempt).
THEOREM NumberingIsSequential == Spec => []AttemptsAreNumbered
<1>1. JobsInv => AttemptsAreNumbered
  <2> SUFFICES ASSUME JobsInv, NEW r \in Runs
               PROVE  /\ NumbersOf(r) = 1..Cardinality({a \in attempts : a.run = r})
                      /\ \A a \in attempts : a.run = r /\ IsLive(a) =>
                            \A n \in NumbersOf(r) : n <= a.number
    BY DEF AttemptsAreNumbered
  <2>1. InOrder(CommittedOf(r)) /\ CommittedOf(r) \in SUBSET Attempt
    BY DEF JobsInv, NumbersOK, TypeOK, CommittedOf
  <2>2. NumbersOf(r) = {a.number : a \in CommittedOf(r)}
    BY DEF NumbersOf, CommittedOf
  <2>3. NumbersOf(r) = 1..Cardinality(CommittedOf(r))
    BY <2>1, <2>2, CountedByNumbers
  <2>4. \A a \in CommittedOf(r) : IsLive(a) => \A n \in NumbersOf(r) : n <= a.number
    BY <2>1, <2>2 DEF InOrder
  <2> QED
    BY <2>3, <2>4 DEF CommittedOf
<1> QED
  BY <1>1, JobsInvariant, PTL

\* A job that was committed DONE has exactly one attempt, and it is terminal; any
\* other has none, whatever died between claiming it and the commit.
THEOREM JobsAndWorkAgree == Spec => []OneExecutionPerJob
<1>1. JobsInv => OneExecutionPerJob
  BY DEF JobsInv, WorkOK
<1> QED
  BY <1>1, JobsInvariant, PTL

\* A job is parked exactly when its budget is spent, and is never left RUNNING.
THEOREM ParkingIsFinal == Spec => []ParkedAtTheLimit
<1>1. JobsInv => ParkedAtTheLimit
  BY DEF JobsInv, Budgets, WithinBudget, ParkedAtTheLimit, TypeOK, JobRow
<1> QED
  BY <1>1, JobsInvariant, PTL
=============================================================================
