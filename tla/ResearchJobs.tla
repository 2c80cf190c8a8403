---------------------------- MODULE ResearchJobs ----------------------------
(***************************************************************************)
(* Who executes a research question, and the queue behind it.              *)
(*                                                                         *)
(* A question (operational_research_runs) is created or reused; each       *)
(* execution of it is an attempt, numbered 1, 2, ...  Executions are asked *)
(* for directly (API, CLI: callers) or queued as jobs that workers claim.  *)
(* A caller is one database transaction.  A worker is one transaction for  *)
(* up to MaxJobs jobs: it claims, executes and completes them, and commits *)
(* it all at the end, so that a job and what it wrote stand or fall        *)
(* together.  A worker that finished starts over.                          *)
(*                                                                         *)
(* The pipeline itself is one step here (see ResearchLedger); this module  *)
(* is about what surrounds it: the check for a live attempt, the number of *)
(* the next one, the unique indexes behind both, SKIP LOCKED, the retry    *)
(* budget of a job, and everything a rollback takes with it.               *)
(***************************************************************************)
EXTENDS Integers, FiniteSets

CONSTANTS
    Runs,         \* research questions that may be asked
    DefaultOf,    \* the question with the same company and vertical and the
                  \* default target attributes and plan inputs
    Raising,      \* questions whose execution ends in an exception
    Callers,      \* transactions of the API and the CLI
    Workers,      \* `research worker` processes
    JobIds,       \* identifiers of jobs
    MaxJobs,      \* jobs a worker claims per transaction (--max-jobs)
    MaxAttempts,  \* MAX_ATTEMPTS of a job
    MaxCrashes,   \* bound on how often a process dies
    AskedBefore,  \* questions that exist at the beginning
    QueuedBefore, \* the jobs that are queued at the beginning: their questions
    Nothing       \* no run, no job, no write

Txns == Callers \cup Workers

Terminal == {"COMPLETED", "PARTIAL", "FAILED"}

\* `asked` and `job` record what an attempt was made for.
Attempt == [run: Runs, number: Nat, status: {"PENDING"} \cup Terminal,
            asked: Runs, job: JobIds \cup {Nothing}]

JobRow == [run: Runs, status: {"QUEUED", "RUNNING", "DONE", "FAILED"},
           attempts: 0..MaxAttempts, due: BOOLEAN]

ASSUME JobsAssumption ==
    /\ DefaultOf \in [Runs -> Runs]
    /\ Raising \subseteq Runs
    /\ Callers \cap Workers = {}
    /\ JobIds \subseteq Nat
    /\ {MaxJobs, MaxAttempts} \subseteq Nat \ {0}
    /\ MaxCrashes \in Nat
    /\ AskedBefore \subseteq Runs
    /\ QueuedBefore \in [JobIds -> AskedBefore \cup {Nothing}]
    /\ Nothing \notin Runs \cup JobIds \cup JobRow

VARIABLES
    questions,  \* operational_research_runs, committed
    attempts,   \* operational_research_attempts, committed
    jobs,       \* discovery_jobs, committed
    pc,         \* the statement a transaction is about to run; "idle", "done"
    ended,      \* how a transaction ended, the last time
    asked,      \* the question an execution was asked for
    opening,    \* callers that open an attempt without executing it
    number,     \* the number the next attempt will take
    job,        \* the job a worker is at
    left,       \* jobs a worker may still claim in this transaction
    newRuns,    \* questions a transaction has inserted
    newTries,   \* attempts a transaction has inserted
    staged,     \* job rows a transaction has locked and written
    crashes     \* processes that died so far

tables == <<questions, attempts, jobs>>
writes == <<newRuns, newTries, staged>>
vars == <<tables, pc, ended, asked, opening, number, job, left, writes, crashes>>

-----------------------------------------------------------------------------
IsActive(t) == pc[t] \notin {"idle", "done"}

\* execute_attempt hands run_pipeline the company and the vertical only.
ExecutedFor(r) == DefaultOf[r]

\* The question a transaction is about to insert or extend.
Target(t) ==
    CASE pc[t] = "ask" \/ t \in opening -> asked[t]
      [] OTHER -> ExecutedFor(asked[t])

IsLive(a) == a.status \notin Terminal

\* The attempts of a question a transaction sees: committed, or its own.
SeenOf(t, r) == {a \in attempts \cup newTries[t] : a.run = r}

NextNumber(t, r) ==
    CHOOSE n \in 1..(Cardinality(SeenOf(t, r)) + 1) :
        /\ \A a \in SeenOf(t, r) : a.number < n
        /\ n = 1 \/ \E a \in SeenOf(t, r) : a.number = n - 1

\* A transaction with an uncommitted attempt of the same question holds an
\* entry of uq_attempt_live until it ends, whatever the attempt's status is.
AttemptHolders(t) ==
    {s \in Txns \ {t} : \E a \in newTries[s] : a.run = Target(t)}

QuestionHolders(t) == {s \in Txns \ {t} : Target(t) \in newRuns[s]}

\* Committed attempts that uq_attempt_number or uq_attempt_live keep the new
\* one from joining.
MutLiveIndexOnly(t) == {a \in attempts : a.run = Target(t) /\ IsLive(a)}
Collisions(t) ==
    {a \in attempts : a.run = Target(t) /\ (IsLive(a) \/ a.number = number[t])}

\* The row of a job as a transaction sees it.
RowOf(t, j) == IF staged[t][j] = Nothing THEN jobs[j] ELSE staged[t][j]

MutHoldsNothing(t, j) == FALSE
HeldByAnother(t, j) == \E s \in Txns \ {t} : staged[s][j] # Nothing

Claimable(w) ==
    {j \in JobIds : /\ RowOf(w, j) # Nothing
                    /\ RowOf(w, j).status = "QUEUED" /\ RowOf(w, j).due
                    /\ ~HeldByAnother(w, j)}

\* What claim, complete and fail make of a job row.
MutOwnWord(row) == [row EXCEPT !.status = "CLAIMED", !.attempts = @ + 1]
Claimed(row) == [row EXCEPT !.status = "RUNNING", !.attempts = @ + 1]

Completed(row) == [row EXCEPT !.status = "DONE"]

MutForgetsBudget(row) == [row EXCEPT !.status = "QUEUED", !.due = FALSE, !.attempts = 0]
MutParksEarly(row) == [row EXCEPT !.status = "FAILED"]
Failed(row) ==
    IF row.attempts >= MaxAttempts
      THEN [row EXCEPT !.status = "FAILED"]
      ELSE [row EXCEPT !.status = "QUEUED", !.due = FALSE]

-----------------------------------------------------------------------------
NoWrites == [j \in JobIds |-> Nothing]

NewJob(r) == [run |-> r, status |-> "QUEUED", attempts |-> 0, due |-> TRUE]

Init ==
    /\ questions = AskedBefore
    /\ attempts = {}
    /\ jobs = [j \in JobIds |-> IF QueuedBefore[j] = Nothing THEN Nothing
                                                           ELSE NewJob(QueuedBefore[j])]
    /\ pc = [t \in Txns |-> "idle"]
    /\ ended = [t \in Txns |-> "not yet"]
    /\ asked = [t \in Txns |-> Nothing]
    /\ opening = {}
    /\ number = [t \in Txns |-> 0]
    /\ job = [w \in Workers |-> Nothing]
    /\ left = [w \in Workers |-> 0]
    /\ newRuns = [t \in Txns |-> {}]
    /\ newTries = [t \in Txns |-> {}]
    /\ staged = [t \in Txns |-> NoWrites]
    /\ crashes = 0

Goto(t, stage) == pc' = [pc EXCEPT ![t] = stage]

\* A transaction is over: what it had at hand is gone.
End(t, stage, how) ==
    /\ Goto(t, stage)
    /\ ended' = [ended EXCEPT ![t] = how]
    /\ asked' = [asked EXCEPT ![t] = Nothing]
    /\ opening' = opening \ {t}
    /\ number' = [number EXCEPT ![t] = 0]
    /\ job' = [w \in Workers |-> IF w = t THEN Nothing ELSE job[w]]
    /\ left' = [w \in Workers |-> IF w = t THEN 0 ELSE left[w]]
    /\ newRuns' = [newRuns EXCEPT ![t] = {}]
    /\ newTries' = [newTries EXCEPT ![t] = {}]
    /\ staged' = [staged EXCEPT ![t] = NoWrites]

Commit(t) ==
    /\ pc[t] = "commit"
    /\ questions' = questions \cup newRuns[t]
    /\ attempts' = attempts \cup newTries[t]
    /\ jobs' = [j \in JobIds |-> RowOf(t, j)]
    /\ End(t, IF t \in Workers THEN "idle" ELSE "done", "committed")
    /\ UNCHANGED crashes

\* A worker loses every job of its transaction, and the attempts it counted
\* on them.
RollBack(t, how) ==
    /\ End(t, IF t \in Workers THEN "idle" ELSE "done", how)
    /\ UNCHANGED tables

-----------------------------------------------------------------------------
(* What callers ask for.                                                    *)

BeginCaller(c, r, stage) ==
    /\ pc[c] = "idle"
    /\ asked' = [asked EXCEPT ![c] = r]
    /\ Goto(c, stage)
    /\ UNCHANGED <<tables, ended, number, job, left, writes, crashes>>

\* create_or_reuse_run.
Ask(c) ==
    /\ \E r \in Runs : BeginCaller(c, r, "ask")
    /\ UNCHANGED opening

\* execute_attempt; retry_attempt is the same on the question of an attempt
\* that is terminal.
Execute(c) ==
    /\ \E r \in questions : BeginCaller(c, r, "question")
    /\ UNCHANGED opening

\* open_attempt: start_attempt, and nothing after it.
Open(c) ==
    /\ \E r \in questions : BeginCaller(c, r, "check")
    /\ opening' = opening \cup {c}

\* enqueue_research, a transaction nothing can be in the way of.
Enqueue(c) ==
    /\ pc[c] = "idle"
    /\ \E r \in questions, j \in {i \in JobIds : jobs[i] = Nothing} :
          jobs' = [jobs EXCEPT ![j] = NewJob(r)]
    /\ Goto(c, "done")
    /\ ended' = [ended EXCEPT ![c] = "committed"]
    /\ UNCHANGED <<questions, attempts, asked, opening, number, job, left, writes, crashes>>

-----------------------------------------------------------------------------
(* The worker's loop.                                                       *)

BeginWork(w) ==
    /\ pc[w] = "idle"
    /\ Goto(w, "claim")
    /\ left' = [left EXCEPT ![w] = MaxJobs]
    /\ ended' = [ended EXCEPT ![w] = "not yet"]
    /\ UNCHANGED <<tables, asked, opening, number, job, writes, crashes>>

\* claim, skipping the rows others hold, in the order of the identifiers.
ClaimJob(w) ==
    /\ pc[w] = "claim" /\ left[w] > 0
    /\ \E j \in Claimable(w) :
          /\ \A i \in Claimable(w) : j <= i
          /\ staged' = [staged EXCEPT ![w][j] = Claimed(RowOf(w, j))]
          /\ job' = [job EXCEPT ![w] = j]
          /\ asked' = [asked EXCEPT ![w] = RowOf(w, j).run]
    /\ left' = [left EXCEPT ![w] = @ - 1]
    /\ Goto(w, "question")
    /\ UNCHANGED <<tables, ended, opening, number, newRuns, newTries, crashes>>

\* Nothing runnable, or enough for one transaction.
StopClaiming(w) ==
    /\ pc[w] = "claim"
    /\ left[w] = 0 \/ Claimable(w) = {}
    /\ Goto(w, "commit")
    /\ UNCHANGED <<tables, ended, asked, opening, number, job, left, writes, crashes>>

\* The worker writes the job at hand back and looks for another.
PutBack(w, row) ==
    /\ staged' = [staged EXCEPT ![w][job[w]] = row]
    /\ job' = [job EXCEPT ![w] = Nothing]
    /\ asked' = [asked EXCEPT ![w] = Nothing]
    /\ Goto(w, "claim")

-----------------------------------------------------------------------------
(* Executing a question.                                                    *)

\* get_or_create_run: insert or reuse; the INSERT waits for a transaction
\* that has inserted the same question.
Question(t) ==
    /\ pc[t] \in {"ask", "question"}
    /\ QuestionHolders(t) = {}
    /\ newRuns' = IF Target(t) \in questions THEN newRuns
                    ELSE [newRuns EXCEPT ![t] = @ \cup {Target(t)}]
    /\ Goto(t, IF pc[t] = "ask" THEN "commit" ELSE "check")
    /\ UNCHANGED <<tables, ended, asked, opening, number, job, left, newTries, staged,
                   crashes>>

\* start_attempt's two queries find no live attempt, and the last number.
CheckFree(t) ==
    /\ pc[t] = "check"
    /\ \A a \in SeenOf(t, Target(t)) : ~IsLive(a)
    /\ number' = [number EXCEPT ![t] = NextNumber(t, Target(t))]
    /\ Goto(t, "insert")
    /\ UNCHANGED <<tables, ended, asked, opening, job, left, writes, crashes>>

\* AttemptAlreadyLiveError: 409 for a caller; a worker fails the job.
CheckLive(t) ==
    /\ pc[t] = "check"
    /\ \E a \in SeenOf(t, Target(t)) : IsLive(a)
    /\ IF t \in Callers
         THEN RollBack(t, "already live")
         ELSE /\ PutBack(t, Failed(staged[t][job[t]]))
              /\ UNCHANGED <<tables, ended, opening, number, left, newRuns, newTries>>
    /\ UNCHANGED crashes

\* INSERT of the attempt, once nobody else is at the same question.
InsertAttempt(t) ==
    /\ pc[t] = "insert"
    /\ AttemptHolders(t) = {} /\ Collisions(t) = {}
    /\ newTries' = [newTries EXCEPT ![t] = @ \cup
          {[run |-> Target(t), number |-> number[t], status |-> "PENDING",
            asked |-> asked[t], job |-> IF t \in Workers THEN job[t] ELSE Nothing]}]
    /\ Goto(t, IF t \in opening THEN "commit" ELSE "run")
    /\ UNCHANGED <<tables, ended, asked, opening, number, job, left, newRuns, staged,
                   crashes>>

\* The IntegrityError of the one that lost, which nobody catches.
InsertRefused(t) ==
    /\ pc[t] = "insert"
    /\ AttemptHolders(t) = {} /\ Collisions(t) # {}
    /\ RollBack(t, "integrity error")
    /\ UNCHANGED crashes

\* run_pipeline takes the attempt to its terminal status; the job is DONE.
RunPipeline(t) ==
    /\ pc[t] = "run"
    /\ Target(t) \notin Raising
    /\ \E a \in newTries[t], status \in {"COMPLETED", "PARTIAL"} :
          /\ IsLive(a)
          /\ newTries' = [newTries EXCEPT ![t] = (@ \ {a}) \cup
                            {[a EXCEPT !.status = status]}]
    /\ IF t \in Workers THEN PutBack(t, Completed(staged[t][job[t]]))
                        ELSE Goto(t, "commit") /\ UNCHANGED <<staged, job, asked>>
    /\ UNCHANGED <<tables, ended, opening, number, left, newRuns, crashes>>

\* Any exception but the two run_worker_once names leaves the transaction.
PipelineRaises(t) ==
    /\ pc[t] = "run"
    /\ Target(t) \in Raising
    /\ RollBack(t, "raised")
    /\ UNCHANGED crashes

-----------------------------------------------------------------------------
(* The environment.                                                         *)

\* The minute a failed job waits for has passed.
Later(row) == IF row = Nothing THEN row ELSE [row EXCEPT !.due = TRUE]

RetryDelayEnds ==
    /\ \E j \in JobIds : jobs[j] # Nothing /\ ~jobs[j].due
    /\ jobs' = [j \in JobIds |-> Later(jobs[j])]
    /\ staged' = [t \in Txns |-> [j \in JobIds |-> Later(staged[t][j])]]
    /\ UNCHANGED <<questions, attempts, pc, ended, asked, opening, number, job, left,
                   newRuns, newTries, crashes>>

Crash(t) ==
    /\ IsActive(t)
    /\ crashes < MaxCrashes
    /\ crashes' = crashes + 1
    /\ RollBack(t, "crashed")

WaitsFor(t) ==
    CASE pc[t] \in {"ask", "question"} -> QuestionHolders(t)
      [] pc[t] = "insert" -> AttemptHolders(t)
      [] OTHER -> {}

DeadlockVictim(t) ==
    /\ \E T \in SUBSET Txns : t \in T /\ \A s \in T : WaitsFor(s) \cap T # {}
    /\ RollBack(t, "deadlock")
    /\ UNCHANGED crashes

-----------------------------------------------------------------------------
Step(t) == \/ Question(t) \/ CheckFree(t) \/ CheckLive(t) \/ InsertAttempt(t)
           \/ InsertRefused(t) \/ RunPipeline(t) \/ PipelineRaises(t) \/ Commit(t)

WorkerStep(w) == BeginWork(w) \/ ClaimJob(w) \/ StopClaiming(w) \/ Step(w)

Next ==
    \/ \E c \in Callers : Ask(c) \/ Execute(c) \/ Open(c) \/ Enqueue(c) \/ Step(c)
    \/ \E w \in Workers : WorkerStep(w)
    \/ \E t \in Txns : Crash(t) \/ DeadlockVictim(t)
    \/ RetryDelayEnds

Spec == Init /\ [][Next]_vars

\* Transactions that began go on, deadlocks are broken, time passes, and
\* somebody keeps starting the worker command.
FairSpec ==
    /\ Spec
    /\ \A c \in Callers : WF_vars(Step(c))
    /\ \A w \in Workers : WF_vars(WorkerStep(w))
    /\ WF_vars(\E t \in Txns : DeadlockVictim(t))
    /\ WF_vars(RetryDelayEnds)

-----------------------------------------------------------------------------
(* Properties.                                                              *)

TypeOK ==
    /\ questions \subseteq Runs
    /\ attempts \subseteq Attempt
    /\ jobs \in [JobIds -> JobRow \cup {Nothing}]
    /\ pc \in [Txns -> {"idle", "ask", "question", "check", "insert", "run", "claim",
                        "commit", "done"}]
    /\ ended \in [Txns -> {"not yet", "committed", "already live", "integrity error",
                           "raised", "crashed", "deadlock"}]
    /\ asked \in [Txns -> Runs \cup {Nothing}]
    /\ opening \subseteq Callers
    /\ number \in [Txns -> Nat]
    /\ job \in [Workers -> JobIds \cup {Nothing}]
    /\ left \in [Workers -> 0..MaxJobs]
    /\ newRuns \in [Txns -> SUBSET Runs]
    /\ newTries \in [Txns -> SUBSET Attempt]
    /\ staged \in [Txns -> [JobIds -> JobRow \cup {Nothing}]]
    /\ crashes \in 0..MaxCrashes

NumbersOf(r) == {a.number : a \in {b \in attempts : b.run = r}}

\* Attempts of a question are numbered 1, 2, ... without a gap or a repeat,
\* and only the last can be live (start_attempt, uq_attempt_number,
\* uq_attempt_live), whoever races for the next number or rolls back.
AttemptsAreNumbered ==
    \A r \in Runs :
        /\ NumbersOf(r) = 1..Cardinality({a \in attempts : a.run = r})
        /\ \A a \in attempts : a.run = r /\ IsLive(a) => \A n \in NumbersOf(r) : n <= a.number

\* The queue shares a transaction with the work: a DONE job has exactly one
\* attempt to show for it, and any other job none, whatever died in between
\* (application.py:14-16, M2-ADR-010).
OneExecutionPerJob ==
    \A j \in JobIds :
        LET made == {a \in attempts : a.job = j}
        IN  IF jobs[j] # Nothing /\ jobs[j].status = "DONE"
              THEN \E a \in made : made = {a} /\ ~IsLive(a)
              ELSE made = {}

\* A job is parked when, and only when, its budget is spent (jobs.py:72), and
\* until then it is queued: no worker that died leaves it RUNNING, and so nobody
\* is needed to call reset_stale (jobs.py:83).
ParkedAtTheLimit ==
    \A j \in JobIds : jobs[j] # Nothing =>
        /\ jobs[j].status \in {"QUEUED", "DONE", "FAILED"}
        /\ jobs[j].status = "FAILED" => jobs[j].attempts = MaxAttempts
        /\ jobs[j].status = "QUEUED" => jobs[j].attempts < MaxAttempts

\* A queued job is executed or parked in the end, if its execution can be.
EveryJobSettles ==
    \A j \in JobIds :
        jobs[j] # Nothing ~> jobs[j] # Nothing /\ jobs[j].status \in {"DONE", "FAILED"}

-----------------------------------------------------------------------------
(* What the documentation says and the code does not do.                    *)

\* A second attempt on a question that is being executed is refused as such,
\* never with an IntegrityError that names an index (application.py:270).
ConflictIsTranslated == \A t \in Txns : ended[t] # "integrity error"

\* An execution of a question is an attempt of that question (design 8,
\* "Retry creates attempt n+1 on the same run").
ExecutesWhatWasAsked == \A a \in attempts : a.run = a.asked
=============================================================================
