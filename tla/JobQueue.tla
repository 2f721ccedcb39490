------------------------------ MODULE JobQueue ------------------------------
(***************************************************************************)
(* The job_task table, the callers that enqueue into it, and the worker    *)
(* processes that claim, run and finish its jobs.                          *)
(*                                                                         *)
(* Each SQL statement is one action; a worker's lease (token and version)  *)
(* is what it remembers in between.  Time is relative: age counts the      *)
(* ticks since heartbeat_at, up to the lease length, and wait the ticks    *)
(* until not_before.  A worker that is neither crashed nor stalled renews  *)
(* its heartbeat in time (every 30 s of a 300 s lease); MaxFaults bounds   *)
(* the crashes and stalls.                                                 *)
(***************************************************************************)
EXTENDS Naturals, FiniteSets

CONSTANTS
    Jobs,        \* row ids
    Keys,        \* idempotency keys
    Creators,    \* callers of create()
    Workers,     \* worker processes
    Operators,   \* those that claim a given job id; the others claim the next
    WorkerId,    \* worker_id of each process; processes of a host share it
    MaxRetries,  \* max_retries of every job
    Lease,       \* lease length, in ticks
    MaxWait,     \* longest not_before delay, in ticks
    MaxFaults,   \* bound on crashes and stalls
    None

ASSUME JobQueueAssumption ==
    /\ IsFiniteSet(Jobs)
    /\ Operators \subseteq Workers
    /\ MaxRetries \in Nat /\ Lease \in Nat \ {0, 1} /\ MaxWait \in Nat /\ MaxFaults \in Nat
    /\ None \notin Keys \cup Jobs \cup Nat

\* A process that claims by id is given a worker id of its own: the row it
\* reads back would otherwise let it adopt the lease of a host neighbour.
ASSUME OwnIdAssumption ==
    \A o \in Operators, w \in Workers : WorkerId[o] = WorkerId[w] => o = w

VARIABLES
    job,     \* the rows of job_task
    asked,   \* key a creator has looked up without finding a row
    me,      \* local state of each worker process
    faults   \* crashes and stalls so far

vars == <<job, asked, me, faults>>

Terminal == {"SUCCEEDED", "FAILED_FINAL", "CANCELLED"}
Statuses == {"NONE", "PENDING", "RUNNING", "FAILED_RETRYABLE"} \cup Terminal

\* secrets.token_hex: no two claims draw the same token.
Tokens == Workers \X Nat

ASSUME NoneIsNoToken == None \notin Tokens

Rows == [status : Statuses, key : Keys \cup {None}, created : Nat,
         owner : {WorkerId[w] : w \in Workers} \cup {None},
         token : Tokens \cup {None}, version : Nat, retries : Nat,
         age : 0 .. Lease, wait : 0 .. MaxWait, result : Nat \cup {None}]

NoRow == [status |-> "NONE", key |-> None, created |-> 0, owner |-> None,
          token |-> None, version |-> 0, retries |-> 0, age |-> 0, wait |-> 0,
          result |-> None]

\* Where process_one_job stands.
Labels == {"idle", "reread", "claimed", "enter", "handler", "leave", "finish",
           "failRead", "failSave"}

Locals == [pc : Labels, job : Jobs \cup {None}, token : Tokens \cup {None},
           version : Nat, retries : Nat, lost : BOOLEAN, stalled : BOOLEAN]

Idle == [pc |-> "idle", job |-> None, token |-> None, version |-> 0,
         retries |-> 0, lost |-> FALSE, stalled |-> FALSE]

Init ==
    /\ job = [j \in Jobs |-> NoRow]
    /\ asked = [c \in Creators |-> None]
    /\ me = [w \in Workers |-> Idle]
    /\ faults = 0

Exists(j) == job[j].status # "NONE"

----------------------------------------------------------------------------
(* Enqueueing.                                                             *)

\* create() looks the key up first; a hit is returned and changes nothing.
LookUp(c, k) ==
    /\ asked[c] = None
    /\ \A j \in Jobs : job[j].key # k
    /\ asked' = [asked EXCEPT ![c] = k]
    /\ UNCHANGED <<job, me, faults>>

\* The unique index on idempotency_key.
KeyFree(k) == \A j \in Jobs : job[j].key # k

NewRow(k, delay) ==
    [NoRow EXCEPT !.status = "PENDING", !.key = k, !.wait = delay,
                  !.created = Cardinality({j \in Jobs : Exists(j)})]

Insert(c, j, delay) ==
    /\ asked[c] # None
    /\ ~Exists(j)
    /\ KeyFree(asked[c])
    /\ job' = [job EXCEPT ![j] = NewRow(asked[c], delay)]
    /\ asked' = [asked EXCEPT ![c] = None]
    /\ UNCHANGED <<me, faults>>

\* IntegrityError: another caller inserted the key in between.
InsertRefused(c) ==
    /\ asked[c] # None
    /\ ~KeyFree(asked[c])
    /\ asked' = [asked EXCEPT ![c] = None]
    /\ UNCHANGED <<job, me, faults>>

\* Mutant: any job can be cancelled, a running or finished one too.
Cancellable_Any(r) == r.status # "NONE"

Cancellable(r) == r.status \in {"PENDING", "FAILED_RETRYABLE"}

Cancel(j) ==
    /\ Cancellable(job[j])
    /\ job' = [job EXCEPT ![j].status = "CANCELLED"]
    /\ UNCHANGED <<asked, me, faults>>

----------------------------------------------------------------------------
(* Claiming.                                                               *)

\* Mutants: stale leases are not taken over; a lease is taken over too early.
Claimable_NotStale(r) == r.status \in {"PENDING", "FAILED_RETRYABLE"} /\ r.wait = 0
Claimable_Early(r) ==
    /\ \/ r.status \in {"PENDING", "FAILED_RETRYABLE"}
       \/ r.status = "RUNNING" /\ r.age + 1 >= Lease
    /\ r.wait = 0

Claimable(r) ==
    /\ \/ r.status \in {"PENDING", "FAILED_RETRYABLE"}
       \/ r.status = "RUNNING" /\ r.age = Lease
    /\ r.wait = 0

ClaimedRow(r, w) ==
    [r EXCEPT !.status = "RUNNING", !.owner = WorkerId[w],
              !.token = <<w, r.version + 1>>, !.version = @ + 1, !.age = 0]

\* The lease a worker keeps from the row it was given.
Holding(pc, j, r) ==
    [Idle EXCEPT !.pc = pc, !.job = j, !.token = r.token, !.version = r.version]

\* claim_next: the oldest claimable row, locked and updated in one statement.
ClaimNext(w, j) ==
    /\ w \notin Operators
    /\ me[w].pc = "idle"
    /\ Claimable(job[j])
    /\ \A i \in Jobs : Claimable(job[i]) => job[j].created <= job[i].created
    /\ job' = [job EXCEPT ![j] = ClaimedRow(@, w)]
    /\ me' = [me EXCEPT ![w] = Holding("claimed", j, ClaimedRow(job[j], w))]
    /\ UNCHANGED <<asked, faults>>

\* claim(task_id): no look at not_before or at stale leases; the row is read
\* again in another transaction.
ClaimById(w, j) ==
    /\ w \in Operators
    /\ me[w].pc = "idle"
    /\ job[j].status \in {"PENDING", "FAILED_RETRYABLE"}
    /\ job' = [job EXCEPT ![j] = ClaimedRow(@, w)]
    /\ me' = [me EXCEPT ![w] = [Idle EXCEPT !.pc = "reread", !.job = j]]
    /\ UNCHANGED <<asked, faults>>

Reread(w) ==
    /\ me[w].pc = "reread"
    /\ LET r == job[me[w].job]
       IN  me' = [me EXCEPT ![w] =
                    IF r.status = "RUNNING" THEN Holding("claimed", me[w].job, r) ELSE Idle]
    /\ UNCHANGED <<job, asked, faults>>

----------------------------------------------------------------------------
(* Running a job under its lease.                                          *)

\* Mutant: only the worker id is compared, as hosts do not share it.
HasLease_ById(w) ==
    /\ job[me[w].job].status = "RUNNING"
    /\ job[me[w].job].owner = WorkerId[w]

\* WHERE status='RUNNING' AND worker_id AND lease_token AND lease_version.
HasLease(w) ==
    /\ job[me[w].job].status = "RUNNING"
    /\ job[me[w].job].owner = WorkerId[w]
    /\ job[me[w].job].token = me[w].token
    /\ job[me[w].job].version = me[w].version

\* One heartbeat: renews the lease, or notes that it is lost.
Heartbeat(w, pc) ==
    /\ job' = IF HasLease(w) THEN [job EXCEPT ![me[w].job].age = 0] ELSE job
    /\ me' = [me EXCEPT ![w].pc = pc, ![w].lost = @ \/ ~HasLease(w)]
    /\ UNCHANGED <<asked, faults>>

\* heartbeat_loop sends one heartbeat before its thread starts.
EnterHeartbeat(w) == me[w].pc = "claimed" /\ Heartbeat(w, "enter")

\* The heartbeat thread: runs until the body ends, the lease is lost or it dies.
Beat(w) ==
    /\ me[w].pc \in {"enter", "handler", "leave"}
    /\ ~me[w].lost /\ ~me[w].stalled
    /\ Heartbeat(w, me[w].pc)

\* unsupported task_type: raised before the heartbeat loop.  Only a job claimed
\* by id can have one.
UnsupportedType(w) ==
    /\ me[w].pc = "claimed"
    /\ w \in Operators
    /\ me' = [me EXCEPT ![w].pc = "failRead"]
    /\ UNCHANGED <<job, asked, faults>>

\* ensure_lease before and after the handler: LeaseLostError goes to mark_failed.
EnsureLease(w, from, to) ==
    /\ me[w].pc = from
    /\ me' = [me EXCEPT ![w].pc = IF ~me[w].lost /\ HasLease(w) THEN to ELSE "failRead"]
    /\ UNCHANGED <<job, asked, faults>>

Enter(w) == EnsureLease(w, "enter", "handler")
Leave(w) == EnsureLease(w, "leave", "finish")

\* The handler returns or raises.
Handle(w) ==
    /\ me[w].pc = "handler"
    /\ \E to \in {"leave", "failRead"} : me' = [me EXCEPT ![w].pc = to]
    /\ UNCHANGED <<job, asked, faults>>

Finished(r, w) == [r EXCEPT !.status = "SUCCEEDED", !.result = me[w].version]

\* mark_finished: no row matches when the lease is lost, and nobody is told.
MarkFinished(w) ==
    /\ me[w].pc = "finish"
    /\ job' = IF HasLease(w) THEN [job EXCEPT ![me[w].job] = Finished(@, w)] ELSE job
    /\ me' = [me EXCEPT ![w] = Idle]
    /\ UNCHANGED <<asked, faults>>

\* mark_failed reads the row, compares the lease (not the status) and computes
\* the new retry count ...
MarkFailedRead(w) ==
    /\ me[w].pc = "failRead"
    /\ LET r == job[me[w].job]
       IN  me' = [me EXCEPT ![w] =
                    IF /\ r.owner = WorkerId[w]
                       /\ r.token = me[w].token
                       /\ r.version = me[w].version
                    THEN [@ EXCEPT !.pc = "failSave", !.retries = r.retries + 1]
                    ELSE Idle]
    /\ UNCHANGED <<job, asked, faults>>

AfterFailure(retries) == IF retries <= MaxRetries THEN "FAILED_RETRYABLE" ELSE "FAILED_FINAL"

Failed(r, w) == [r EXCEPT !.status = AfterFailure(me[w].retries), !.retries = me[w].retries]

\* ... and writes it if the lease still holds.
MarkFailedSave(w) ==
    /\ me[w].pc = "failSave"
    /\ job' = IF HasLease(w) THEN [job EXCEPT ![me[w].job] = Failed(@, w)] ELSE job
    /\ me' = [me EXCEPT ![w] = Idle]
    /\ UNCHANGED <<asked, faults>>

----------------------------------------------------------------------------
(* Time and faults.                                                        *)

\* A process that works within its lease: it will renew or end before it is stale.
InTime(w) ==
    /\ me[w].pc # "idle" /\ ~me[w].stalled
    /\ \/ HasLease(w)
       \/ me[w].pc = "reread" /\ job[me[w].job].token[1] = w

Older(r) ==
    [r EXCEPT !.age = IF r.status = "RUNNING" /\ @ < Lease THEN @ + 1 ELSE @,
              !.wait = IF r.status # "NONE" /\ @ > 0 THEN @ - 1 ELSE @]

Tick ==
    /\ \A w \in Workers : InTime(w) => job[me[w].job].age + 1 < Lease
    /\ \E j \in Jobs : Older(job[j]) # job[j]
    /\ job' = [j \in Jobs |-> Older(job[j])]
    /\ UNCHANGED <<asked, me, faults>>

\* The process dies; its rows stay RUNNING.
Crash(w) ==
    /\ me[w].pc # "idle"
    /\ faults < MaxFaults
    /\ faults' = faults + 1
    /\ me' = [me EXCEPT ![w] = Idle]
    /\ UNCHANGED <<job, asked>>

\* The process pauses, or an exception ends its heartbeat thread.
Stall(w) ==
    /\ me[w].pc # "idle" /\ ~me[w].stalled
    /\ faults < MaxFaults
    /\ faults' = faults + 1
    /\ me' = [me EXCEPT ![w].stalled = TRUE]
    /\ UNCHANGED <<job, asked>>

\* What a worker process does by itself.
Work(w) ==
    \/ \E j \in Jobs : ClaimNext(w, j)
    \/ Reread(w) \/ EnterHeartbeat(w) \/ Enter(w) \/ Handle(w) \/ Leave(w)
    \/ MarkFinished(w) \/ MarkFailedRead(w) \/ MarkFailedSave(w)

Next ==
    \/ \E c \in Creators : \/ \E k \in Keys : LookUp(c, k)
                           \/ \E j \in Jobs, delay \in 0 .. MaxWait : Insert(c, j, delay)
                           \/ InsertRefused(c)
    \/ \E j \in Jobs : Cancel(j)
    \/ \E w \in Workers :
          \/ Work(w) \/ Beat(w) \/ UnsupportedType(w)
          \/ \E j \in Jobs : ClaimById(w, j)
          \/ Crash(w) \/ Stall(w)
    \/ Tick

Spec == Init /\ [][Next]_vars

\* Worker loops run (main polls every two seconds), heartbeat threads run, and
\* time passes.
Fairness ==
    /\ \A w \in Workers : WF_vars(Work(w)) /\ WF_vars(Beat(w))
    /\ WF_vars(Tick)

FairSpec == Spec /\ Fairness

----------------------------------------------------------------------------
(* Properties.                                                             *)

\* Type invariant.
TypeOK ==
    /\ job \in [Jobs -> Rows]
    /\ asked \in [Creators -> Keys \cup {None}]
    /\ me \in [Workers -> Locals]
    /\ faults \in 0 .. MaxFaults

\* Two callers that both miss the key never create two jobs for it (create,
\* idx_job_task_idempotency).
OneJobPerKey ==
    \A i, j \in Jobs : Exists(i) /\ job[i].key = job[j].key => i = j

\* No two processes hold the lease of one job, even when they share the host's
\* worker id (claim_next, has_lease).
LeaseExclusive ==
    \A w, v \in Workers :
        /\ me[w].pc \notin {"idle", "reread"} /\ HasLease(w)
        /\ me[v].pc \notin {"idle", "reread"} /\ HasLease(v)
        /\ me[w].job = me[v].job
        => w = v

\* "Stale worker cannot heartbeat or finish after reclaim": the result of a job
\* is the one of its last claim, never of a worker that lost the lease.
ResultOfLastClaim ==
    \A j \in Jobs : /\ job[j].status = "SUCCEEDED" <=> job[j].result # None
                    /\ job[j].result # None => job[j].result = job[j].version

\* The retry budget: a job fails for good exactly at its failure number
\* max_retries + 1, whoever records the failures (mark_failed).
RetryBudget ==
    \A j \in Jobs :
        /\ job[j].retries <= MaxRetries + 1
        /\ job[j].status = "FAILED_FINAL" <=> job[j].retries = MaxRetries + 1

\* A job is one job: one row for its key, one process with its lease, one
\* result, of its last claim, and one count of its failures.
OneOfEach == OneJobPerKey /\ LeaseExclusive /\ ResultOfLastClaim /\ RetryBudget

\* Executions beyond the retry budget are due to crashed or stalled workers
\* only: a worker in time is never reclaimed.
ReclaimsAreFaults ==
    \A j \in Jobs :
        job[j].version <= job[j].retries + faults
                          + (IF job[j].status \in {"RUNNING", "SUCCEEDED"} THEN 1 ELSE 0)

\* A finished, failed or cancelled job is never touched again: a late worker,
\* a claim or a cancel cannot revive or rewrite it.
TerminalIsFinal ==
    [][\A j \in Jobs : job[j].status \in Terminal =>
          /\ job'[j].status = job[j].status
          /\ job'[j].result = job[j].result
          /\ job'[j].version = job[j].version]_job

\* A running job is only ever moved on by the process that holds its lease or by
\* a claim that bumps the version.
OnlyHolderMovesRunningJob ==
    [][\A j \in Jobs :
          job[j].status = "RUNNING" /\ job'[j].status # "RUNNING" =>
              \E w \in Workers : me[w].job = j /\ HasLease(w) /\ me'[w].pc = "idle"]_job

\* Whoever is late changes nothing: not a job that ended, not one that another
\* process holds.
LateStepsChangeNothing == TerminalIsFinal /\ OnlyHolderMovesRunningJob

\* Every enqueued job ends, although workers crash, stall and fail.
EveryJobEnds == \A j \in Jobs : Exists(j) ~> job[j].status \in Terminal

----------------------------------------------------------------------------
(* The inductive invariant behind the safety properties.                   *)

\* A row the statements can produce.
RowOK(r) ==
    /\ r.status = "NONE" <=> r.key = None
    /\ r.status = "RUNNING" => r.token # None
    /\ r.token # None => r.owner = WorkerId[r.token[1]]
    /\ r.status = "SUCCEEDED" <=> r.result # None
    /\ r.result # None => r.result = r.version
    /\ r.retries <= MaxRetries + 1
    /\ r.status = "FAILED_FINAL" <=> r.retries = MaxRetries + 1

\* What process w knows of the rows.
LocalOK(w, l, rows) ==
    l.pc # "idle" =>
        /\ l.job \in Jobs /\ rows[l.job].status # "NONE"
        /\ l.pc = "reread" => w \in Operators
        /\ l.pc # "reread" => /\ l.token \in Tokens
                              /\ l.version <= rows[l.job].version
                              /\ w \notin Operators => l.token[1] = w
        /\ l.pc = "failSave" =>
              (rows[l.job].status = "RUNNING" /\ rows[l.job].version = l.version
                  => l.retries = rows[l.job].retries + 1)

InductiveInvariant ==
    /\ TypeOK
    /\ \A j \in Jobs : RowOK(job[j])
    /\ \A w \in Workers : LocalOK(w, me[w], job)
    /\ OneJobPerKey

=============================================================================
