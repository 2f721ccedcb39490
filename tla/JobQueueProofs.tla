--------------------------- MODULE JobQueueProofs ---------------------------
(***************************************************************************)
(* Safety of the job queue for any number of jobs, callers, workers,       *)
(* crashes and stalls.                                                     *)
(*                                                                         *)
(* The argument: a row becomes RUNNING only by a claim, every claim bumps  *)
(* the lease version, so a process whose version is the row's is the last  *)
(* claimant (RowMove, LocalStable); tokens name the process that drew      *)
(* them, so at most one process passes the lease test.                     *)
(***************************************************************************)
EXTENDS JobQueue, FiniteSetTheorems, TLAPS

\* How a statement may change an existing row.
RowMove(r, new) ==
    /\ new.key = r.key
    /\ new.status = "NONE" <=> r.status = "NONE"
    /\ r.version <= new.version
    /\ new.status = "RUNNING" /\ new.version = r.version
          => r.status = "RUNNING" /\ new.retries = r.retries

\* What a process knows survives every move of the rows.
LEMMA LocalStable ==
    ASSUME NEW old \in [Jobs -> Rows], NEW new \in [Jobs -> Rows],
           NEW w \in Workers, NEW l \in Locals,
           \A j \in Jobs : RowMove(old[j], new[j]), LocalOK(w, l, old)
    PROVE  LocalOK(w, l, new)
  <1> SUFFICES ASSUME l.pc # "idle"
               PROVE  LocalOK(w, l, new)
    BY DEF LocalOK
  <1>1. l.job \in Jobs /\ old[l.job] \in Rows /\ new[l.job] \in Rows
        /\ RowMove(old[l.job], new[l.job])
    BY DEF LocalOK
  <1>2. /\ l.version \in Nat
        /\ old[l.job].version \in Nat /\ new[l.job].version \in Nat
    BY <1>1 DEF Rows, Locals
  <1> QED BY <1>1, <1>2 DEF LocalOK, RowMove

\* A process that has ended knows nothing.
LEMMA IdleOK == Idle \in Locals /\ \A w, rows : LocalOK(w, Idle, rows)
  BY DEF Idle, Locals, Labels, LocalOK

\* The invariant in the forms the steps below use.
LEMMA Facts ==
    ASSUME InductiveInvariant
    PROVE  /\ job \in [Jobs -> Rows] /\ me \in [Workers -> Locals]
           /\ asked \in [Creators -> Keys \cup {None}] /\ faults \in 0 .. MaxFaults
           /\ \A j \in Jobs : RowOK(job[j]) /\ RowMove(job[j], job[j])
           /\ \A w \in Workers : LocalOK(w, me[w], job)
  BY DEF InductiveInvariant, TypeOK, RowMove, Rows

\* A step of process w that moves the rows within RowMove.
LEMMA Step ==
    ASSUME InductiveInvariant, NEW w \in Workers, NEW l \in Locals,
           me' = [me EXCEPT ![w] = l], LocalOK(w, l, job'),
           job' \in [Jobs -> Rows],
           \A j \in Jobs : RowOK(job'[j]) /\ RowMove(job[j], job'[j]),
           asked' = asked, faults' \in 0 .. MaxFaults
    PROVE  InductiveInvariant'
  <1> USE Facts
  <1>1. TypeOK'
    BY DEF TypeOK
  <1>2. \A v \in Workers : LocalOK(v, me'[v], job')
    <2> TAKE v \in Workers
    <2>1. me'[v] = IF v = w THEN l ELSE me[v]
      OBVIOUS
    <2>2. LocalOK(v, me[v], job')
      BY LocalStable
    <2> QED BY <2>1, <2>2
  <1>3. OneJobPerKey'
    BY DEF InductiveInvariant, OneJobPerKey, Exists, RowMove
  <1> QED BY <1>1, <1>2, <1>3 DEF InductiveInvariant

\* The same when only the local state changes.
LEMMA LocalStep ==
    ASSUME InductiveInvariant, NEW w \in Workers, NEW l \in Locals,
           me' = [me EXCEPT ![w] = l], LocalOK(w, l, job),
           job' = job, asked' = asked, faults' \in 0 .. MaxFaults
    PROVE  InductiveInvariant'
  BY Facts, Step

\* The same when one row changes.
LEMMA RowStep ==
    ASSUME InductiveInvariant, NEW w \in Workers, NEW l \in Locals,
           NEW j \in Jobs, NEW new \in Rows, RowOK(new), RowMove(job[j], new),
           job' = [job EXCEPT ![j] = new],
           me' = [me EXCEPT ![w] = l], LocalOK(w, l, job'),
           asked' = asked, faults' \in 0 .. MaxFaults
    PROVE  InductiveInvariant'
  <1> USE Facts
  <1>1. job' \in [Jobs -> Rows]
    OBVIOUS
  <1>2. \A i \in Jobs : job'[i] = IF i = j THEN new ELSE job[i]
    OBVIOUS
  <1>3. \A i \in Jobs : RowOK(job'[i]) /\ RowMove(job[i], job'[i])
    BY <1>2
  <1> QED BY <1>1, <1>3, Step

\* A step that moves rows and leaves every process alone.
LEMMA RowsStep ==
    ASSUME InductiveInvariant, me' = me, job' \in [Jobs -> Rows],
           \A j \in Jobs : RowOK(job'[j]) /\ RowMove(job[j], job'[j]),
           asked' \in [Creators -> Keys \cup {None}], faults' = faults
    PROVE  InductiveInvariant'
  <1> USE Facts
  <1>1. TypeOK'
    BY DEF TypeOK
  <1>2. \A v \in Workers : LocalOK(v, me'[v], job')
    BY LocalStable
  <1>3. OneJobPerKey'
    BY DEF InductiveInvariant, OneJobPerKey, Exists, RowMove
  <1> QED BY <1>1, <1>2, <1>3 DEF InductiveInvariant

----------------------------------------------------------------------------
(* One lemma per group of actions.                                         *)

\* Enqueueing: the lookup, the insert under the unique index and its refusal.
LEMMA Enqueue ==
    ASSUME InductiveInvariant, NEW c \in Creators,
           \/ \E k \in Keys : LookUp(c, k)
           \/ \E j \in Jobs, delay \in 0 .. MaxWait : Insert(c, j, delay)
           \/ InsertRefused(c)
    PROVE  InductiveInvariant'
  <1> USE Facts
  <1>1. CASE (\E k \in Keys : LookUp(c, k)) \/ InsertRefused(c)
    BY <1>1, RowsStep DEF LookUp, InsertRefused
  <1>2. ASSUME NEW j \in Jobs, NEW delay \in 0 .. MaxWait, Insert(c, j, delay)
        PROVE  InductiveInvariant'
    <2> DEFINE n == Cardinality({i \in Jobs : Exists(i)})
               new == NewRow(asked[c], delay)
    <2>0. asked[c] \in Keys /\ asked[c] # None /\ job[j].status = "NONE"
      BY <1>2 DEF Insert, Exists
    <2>1. /\ new.status = "PENDING" /\ new.key = asked[c] /\ new.token = None
          /\ new.version = 0 /\ new.retries = 0 /\ new.result = None /\ new.owner = None
      BY DEF NewRow, NoRow
    <2>2. n \in Nat
      BY FS_Subset, FS_CardinalityType, JobQueueAssumption
    <2>3. new \in Rows
      <3> HIDE DEF n
      <3>1. new = [NoRow EXCEPT !.status = "PENDING", !.key = asked[c],
                                !.wait = delay, !.created = n]
        BY DEF NewRow, n
      <3>2. "PENDING" \in Statuses /\ 0 \in 0 .. Lease
        BY JobQueueAssumption DEF Statuses
      <3>3. NoRow \in Rows
        BY <3>2, JobQueueAssumption DEF NoRow, Rows, Statuses
      <3> QED BY <2>0, <2>2, <3>1, <3>2, <3>3 DEF Rows
    <2> HIDE DEF new
    <2>4. RowOK(new)
      BY <2>0, <2>1, JobQueueAssumption DEF RowOK
    <2>5. \A i \in Jobs : job'[i] = IF i = j THEN new ELSE job[i]
      BY <1>2 DEF Insert, new
    <2>6. TypeOK'
      BY <1>2, <2>3 DEF Insert, TypeOK, new
    <2>7. \A v \in Workers : LocalOK(v, me'[v], job')
      BY <1>2, <2>0, <2>5 DEF Insert, LocalOK
    <2>8. OneJobPerKey'
      BY <1>2, <2>0, <2>1, <2>5 DEF InductiveInvariant, OneJobPerKey, Exists, Insert, KeyFree, RowOK
    <2> QED BY <2>4, <2>5, <2>6, <2>7, <2>8 DEF InductiveInvariant
  <1> QED BY <1>1, <1>2

\* Cancelling and the passing of time.
LEMMA CancelAndTick ==
    ASSUME InductiveInvariant, (\E j \in Jobs : Cancel(j)) \/ Tick
    PROVE  InductiveInvariant'
  <1> USE Facts
  <1>1. ASSUME NEW j \in Jobs, Cancel(j)
        PROVE  InductiveInvariant'
    <2> DEFINE new == [job[j] EXCEPT !.status = "CANCELLED"]
    <2>1. new \in Rows
      BY DEF Rows, Statuses, Terminal
    <2>2. /\ new.status = "CANCELLED" /\ new.key = job[j].key /\ new.token = job[j].token
          /\ new.version = job[j].version /\ new.retries = job[j].retries
          /\ new.result = job[j].result /\ new.owner = job[j].owner
          /\ job[j].version \in Nat
      BY DEF Rows
    <2>3. \A i \in Jobs : job'[i] = IF i = j THEN new ELSE job[i]
      BY <1>1 DEF Cancel
    <2>4. job' \in [Jobs -> Rows]
      BY <1>1, <2>1 DEF Cancel
    <2> HIDE DEF new
    <2>5. job[j].status \in {"PENDING", "FAILED_RETRYABLE"}
      BY <1>1 DEF Cancel, Cancellable
    <2>6. RowOK(new) /\ RowMove(job[j], new)
      BY <2>2, <2>5 DEF RowOK, RowMove
    <2> QED BY <1>1, <2>3, <2>4, <2>6, RowsStep DEF Cancel
  <1>2. CASE Tick
    <2>1. ASSUME NEW j \in Jobs
          PROVE  /\ Older(job[j]) \in Rows
                 /\ RowOK(Older(job[j])) /\ RowMove(job[j], Older(job[j]))
      <3> DEFINE a == IF job[j].status = "RUNNING" /\ job[j].age < Lease THEN job[j].age + 1 ELSE job[j].age
                 b == IF job[j].status # "NONE" /\ job[j].wait > 0 THEN job[j].wait - 1 ELSE job[j].wait
                 new == [job[j] EXCEPT !.age = a, !.wait = b]
      <3>1. a \in 0 .. Lease /\ b \in 0 .. MaxWait
        BY JobQueueAssumption DEF Rows
      <3>2. Older(job[j]) = new
        BY DEF Older, Rows
      <3> HIDE DEF a, b
      <3>3. new \in Rows
        BY <3>1 DEF Rows
      <3>4. /\ new.status = job[j].status /\ new.key = job[j].key /\ new.token = job[j].token
            /\ new.version = job[j].version /\ new.retries = job[j].retries
            /\ new.result = job[j].result /\ new.owner = job[j].owner
            /\ job[j].version \in Nat
        BY DEF Rows
      <3> HIDE DEF new
      <3>5. RowOK(new) /\ RowMove(job[j], new)
        BY <3>4 DEF RowOK, RowMove
      <3> QED BY <3>2, <3>3, <3>5
    <2> QED BY <1>2, <2>1, RowsStep DEF Tick
  <1> QED BY <1>1, <1>2

\* The row and the local state a claim makes.
LEMMA ClaimOK ==
    ASSUME InductiveInvariant, NEW w \in Workers, NEW j \in Jobs,
           job[j].status \in {"PENDING", "FAILED_RETRYABLE", "RUNNING"}
    PROVE  LET new == ClaimedRow(job[j], w)
           IN  /\ new \in Rows /\ RowOK(new) /\ RowMove(job[j], new)
               /\ new.status = "RUNNING" /\ new.token = <<w, new.version>>
               /\ new.token \in Tokens /\ new.version \in Nat
  <1> USE Facts
  <1> DEFINE new == ClaimedRow(job[j], w)
  <1>1. job[j].version \in Nat /\ job[j].version + 1 \in Nat
    BY DEF Rows
  <1>2. /\ new.status = "RUNNING" /\ new.key = job[j].key
        /\ new.token = <<w, job[j].version + 1>> /\ new.owner = WorkerId[w]
        /\ new.version = job[j].version + 1 /\ new.retries = job[j].retries
        /\ new.result = job[j].result
    BY DEF ClaimedRow, Rows
  <1>3. <<w, job[j].version + 1>> \in Tokens /\ <<w, job[j].version + 1>> # None
    BY <1>1, NoneIsNoToken DEF Tokens
  <1>4. new \in Rows
    <2>1. "RUNNING" \in Statuses /\ 0 \in 0 .. Lease
      BY JobQueueAssumption DEF Statuses
    <2>2. WorkerId[w] \in {WorkerId[v] : v \in Workers}
      OBVIOUS
    <2>3. PICK n \in Nat, t \in Tokens, o \in {WorkerId[v] : v \in Workers} :
              n = job[j].version + 1 /\ t = <<w, job[j].version + 1>> /\ o = WorkerId[w]
      BY <1>1, <1>3, <2>2
    <2>4. PICK r \in Rows : r = job[j]
      OBVIOUS
    <2>5. new = [r EXCEPT !.status = "RUNNING", !.owner = o, !.token = t, !.version = n, !.age = 0]
      BY <2>3, <2>4 DEF ClaimedRow
    <2>6. [r EXCEPT !.status = "RUNNING", !.owner = o, !.token = t, !.version = n, !.age = 0] \in Rows
      BY <2>1 DEF Rows
    <2> QED BY <2>5, <2>6
  <1> HIDE DEF new
  <1>5. RowOK(new)
    BY <1>2, <1>3 DEF RowOK
  <1>6. RowMove(job[j], new)
    BY <1>1, <1>2 DEF RowMove
  <1> QED BY <1>1, <1>2, <1>3, <1>4, <1>5, <1>6 DEF new

\* Claiming by age, by id, and reading the row back.
LEMMA Claims ==
    ASSUME InductiveInvariant, NEW w \in Workers,
           \/ \E j \in Jobs : ClaimNext(w, j) \/ ClaimById(w, j)
           \/ Reread(w)
    PROVE  InductiveInvariant'
  <1> USE Facts
  <1>0. ASSUME NEW j \in Jobs, NEW r \in Rows, r.token \in Tokens
        PROVE  LET l == Holding("claimed", j, r)
               IN  /\ l \in Locals /\ l.pc = "claimed" /\ l.job = j
                   /\ l.token = r.token /\ l.version = r.version
    BY IdleOK DEF Holding, Idle, Locals, Labels, Rows
  <1>1. ASSUME NEW j \in Jobs, ClaimNext(w, j)
        PROVE  InductiveInvariant'
    <2> DEFINE new == ClaimedRow(job[j], w)
               l == Holding("claimed", j, new)
    <2>1. job[j].status \in {"PENDING", "FAILED_RETRYABLE", "RUNNING"}
      BY <1>1 DEF ClaimNext, Claimable
    <2>2. /\ new \in Rows /\ RowOK(new) /\ RowMove(job[j], new)
          /\ new.status = "RUNNING" /\ new.token = <<w, new.version>>
          /\ new.token \in Tokens /\ new.version \in Nat
      BY <2>1, ClaimOK
    <2>3. job' = [job EXCEPT ![j] = new] /\ me' = [me EXCEPT ![w] = l]
          /\ asked' = asked /\ faults' = faults
      BY <1>1 DEF ClaimNext
    <2> HIDE DEF new
    <2>4. l \in Locals /\ l.pc = "claimed" /\ l.job = j
          /\ l.token = new.token /\ l.version = new.version
      BY <1>0, <2>2
    <2> HIDE DEF l
    <2>5. job'[j] = new
      BY <2>3
    <2>6. LocalOK(w, l, job')
      BY <2>2, <2>4, <2>5 DEF LocalOK
    <2> QED BY <2>2, <2>3, <2>4, <2>6, RowStep
  <1>2. ASSUME NEW j \in Jobs, ClaimById(w, j)
        PROVE  InductiveInvariant'
    <2> DEFINE new == ClaimedRow(job[j], w)
               l == [Idle EXCEPT !.pc = "reread", !.job = j]
    <2>1. job[j].status \in {"PENDING", "FAILED_RETRYABLE", "RUNNING"}
      BY <1>2 DEF ClaimById
    <2>2. new \in Rows /\ RowOK(new) /\ RowMove(job[j], new) /\ new.status = "RUNNING"
      BY <2>1, ClaimOK
    <2>3. job' = [job EXCEPT ![j] = new] /\ me' = [me EXCEPT ![w] = l]
          /\ asked' = asked /\ faults' = faults
      BY <1>2 DEF ClaimById
    <2> HIDE DEF new
    <2>4. l \in Locals /\ l.pc = "reread" /\ l.job = j
      BY IdleOK DEF Idle, Locals, Labels
    <2> HIDE DEF l
    <2>5. job'[j] = new
      BY <2>3
    <2>6. w \in Operators
      BY <1>2 DEF ClaimById
    <2>7. LocalOK(w, l, job')
      BY <2>2, <2>4, <2>5, <2>6 DEF LocalOK
    <2> QED BY <2>2, <2>3, <2>4, <2>7, RowStep
  <1>3. CASE Reread(w)
    <2> DEFINE j == me[w].job
               l == Holding("claimed", j, job[j])
    <2>1. j \in Jobs /\ job[j].status # "NONE"
      BY <1>3 DEF Reread, LocalOK
    <2>2. CASE job[j].status = "RUNNING"
      <3>1. job[j].token \in Tokens /\ job[j] \in Rows /\ job[j].version \in Nat
        BY <2>1, <2>2 DEF RowOK, Rows
      <3>2. l \in Locals /\ l.pc = "claimed" /\ l.job = j
            /\ l.token = job[j].token /\ l.version = job[j].version
        BY <1>0, <2>1, <3>1
      <3>3. w \in Operators
        BY <1>3 DEF Reread, LocalOK
      <3>4. LocalOK(w, l, job)
        <4> HIDE DEF l
        <4> QED BY <2>1, <3>1, <3>2, <3>3 DEF LocalOK
      <3> QED BY <1>3, <2>2, <3>2, <3>4, LocalStep DEF Reread
    <2>3. CASE job[j].status # "RUNNING"
      BY <1>3, <2>3, IdleOK, LocalStep DEF Reread
    <2> QED BY <2>2, <2>3
  <1> QED BY <1>1, <1>2, <1>3

\* What a process past its claim knows.
LEMMA Claimed ==
    ASSUME InductiveInvariant, NEW w \in Workers, me[w].pc \notin {"idle", "reread"}
    PROVE  /\ me[w] \in Locals /\ me[w].job \in Jobs
           /\ job[me[w].job] \in Rows /\ RowOK(job[me[w].job])
           /\ job[me[w].job].status # "NONE"
           /\ me[w].token \in Tokens /\ me[w].version \in Nat
           /\ me[w].version <= job[me[w].job].version
           /\ w \notin Operators => me[w].token[1] = w
  BY Facts DEF LocalOK, Locals

\* A change of the program counter among the labels before mark_failed's save.
LEMMA PcStep ==
    ASSUME InductiveInvariant, NEW w \in Workers, me[w].pc \notin {"idle", "reread"},
           NEW pc \in Labels, pc \notin {"reread", "failSave"},
           me' = [me EXCEPT ![w].pc = pc], job' = job, asked' = asked, faults' = faults
    PROVE  InductiveInvariant'
  <1> USE Facts
  <1> DEFINE l == [me[w] EXCEPT !.pc = pc]
  <1>1. l \in Locals /\ l.pc = pc /\ l.job = me[w].job /\ l.token = me[w].token
        /\ l.version = me[w].version
    BY DEF Locals
  <1>2. me' = [me EXCEPT ![w] = l]
    OBVIOUS
  <1> HIDE DEF l
  <1>3. LocalOK(w, l, job)
    BY <1>1, Claimed DEF LocalOK
  <1> QED BY <1>1, <1>2, <1>3, LocalStep

\* The heartbeats: a renewed lease changes the age only.
LEMMA Heartbeats ==
    ASSUME InductiveInvariant, NEW w \in Workers, EnterHeartbeat(w) \/ Beat(w)
    PROVE  InductiveInvariant'
  <1> USE Facts
  <1>1. PICK pc \in {"enter", "handler", "leave"} : Heartbeat(w, pc)
    BY DEF EnterHeartbeat, Beat
  <1>2. me[w].pc \notin {"idle", "reread", "failSave"}
    BY DEF EnterHeartbeat, Beat
  <1> DEFINE lost == me[w].lost \/ ~HasLease(w)
             l == [me[w] EXCEPT !.pc = pc, !.lost = lost]
             j == me[w].job
             new == [job[j] EXCEPT !.age = 0]
  <1>3. lost \in BOOLEAN
    OBVIOUS
  <1>4. me' = [me EXCEPT ![w] = l] /\ asked' = asked /\ faults' = faults
        /\ job' = IF HasLease(w) THEN [job EXCEPT ![j] = new] ELSE job
    BY <1>1 DEF Heartbeat
  <1> HIDE DEF lost
  <1>5. l \in Locals /\ l.pc = pc /\ l.job = j /\ l.token = me[w].token
        /\ l.version = me[w].version
    BY <1>3 DEF Locals, Labels
  <1> HIDE DEF l
  <1>6. j \in Jobs /\ job[j] \in Rows
    BY <1>2, Claimed
  <1>7. /\ new.status = job[j].status /\ new.key = job[j].key /\ new.token = job[j].token
        /\ new.version = job[j].version /\ new.retries = job[j].retries
        /\ new.result = job[j].result /\ new.owner = job[j].owner
        /\ job[j].version \in Nat
    BY <1>6 DEF Rows
  <1>8. new \in Rows
    BY <1>6, JobQueueAssumption DEF Rows
  <1> HIDE DEF new
  <1>9. RowOK(new) /\ RowMove(job[j], new)
    BY <1>6, <1>7 DEF RowOK, RowMove
  <1>10. LocalOK(w, l, job)
    BY <1>2, <1>5, Claimed DEF LocalOK
  <1>11. CASE HasLease(w)
    <2>1. job' = [job EXCEPT ![j] = new]
      BY <1>4, <1>11
    <2>2. job' \in [Jobs -> Rows] /\ \A i \in Jobs : job'[i] = IF i = j THEN new ELSE job[i]
      BY <1>6, <1>8, <2>1
    <2>3. LocalOK(w, l, job')
      BY <1>5, <1>9, <1>10, <2>2, LocalStable
    <2> HIDE DEF j
    <2> QED BY <1>4, <1>5, <1>6, <1>8, <1>9, <2>1, <2>3, RowStep
  <1>12. CASE ~HasLease(w)
    BY <1>4, <1>5, <1>10, <1>12, LocalStep
  <1> QED BY <1>11, <1>12

\* A process ends its turn; the row it holds is rewritten, or none is.
LEMMA Ending ==
    ASSUME InductiveInvariant, NEW w \in Workers, me' = [me EXCEPT ![w] = Idle],
           asked' = asked, faults' \in 0 .. MaxFaults,
           \/ job' = job
           \/ \E j \in Jobs, new \in Rows :
                 RowOK(new) /\ RowMove(job[j], new) /\ job' = [job EXCEPT ![j] = new]
    PROVE  InductiveInvariant'
  BY IdleOK, LocalStep, RowStep

\* mark_finished and the two halves of mark_failed.
LEMMA Ends ==
    ASSUME InductiveInvariant, NEW w \in Workers,
           MarkFinished(w) \/ MarkFailedRead(w) \/ MarkFailedSave(w)
    PROVE  InductiveInvariant'
  <1> USE Facts
  <1> DEFINE j == me[w].job
  <1>1. me[w].pc \in {"finish", "failRead", "failSave"}
    BY DEF MarkFinished, MarkFailedRead, MarkFailedSave
  <1>2. /\ me[w] \in Locals /\ j \in Jobs /\ job[j] \in Rows /\ RowOK(job[j])
        /\ me[w].version \in Nat /\ job[j].version \in Nat /\ job[j].retries \in Nat
        /\ job[j].status # "NONE"
    BY <1>1, Claimed DEF Rows
  <1>3. CASE MarkFinished(w)
    <2> DEFINE new == Finished(job[j], w)
    <2>1. /\ new.status = "SUCCEEDED" /\ new.key = job[j].key /\ new.token = job[j].token
          /\ new.version = job[j].version /\ new.retries = job[j].retries
          /\ new.result = me[w].version /\ new.owner = job[j].owner
      BY <1>2 DEF Finished, Rows
    <2>2. new \in Rows
      BY <1>2 DEF Finished, Rows, Statuses, Terminal
    <2>3. CASE HasLease(w)
      <3>1. job[j].status = "RUNNING" /\ job[j].version = me[w].version
        BY <2>3 DEF HasLease
      <3>2. RowOK(new) /\ RowMove(job[j], new)
        <4> HIDE DEF new
        <4> QED BY <1>2, <2>1, <3>1, JobQueueAssumption DEF RowOK, RowMove
      <3>3. job' = [job EXCEPT ![j] = new]
        BY <1>3, <2>3 DEF MarkFinished
      <3> QED BY <1>2, <1>3, <2>2, <3>2, <3>3, Ending DEF MarkFinished
    <2>4. CASE ~HasLease(w)
      BY <1>3, <2>4, Ending DEF MarkFinished
    <2> QED BY <2>3, <2>4
  <1>4. CASE MarkFailedRead(w)
    <2> DEFINE n == job[j].retries + 1
               l == [me[w] EXCEPT !.pc = "failSave", !.retries = n]
    <2>0. n \in Nat
      BY <1>2
    <2>1. l \in Locals /\ l.pc = "failSave" /\ l.job = j /\ l.token = me[w].token
          /\ l.version = me[w].version /\ l.retries = job[j].retries + 1
      <3> HIDE DEF n
      <3>1. l \in Locals /\ l.pc = "failSave" /\ l.job = j /\ l.token = me[w].token
            /\ l.version = me[w].version /\ l.retries = n
        BY <1>2, <2>0 DEF Locals, Labels
      <3> QED BY <3>1 DEF n
    <2>2. (me' = [me EXCEPT ![w] = l] \/ me' = [me EXCEPT ![w] = Idle])
          /\ job' = job /\ asked' = asked /\ faults' = faults
      BY <1>4 DEF MarkFailedRead
    <2> HIDE DEF l
    <2>3. LocalOK(w, l, job)
      BY <1>1, <1>2, <2>1, Claimed DEF LocalOK
    <2> QED BY <2>1, <2>2, <2>3, LocalStep, Ending
  <1>5. CASE MarkFailedSave(w)
    <2> DEFINE new == Failed(job[j], w)
    <2>1. /\ new.status = AfterFailure(me[w].retries) /\ new.key = job[j].key
          /\ new.token = job[j].token /\ new.version = job[j].version
          /\ new.retries = me[w].retries
          /\ new.result = job[j].result /\ new.owner = job[j].owner
      BY <1>2 DEF Failed, Rows
    <2>2. AfterFailure(me[w].retries) \in {"FAILED_RETRYABLE", "FAILED_FINAL"}
      BY DEF AfterFailure
    <2>3. new \in Rows
      BY <1>2, <2>2 DEF Failed, Rows, Locals, Statuses, Terminal
    <2>4. CASE HasLease(w)
      <3>1. job[j].status = "RUNNING" /\ job[j].version = me[w].version
        BY <2>4 DEF HasLease
      <3>2. me[w].retries = job[j].retries + 1
        BY <1>5, <3>1 DEF LocalOK, MarkFailedSave
      <3>3. job[j].retries <= MaxRetries
        BY <1>2, <3>1, JobQueueAssumption DEF RowOK
      <3>4. RowOK(new) /\ RowMove(job[j], new)
        <4> HIDE DEF new
        <4>1. AfterFailure(me[w].retries) = "FAILED_FINAL" <=> me[w].retries = MaxRetries + 1
          BY <1>2, <3>2, <3>3, JobQueueAssumption DEF AfterFailure
        <4> QED BY <1>2, <2>1, <2>2, <3>1, <3>2, <3>3, <4>1, JobQueueAssumption
                   DEF RowOK, RowMove
      <3>5. job' = [job EXCEPT ![j] = new]
        BY <1>5, <2>4 DEF MarkFailedSave
      <3> QED BY <1>2, <1>5, <2>3, <3>4, <3>5, Ending DEF MarkFailedSave
    <2>5. CASE ~HasLease(w)
      BY <1>5, <2>5, Ending DEF MarkFailedSave
    <2> QED BY <2>4, <2>5
  <1> QED BY <1>3, <1>4, <1>5

\* Crashes and stalls.
LEMMA Faults ==
    ASSUME InductiveInvariant, NEW w \in Workers, Crash(w) \/ Stall(w)
    PROVE  InductiveInvariant'
  <1> USE Facts
  <1>1. faults' \in 0 .. MaxFaults
    BY JobQueueAssumption DEF Crash, Stall
  <1>2. CASE Crash(w)
    BY <1>1, <1>2, Ending DEF Crash
  <1>3. CASE Stall(w)
    <2> DEFINE l == [me[w] EXCEPT !.stalled = TRUE]
    <2>1. l \in Locals /\ l.pc = me[w].pc /\ l.job = me[w].job /\ l.token = me[w].token
          /\ l.version = me[w].version /\ l.retries = me[w].retries
      BY DEF Locals
    <2>2. me' = [me EXCEPT ![w] = l] /\ job' = job /\ asked' = asked
      BY <1>3 DEF Stall
    <2> HIDE DEF l
    <2>3. LocalOK(w, l, job)
      BY <2>1 DEF LocalOK
    <2> QED BY <1>1, <2>1, <2>2, <2>3, LocalStep
  <1> QED BY <1>2, <1>3

\* No job, idle workers.
LEMMA InitOK == Init => InductiveInvariant
  <1> SUFFICES ASSUME Init PROVE InductiveInvariant
    OBVIOUS
  <1>1. NoRow \in Rows
    BY JobQueueAssumption DEF NoRow, Rows, Statuses
  <1>2. /\ NoRow.status = "NONE" /\ NoRow.key = None /\ NoRow.token = None
        /\ NoRow.result = None /\ NoRow.retries = 0
    BY DEF NoRow
  <1>3. RowOK(NoRow)
    BY <1>2, JobQueueAssumption DEF RowOK
  <1>4. TypeOK
    BY <1>1, IdleOK, JobQueueAssumption DEF Init, TypeOK
  <1>5. OneJobPerKey
    BY <1>2 DEF Init, OneJobPerKey, Exists
  <1> QED BY <1>3, <1>4, <1>5, IdleOK DEF Init, InductiveInvariant

\* One case per action.
LEMMA NextOK == InductiveInvariant /\ [Next]_vars => InductiveInvariant'
  <1> SUFFICES ASSUME InductiveInvariant, [Next]_vars PROVE InductiveInvariant'
    OBVIOUS
  <1>1. CASE UNCHANGED vars
    BY <1>1 DEF vars, InductiveInvariant, TypeOK, OneJobPerKey, Exists
  <1>2. ASSUME NEW w \in Workers, EnsureLease(w, "enter", "handler") \/ EnsureLease(w, "leave", "finish")
        PROVE  InductiveInvariant'
    BY <1>2, PcStep DEF EnsureLease, Labels
  <1>3. ASSUME NEW w \in Workers, Handle(w) \/ UnsupportedType(w)
        PROVE  InductiveInvariant'
    BY <1>3, PcStep DEF Handle, UnsupportedType, Labels
  <1>4. ASSUME NEW w \in Workers, Work(w)
        PROVE  InductiveInvariant'
    BY <1>2, <1>3, <1>4, Claims, Heartbeats, Ends DEF Work, Enter, Leave
  <1>5. CASE Next
    BY <1>3, <1>4, <1>5, Enqueue, CancelAndTick, Claims, Heartbeats, Faults DEF Next
  <1> QED BY <1>1, <1>5

----------------------------------------------------------------------------
(* Theorems.                                                               *)

\* The inductive invariant holds in every reachable state.
THEOREM Invariance == Spec => []InductiveInvariant
  BY InitOK, NextOK, PTL DEF Spec

\* Every row and every process state stays in its type.
THEOREM TypeCorrect == Spec => []TypeOK
  <1>1. InductiveInvariant => TypeOK
    BY DEF InductiveInvariant
  <1> QED BY <1>1, Invariance, PTL

\* create() never makes two jobs for one idempotency key.
THEOREM KeyIsUnique == Spec => []OneJobPerKey
  <1>1. InductiveInvariant => OneJobPerKey
    BY DEF InductiveInvariant
  <1> QED BY <1>1, Invariance, PTL

\* At most one process passes the lease test of a job, whatever the ids of the
\* hosts: processes that share an id drew different tokens.
THEOREM OneLeaseHolder == Spec => []LeaseExclusive
  <1>1. InductiveInvariant => LeaseExclusive
    <2> SUFFICES ASSUME InductiveInvariant, NEW w \in Workers, NEW v \in Workers,
                        me[w].pc \notin {"idle", "reread"}, HasLease(w),
                        me[v].pc \notin {"idle", "reread"}, HasLease(v),
                        me[w].job = me[v].job
                 PROVE  w = v
      BY DEF LeaseExclusive
    <2>1. WorkerId[w] = WorkerId[v] /\ me[w].token = me[v].token
      BY DEF HasLease
    <2>2. CASE w \in Operators \/ v \in Operators
      BY <2>1, <2>2, OwnIdAssumption
    <2>3. CASE w \notin Operators /\ v \notin Operators
      BY <2>1, <2>3, Claimed
    <2> QED BY <2>2, <2>3
  <1> QED BY <1>1, Invariance, PTL

\* The stored result is the one of the last claim of the job.
THEOREM ResultIsCurrent == Spec => []ResultOfLastClaim
  <1>1. InductiveInvariant => ResultOfLastClaim
    BY DEF InductiveInvariant, RowOK, ResultOfLastClaim
  <1> QED BY <1>1, Invariance, PTL

\* A job fails for good exactly at failure number max_retries + 1.
THEOREM RetriesCounted == Spec => []RetryBudget
  <1>1. InductiveInvariant => RetryBudget
    BY DEF InductiveInvariant, RowOK, RetryBudget
  <1> QED BY <1>1, Invariance, PTL

\* The row a step writes is claimed, finished, failed, cancelled or aged; no step
\* leaves a terminal row with another status, result or version.
THEOREM TerminalStays == Spec => TerminalIsFinal
  <1> DEFINE Same(j) == /\ job'[j].status = job[j].status
                        /\ job'[j].result = job[j].result
                        /\ job'[j].version = job[j].version
  <1>1. ASSUME InductiveInvariant, Next, NEW j \in Jobs, job[j].status \in Terminal
        PROVE  Same(j)
    <2> USE Facts, <1>1
    <2>0. job[j] \in Rows /\ job[j].status \notin {"NONE", "PENDING", "RUNNING", "FAILED_RETRYABLE"}
      BY DEF Terminal
    <2>1. ASSUME NEW i \in Jobs, NEW r, i # j, job' = [job EXCEPT ![i] = r]
          PROVE  Same(j)
      BY <2>1
    <2>2. ASSUME NEW c \in Creators, NEW i \in Jobs, NEW delay \in 0 .. MaxWait, Insert(c, i, delay)
          PROVE  Same(j)
      BY <2>0, <2>1, <2>2 DEF Insert, Exists
    <2>3. ASSUME NEW i \in Jobs, Cancel(i)
          PROVE  Same(j)
      BY <2>0, <2>1, <2>3 DEF Cancel, Cancellable
    <2>4. ASSUME NEW w \in Workers, NEW i \in Jobs, ClaimNext(w, i) \/ ClaimById(w, i)
          PROVE  Same(j)
      BY <2>0, <2>1, <2>4 DEF ClaimNext, ClaimById, Claimable
    <2>5. ASSUME NEW w \in Workers, EnterHeartbeat(w) \/ Beat(w) \/ MarkFinished(w) \/ MarkFailedSave(w)
          PROVE  Same(j)
      <3>1. me[w].job \in Jobs
        BY <2>5, Claimed DEF EnterHeartbeat, Beat, MarkFinished, MarkFailedSave
      <3>2. job' = job \/ (HasLease(w) /\ \E r : job' = [job EXCEPT ![me[w].job] = r])
        BY <2>5 DEF EnterHeartbeat, Beat, MarkFinished, MarkFailedSave, Heartbeat
      <3>3. HasLease(w) => me[w].job # j
        BY <2>0 DEF HasLease
      <3> QED BY <2>1, <3>1, <3>2, <3>3
    <2>6. CASE Tick
      <3>1. job'[j] = Older(job[j])
        BY <2>6 DEF Tick
      <3> QED BY <2>0, <3>1 DEF Older, Rows
    <2>7. CASE job' = job
      BY <2>7
    <2>8. ASSUME NEW w \in Workers, Work(w) \/ UnsupportedType(w) \/ Crash(w) \/ Stall(w)
          PROVE  Same(j)
      BY <2>4, <2>5, <2>7, <2>8 DEF Work, UnsupportedType, Crash, Stall, Reread, Enter, Leave,
         EnsureLease, Handle, MarkFailedRead
    <2> HIDE DEF Same
    <2> QED BY <2>2, <2>3, <2>4, <2>5, <2>6, <2>7, <2>8 DEF Next, LookUp, InsertRefused
  <1>2. InductiveInvariant /\ [Next]_vars =>
          [\A j \in Jobs : job[j].status \in Terminal => Same(j)]_job
    BY <1>1 DEF vars
  <1> QED BY <1>2, Invariance, PTL DEF Spec, TerminalIsFinal

\* A RUNNING row leaves RUNNING only by mark_finished or mark_failed of the
\* process that holds its lease.
THEOREM HolderMoves == Spec => OnlyHolderMovesRunningJob
  <1> DEFINE Held(j) == \E w \in Workers : me[w].job = j /\ HasLease(w) /\ me'[w].pc = "idle"
  <1>1. ASSUME InductiveInvariant, Next, NEW j \in Jobs,
               job[j].status = "RUNNING", job'[j].status # "RUNNING"
        PROVE  Held(j)
    <2> USE Facts, <1>1
    <2>1. ASSUME NEW i \in Jobs, NEW r, job' = [job EXCEPT ![i] = r]
          PROVE  i = j /\ r.status # "RUNNING"
      BY <2>1
    <2>2. ASSUME NEW c \in Creators, NEW i \in Jobs, NEW delay \in 0 .. MaxWait, Insert(c, i, delay)
          PROVE  FALSE
      BY <2>1, <2>2 DEF Insert, Exists
    <2>3. ASSUME NEW i \in Jobs, Cancel(i)
          PROVE  FALSE
      BY <2>3 DEF Cancel, Cancellable
    <2>4. ASSUME NEW w \in Workers, NEW i \in Jobs, ClaimNext(w, i) \/ ClaimById(w, i)
          PROVE  FALSE
      <3>1. job[i].status \in {"PENDING", "FAILED_RETRYABLE", "RUNNING"}
        BY <2>4 DEF ClaimNext, ClaimById, Claimable
      <3>2. job' = [job EXCEPT ![i] = ClaimedRow(job[i], w)]
        BY <2>4 DEF ClaimNext, ClaimById
      <3>3. ClaimedRow(job[i], w).status = "RUNNING"
        BY <3>1, ClaimOK
      <3> QED BY <2>1, <3>2, <3>3
    <2>5. ASSUME NEW w \in Workers, EnterHeartbeat(w) \/ Beat(w)
          PROVE  FALSE
      <3>1. me[w].job \in Jobs
        BY <2>5, Claimed DEF EnterHeartbeat, Beat
      <3>2. job' = job \/ job' = [job EXCEPT ![me[w].job].age = 0]
        BY <2>5 DEF EnterHeartbeat, Beat, Heartbeat
      <3> QED BY <3>1, <3>2 DEF Rows
    <2>6. ASSUME NEW w \in Workers, MarkFinished(w) \/ MarkFailedSave(w)
          PROVE  Held(j)
      <3>1. me[w].job \in Jobs
        BY <2>6, Claimed DEF MarkFinished, MarkFailedSave
      <3>2. HasLease(w) /\ \E r : job' = [job EXCEPT ![me[w].job] = r]
        BY <2>6 DEF MarkFinished, MarkFailedSave
      <3>3. me'[w].pc = "idle"
        BY <2>6 DEF MarkFinished, MarkFailedSave, Idle
      <3> QED BY <2>1, <3>1, <3>2, <3>3
    <2>7. Tick => FALSE
      <3> SUFFICES ASSUME Tick PROVE FALSE
        OBVIOUS
      <3>1. job'[j] = Older(job[j])
        BY DEF Tick
      <3> QED BY <3>1 DEF Older, Rows
    <2>8. job' # job
      OBVIOUS
    <2> HIDE DEF Held
    <2>9. ASSUME NEW w \in Workers, Work(w) \/ UnsupportedType(w) \/ Crash(w) \/ Stall(w)
          PROVE  Held(j)
      BY <2>4, <2>5, <2>6, <2>8, <2>9 DEF Work, UnsupportedType, Crash, Stall, Reread, Enter,
         Leave, EnsureLease, Handle, MarkFailedRead
    <2> QED BY <2>2, <2>3, <2>4, <2>5, <2>7, <2>8, <2>9 DEF Next, LookUp, InsertRefused
  <1>2. InductiveInvariant /\ [Next]_vars =>
          [\A j \in Jobs : job[j].status = "RUNNING" /\ job'[j].status # "RUNNING" => Held(j)]_job
    BY <1>1 DEF vars
  <1> QED BY <1>2, Invariance, PTL DEF Spec, OnlyHolderMovesRunningJob

\* A job has one row, one lease holder, one result and one failure count.
THEOREM JobIsOne == Spec => []OneOfEach
  <1>1. OneJobPerKey /\ LeaseExclusive /\ ResultOfLastClaim /\ RetryBudget => OneOfEach
    BY DEF OneOfEach
  <1> QED BY <1>1, KeyIsUnique, OneLeaseHolder, ResultIsCurrent, RetriesCounted, PTL

\* A late worker, claim or cancel changes neither an ended nor a held job.
THEOREM LateIsHarmless == Spec => LateStepsChangeNothing
  BY TerminalStays, HolderMoves DEF LateStepsChangeNothing

----------------------------------------------------------------------------
(* Who pays for a claim: an earlier failure, a fault, or the process at it. *)

\* Process w, with the local state l, works within the lease of the row r.
Holds(w, l, r) ==
    /\ l.pc # "idle" /\ ~l.stalled
    /\ \/ /\ r.status = "RUNNING" /\ r.owner = WorkerId[w]
          /\ r.token = l.token /\ r.version = l.version
       \/ l.pc = "reread" /\ r.token[1] = w

\* The failures of the row and f faults account for its claims.
Paid(r, f) == r.version <= r.retries + f

\* The last claim of a row that runs or succeeded need not be paid, and that of
\* a row that runs only while a process is in time with it.
RowCharged(j) ==
    /\ job[j].status \notin {"RUNNING", "SUCCEEDED"} => Paid(job[j], faults)
    /\ job[j].status \in {"RUNNING", "SUCCEEDED"} => Paid(job[j], faults + 1)
    /\ job[j].status = "RUNNING" =>
          Paid(job[j], faults) \/ \E w \in Workers : me[w].job = j /\ Holds(w, me[w], job[j])

\* A process in time is not reclaimed, unless it stalled before it read its row.
Unclaimed(w) ==
    LET r == job[me[w].job] IN
    me[w].pc # "idle" /\ r.status = "RUNNING" /\ Holds(w, me[w], r) =>
        r.age < Lease \/ Paid(r, faults)

Charged == (\A j \in Jobs : RowCharged(j)) /\ \A w \in Workers : Unclaimed(w)

\* What stays paid when faults grow.
LEMMA StaysPaid ==
    ASSUME NEW r \in Rows, NEW f \in Nat, NEW g \in Nat, f <= g, Paid(r, f)
    PROVE  Paid(r, g)
  BY DEF Paid, Rows

\* The invariant in the forms the steps use.
LEMMA ChargeFacts ==
    ASSUME InductiveInvariant
    PROVE  /\ job \in [Jobs -> Rows] /\ me \in [Workers -> Locals] /\ faults \in Nat
           /\ \A j \in Jobs : RowOK(job[j])
           /\ \A w \in Workers : me[w].pc # "idle" =>
                 me[w].job \in Jobs /\ (me[w].pc = "reread" => w \in Operators)
  BY DEF InductiveInvariant, TypeOK, LocalOK

\* A step that concerns one row, and processes at it before and after.
LEMMA ChargeStep ==
    ASSUME InductiveInvariant, InductiveInvariant', Charged, faults <= faults', NEW j \in Jobs,
           \A i \in Jobs : i # j => job'[i] = job[i],
           \A v \in Workers : \/ me'[v] = me[v]
                              \/ /\ me[v].pc = "idle" \/ me[v].job = j
                                 /\ me'[v].pc = "idle" \/ me'[v].job = j,
           RowCharged(j)',
           \A v \in Workers : me'[v].pc # "idle" /\ me'[v].job = j => Unclaimed(v)'
    PROVE  Charged'
  <1>0. faults \in Nat /\ faults' \in Nat /\ faults + 1 \in Nat /\ faults + 1 <= faults' + 1
        /\ faults' + 1 \in Nat /\ job \in [Jobs -> Rows]
        /\ \A v \in Workers : me'[v].pc # "idle" => me'[v].job \in Jobs
    <2>1. faults \in Nat /\ faults' \in Nat
      BY JobQueueAssumption DEF InductiveInvariant, TypeOK
    <2>2. \A v \in Workers : me'[v].pc # "idle" => me'[v].job \in Jobs
      BY DEF InductiveInvariant, LocalOK
    <2>3. faults + 1 \in Nat /\ faults' + 1 \in Nat /\ faults + 1 <= faults' + 1
      <3>1. \A a, b \in Nat : a <= b => a + 1 \in Nat /\ b + 1 \in Nat /\ a + 1 <= b + 1
        OBVIOUS
      <3> QED BY <2>1, <3>1
    <2>4. job \in [Jobs -> Rows]
      BY ChargeFacts
    <2> QED BY <2>1, <2>2, <2>3, <2>4
  <1>1. ASSUME NEW i \in Jobs, i # j PROVE RowCharged(i)'
    <2>1. job'[i] = job[i] /\ RowCharged(i) /\ job[i] \in Rows
      BY <1>0, <1>1 DEF Charged
    <2>2. /\ Paid(job[i], faults) => Paid(job[i], faults')
          /\ Paid(job[i], faults + 1) => Paid(job[i], faults' + 1)
      BY <1>0, <2>1, StaysPaid
    <2>3. ASSUME NEW w \in Workers, me[w].job = i, Holds(w, me[w], job[i])
          PROVE  me'[w].job = i /\ Holds(w, me'[w], job'[i])
      BY <1>1, <2>1, <2>3 DEF Holds
    <2> QED BY <2>1, <2>2, <2>3 DEF RowCharged
  <1>2. ASSUME NEW v \in Workers PROVE Unclaimed(v)'
    <2>1. CASE me'[v].pc # "idle" /\ me'[v].job # j
      <3>1. me'[v] = me[v] /\ me[v].job \in Jobs /\ job'[me[v].job] = job[me[v].job]
        BY <1>0, <2>1
      <3>2. Unclaimed(v) /\ job[me[v].job] \in Rows
        BY <3>1, <1>0 DEF Charged
      <3> QED BY <3>1, <3>2, <1>0, StaysPaid DEF Unclaimed
    <2> QED BY <2>1 DEF Unclaimed
  <1> QED BY <1>1, <1>2 DEF Charged

\* The row changes its age at most, and the process is at it as it was.
LEMMA ChargeSame ==
    ASSUME InductiveInvariant, InductiveInvariant', Charged, faults' = faults,
           NEW w \in Workers, NEW j \in Jobs, me[w].job = j, me'[w].job = j,
           \A i \in Jobs : i # j => job'[i] = job[i],
           \A v \in Workers : v # w => me'[v] = me[v],
           job'[j].status = job[j].status, job'[j].owner = job[j].owner,
           job'[j].token = job[j].token, job'[j].version = job[j].version,
           job'[j].retries = job[j].retries, job'[j].age \in {0, job[j].age},
           Holds(w, me[w], job[j]) <=> Holds(w, me'[w], job[j]),
           me[w].pc # "idle"
    PROVE  Charged'
  <1>1. \A v \in Workers : me[v].job = j =>
            (me'[v].job = j /\ (Holds(v, me[v], job[j]) <=> Holds(v, me'[v], job'[j])))
    BY DEF Holds
  <1>2. RowCharged(j)'
    BY <1>1 DEF Charged, RowCharged, Paid
  <1>3. 0 < Lease
    BY JobQueueAssumption
  <1>4. ASSUME NEW v \in Workers, me'[v].pc # "idle" /\ me'[v].job = j
        PROVE  Unclaimed(v)'
    <2>1. me[v].job = j /\ me[v].pc # "idle" /\ Unclaimed(v)
      BY <1>4 DEF Charged
    <2> QED BY <1>1, <1>3, <1>4, <2>1 DEF Unclaimed, Paid
  <1>5. faults <= faults'
    BY ChargeFacts
  <1> QED BY <1>2, <1>4, <1>5, ChargeStep

\* The row is left paid, and runs no more.
LEMMA ChargeEnd ==
    ASSUME InductiveInvariant, InductiveInvariant', Charged, faults' = faults, NEW j \in Jobs,
           \A i \in Jobs : i # j => job'[i] = job[i],
           \A v \in Workers : \/ me'[v] = me[v]
                              \/ me[v].job = j /\ me'[v].pc = "idle",
           job'[j].status # "RUNNING",
           job'[j].status # "SUCCEEDED" => Paid(job'[j], faults),
           job'[j].status = "SUCCEEDED" => Paid(job'[j], faults + 1)
    PROVE  Charged'
  <1>1. RowCharged(j)'
    BY DEF RowCharged
  <1>2. \A v \in Workers : me'[v].pc # "idle" /\ me'[v].job = j => Unclaimed(v)'
    BY DEF Unclaimed
  <1>3. faults <= faults'
    BY ChargeFacts
  <1> QED BY <1>1, <1>2, <1>3, ChargeStep

\* A process gives up a row that it is not in time with, or faults.
LEMMA ChargeLeave ==
    ASSUME InductiveInvariant, InductiveInvariant', Charged, job' = job,
           NEW w \in Workers, me[w].pc # "idle",
           \A v \in Workers : v # w => me'[v] = me[v],
           me'[w].pc = "idle" \/ (me'[w].stalled /\ me'[w].job = me[w].job),
           \/ faults' = faults /\ (job[me[w].job].status = "RUNNING" => ~Holds(w, me[w], job[me[w].job]))
           \/ faults' = faults + 1
    PROVE  Charged'
  <1>j. PICK j : j = me[w].job
    OBVIOUS
  <1>0. j \in Jobs /\ job[j] \in Rows /\ faults \in Nat /\ faults' \in Nat /\ faults <= faults'
    <2>1. j \in Jobs /\ job[j] \in Rows /\ faults \in Nat
      BY <1>j, ChargeFacts
    <2> QED BY <2>1
  <1>1. ~Holds(w, me'[w], job[j])
    BY DEF Holds
  <1>2. RowCharged(j)'
    <2>0. RowCharged(j) /\ faults + 1 \in Nat /\ faults' + 1 \in Nat /\ faults + 1 <= faults' + 1
      <3>1. RowCharged(j)
        BY <1>0 DEF Charged
      <3>2. \A a, b \in Nat : a <= b => a + 1 \in Nat /\ b + 1 \in Nat /\ a + 1 <= b + 1
        OBVIOUS
      <3> QED BY <1>0, <3>1, <3>2
    <2>1. /\ Paid(job[j], faults) => Paid(job[j], faults')
          /\ Paid(job[j], faults + 1) => Paid(job[j], faults' + 1)
      BY <1>0, <2>0, StaysPaid
    <2>2. CASE faults' = faults + 1
      BY <2>0, <2>1, <2>2 DEF RowCharged
    <2>3. CASE faults' = faults /\ (job[j].status = "RUNNING" => ~Holds(w, me[w], job[j]))
      <3>1. ASSUME NEW v \in Workers, me[v].job = j, Holds(v, me[v], job[j]), job[j].status = "RUNNING"
            PROVE  me'[v].job = j /\ Holds(v, me'[v], job[j])
        BY <1>j, <2>3, <3>1
      <3> QED BY <2>0, <2>3, <3>1 DEF RowCharged
    <2> QED BY <1>j, <2>2, <2>3
  <1>3. ASSUME NEW v \in Workers, me'[v].pc # "idle" /\ me'[v].job = j
        PROVE  Unclaimed(v)'
    <2>1. CASE v = w
      BY <1>1, <1>3, <2>1 DEF Unclaimed
    <2>2. CASE v # w
      <3>1. me'[v] = me[v] /\ Unclaimed(v)
        BY <2>2 DEF Charged
      <3> QED BY <1>0, <1>3, <3>1, StaysPaid DEF Unclaimed
    <2> QED BY <2>1, <2>2
  <1>4. \A v \in Workers : \/ me'[v] = me[v]
                           \/ /\ me[v].pc = "idle" \/ me[v].job = j
                              /\ me'[v].pc = "idle" \/ me'[v].job = j
    BY <1>j
  <1> QED BY <1>0, <1>2, <1>3, <1>4, ChargeStep

\* A claim is paid by what ended the last one; a stale lease by a fault.
LEMMA ChargeClaim ==
    ASSUME InductiveInvariant, InductiveInvariant', Charged, NEW w \in Workers, NEW j \in Jobs,
           ClaimNext(w, j) \/ ClaimById(w, j)
    PROVE  Charged'
  <1> DEFINE r == job[j]
             new == ClaimedRow(r, w)
  <1>0. /\ r \in Rows /\ faults' = faults /\ faults \in Nat /\ me[w].pc = "idle"
        /\ job' = [job EXCEPT ![j] = new] /\ job \in [Jobs -> Rows] /\ me \in [Workers -> Locals]
        /\ r.status \in {"PENDING", "FAILED_RETRYABLE"} \/ (r.status = "RUNNING" /\ r.age = Lease)
    BY ChargeFacts DEF ClaimNext, ClaimById, Claimable
  <1>1. /\ new.status = "RUNNING" /\ new.owner = WorkerId[w] /\ new.token[1] = w
        /\ new.version = r.version + 1 /\ new.retries = r.retries /\ new.age = 0
        /\ r.version \in Nat /\ r.retries \in Nat
    BY <1>0 DEF ClaimedRow, Rows
  <1>2. Paid(r, faults)
    <2>1. CASE r.status \in {"PENDING", "FAILED_RETRYABLE"}
      BY <2>1 DEF Charged, RowCharged
    <2>2. CASE r.status = "RUNNING" /\ r.age = Lease
      <3>1. \A v \in Workers : me[v].job = j /\ Holds(v, me[v], r) => Paid(r, faults)
        BY <2>2, JobQueueAssumption DEF Charged, Unclaimed, Holds
      <3> QED BY <2>2, <3>1 DEF Charged, RowCharged
    <2> QED BY <1>0, <2>1, <2>2
  <1> HIDE DEF new
  <1>3. Paid(new, faults + 1)
    BY <1>0, <1>1, <1>2 DEF Paid
  <1>4. /\ me'[w].pc # "idle" /\ me'[w].job = j /\ Holds(w, me'[w], new)
        /\ \A v \in Workers : v # w => me'[v] = me[v]
    <2>1. CASE ClaimNext(w, j)
      <3>1. me' = [me EXCEPT ![w] = Holding("claimed", j, new)]
        BY <2>1 DEF ClaimNext, new
      <3>2. LET l == Holding("claimed", j, new)
            IN  /\ l.pc = "claimed" /\ l.job = j /\ ~l.stalled
                /\ l.token = new.token /\ l.version = new.version
        BY DEF Holding, Idle
      <3> QED BY <1>0, <1>1, <3>1, <3>2 DEF Holds
    <2>2. CASE ClaimById(w, j)
      <3>1. me' = [me EXCEPT ![w] = [Idle EXCEPT !.pc = "reread", !.job = j]]
        BY <2>2 DEF ClaimById
      <3>2. LET l == [Idle EXCEPT !.pc = "reread", !.job = j]
            IN  l.pc = "reread" /\ l.job = j /\ ~l.stalled
        BY DEF Idle
      <3> QED BY <1>0, <1>1, <3>1, <3>2 DEF Holds
    <2> QED BY <2>1, <2>2
  <1>5. job'[j] = new /\ \A i \in Jobs : i # j => job'[i] = job[i]
    BY <1>0
  <1>6. RowCharged(j)'
    BY <1>0, <1>1, <1>3, <1>4, <1>5 DEF RowCharged
  <1>7. \A v \in Workers : me'[v].pc # "idle" /\ me'[v].job = j => Unclaimed(v)'
    BY <1>1, <1>5, JobQueueAssumption DEF Unclaimed
  <1>8. faults <= faults'
    BY <1>0
  <1> QED BY <1>0, <1>4, <1>5, <1>6, <1>7, <1>8, ChargeStep

\* Reading the row back: the process is in time as it was, or resumes after a
\* stall that paid.
LEMMA ChargeReread ==
    ASSUME InductiveInvariant, InductiveInvariant', Charged, NEW w \in Workers, Reread(w)
    PROVE  Charged'
  <1> DEFINE j == me[w].job
             r == job[j]
             l == Holding("claimed", j, r)
  <1>0. /\ me[w].pc = "reread" /\ j \in Jobs /\ r \in Rows /\ w \in Operators /\ job' = job
        /\ faults' = faults /\ faults \in Nat /\ me \in [Workers -> Locals] /\ RowOK(r)
        /\ \A v \in Workers : me[v].pc # "idle" => me[v].job \in Jobs
    BY ChargeFacts DEF Reread
  <1>1. CASE r.status # "RUNNING"
    <2>1. me' = [me EXCEPT ![w] = Idle] /\ Idle.pc = "idle"
      BY <1>1 DEF Reread, Idle
    <2>2. me'[w].pc = "idle" /\ \A v \in Workers : v # w => me'[v] = me[v]
      BY <1>0, <2>1
    <2> QED BY <1>0, <1>1, <2>2, ChargeLeave
  <1>2. CASE r.status = "RUNNING"
    <2>1. me' = [me EXCEPT ![w] = l]
      BY <1>2 DEF Reread
    <2>2. /\ l.pc = "claimed" /\ l.job = j /\ ~l.stalled
          /\ l.token = r.token /\ l.version = r.version
      BY DEF Holding, Idle
    <2> HIDE DEF l
    <2>3. me'[w] = l /\ \A v \in Workers : v # w => me'[v] = me[v]
      BY <1>0, <2>1
    <2>4. r.owner = WorkerId[r.token[1]] /\ r.token \in Tokens
      BY <1>0, <1>2 DEF RowOK, Rows
    <2>5. r.token[1] \in Workers
      BY <2>4 DEF Tokens
    <2>6. Holds(w, l, r) <=> r.token[1] = w
      BY <1>0, <1>2, <2>2, <2>4, <2>5, OwnIdAssumption DEF Holds
    <2>7. Holds(w, me[w], r) => r.token[1] = w
      BY <1>0, <2>4, <2>5, OwnIdAssumption DEF Holds
    <2>8. r.token[1] = w /\ ~Holds(w, me[w], r) => Paid(r, faults)
      <3> SUFFICES ASSUME r.token[1] = w, ~Holds(w, me[w], r) PROVE Paid(r, faults)
        OBVIOUS
      <3>1. \A v \in Workers : Holds(v, me[v], r) => v = w
        BY <1>0, <2>4, OwnIdAssumption DEF Holds
      <3> QED BY <1>0, <1>2, <3>1 DEF Charged, RowCharged
    <2>9. RowCharged(j)'
      BY <1>0, <1>2, <2>2, <2>3, <2>6, <2>7 DEF Charged, RowCharged
    <2>10. ASSUME NEW v \in Workers, me'[v].pc # "idle" /\ me'[v].job = j
           PROVE  Unclaimed(v)'
      <3>1. CASE v # w
        BY <1>0, <2>3, <3>1 DEF Charged, Unclaimed
      <3>2. CASE v = w
        BY <1>0, <1>2, <2>2, <2>3, <2>6, <2>8, <3>2 DEF Charged, Unclaimed
      <3> QED BY <3>1, <3>2
    <2>11. faults <= faults'
      BY <1>0
    <2> HIDE DEF j
    <2> QED BY <1>0, <2>2, <2>3, <2>9, <2>10, <2>11, ChargeStep DEF j
  <1> QED BY <1>1, <1>2

\* Heartbeats and the moves of the program counter within a job.
LEMMA ChargeMoves ==
    ASSUME InductiveInvariant, InductiveInvariant', Charged, NEW w \in Workers,
           \/ EnterHeartbeat(w) \/ Beat(w) \/ Enter(w) \/ Leave(w) \/ Handle(w) \/ UnsupportedType(w)
    PROVE  Charged'
  <1> DEFINE j == me[w].job
  <1>0. /\ me[w].pc \notin {"idle", "reread"} /\ faults' = faults /\ j \in Jobs
        /\ job \in [Jobs -> Rows] /\ me \in [Workers -> Locals] /\ me[w] \in Locals
    BY ChargeFacts DEF EnterHeartbeat, Beat, Enter, Leave, Handle, UnsupportedType, Heartbeat,
           EnsureLease
  <1>1. \/ job' = job
        \/ job' = [job EXCEPT ![j] = [job[j] EXCEPT !.age = 0]]
    BY DEF EnterHeartbeat, Beat, Enter, Leave, Handle, UnsupportedType, Heartbeat, EnsureLease
  <1>2. PICK pc \in Labels \ {"idle", "reread"}, lost \in BOOLEAN :
            \/ me' = [me EXCEPT ![w] = [me[w] EXCEPT !.pc = pc]]
            \/ me' = [me EXCEPT ![w] = [me[w] EXCEPT !.pc = pc, !.lost = lost]]
    <2>1. CASE EnterHeartbeat(w) \/ Beat(w)
      <3>1. PICK pc \in {"enter", "handler", "leave"} : Heartbeat(w, pc)
        BY <2>1 DEF EnterHeartbeat, Beat
      <3>2. PICK lost \in BOOLEAN : lost <=> (me[w].lost \/ ~HasLease(w))
        OBVIOUS
      <3>3. (me[w].lost \/ ~HasLease(w)) = lost
        BY <3>2, Zenon DEF HasLease
      <3>4. me' = [me EXCEPT ![w] = [me[w] EXCEPT !.pc = pc, !.lost = lost]]
        BY <3>1, <3>3, Zenon DEF Heartbeat
      <3> QED BY <3>1, <3>4 DEF Labels
    <2>2. CASE Enter(w) \/ Leave(w)
      BY <2>2 DEF Enter, Leave, EnsureLease, Labels
    <2>3. CASE Handle(w) \/ UnsupportedType(w)
      BY <2>3 DEF Handle, UnsupportedType, Labels
    <2> QED BY <2>1, <2>2, <2>3
  <1>3. /\ me'[w].pc \notin {"idle", "reread"} /\ me'[w].job = j /\ me'[w].token = me[w].token
        /\ me'[w].version = me[w].version /\ me'[w].stalled = me[w].stalled
        /\ \A v \in Workers : v # w => me'[v] = me[v]
    BY <1>0, <1>2 DEF Locals
  <1>4. Holds(w, me[w], job[j]) <=> Holds(w, me'[w], job[j])
    BY <1>0, <1>3 DEF Holds
  <1>5. /\ \A i \in Jobs : i # j => job'[i] = job[i]
        /\ job'[j].status = job[j].status /\ job'[j].owner = job[j].owner
        /\ job'[j].token = job[j].token /\ job'[j].version = job[j].version
        /\ job'[j].retries = job[j].retries /\ job'[j].age \in {0, job[j].age}
    BY <1>0, <1>1 DEF Rows
  <1> HIDE DEF j
  <1> QED BY <1>0, <1>3, <1>4, <1>5, ChargeSame DEF j

\* mark_finished and mark_failed: with the lease the row ends paid, without it
\* the process was not in time.
LEMMA ChargeEnds ==
    ASSUME InductiveInvariant, InductiveInvariant', Charged, NEW w \in Workers,
           MarkFinished(w) \/ MarkFailedRead(w) \/ MarkFailedSave(w)
    PROVE  Charged'
  <1> DEFINE j == me[w].job
  <1>0. /\ me[w].pc \in {"finish", "failRead", "failSave"} /\ faults' = faults /\ j \in Jobs
        /\ job \in [Jobs -> Rows] /\ me \in [Workers -> Locals] /\ me[w] \in Locals
        /\ job[j] \in Rows /\ faults \in Nat
        /\ job[j].version \in Nat /\ job[j].retries \in Nat
    BY ChargeFacts DEF MarkFinished, MarkFailedRead, MarkFailedSave, Rows
  <1>1. CASE me' = [me EXCEPT ![w] = Idle] /\ job' = job /\ ~HasLease(w)
    <2>1. me'[w].pc = "idle" /\ \A v \in Workers : v # w => me'[v] = me[v]
      BY <1>0, <1>1 DEF Idle
    <2>2. ~Holds(w, me[w], job[j])
      BY <1>0, <1>1 DEF Holds, HasLease
    <2> QED BY <1>0, <1>1, <2>1, <2>2, ChargeLeave
  <1>2. ASSUME NEW new \in Rows, me' = [me EXCEPT ![w] = Idle], HasLease(w),
               job' = [job EXCEPT ![j] = new], new.status # "RUNNING",
               new.status # "SUCCEEDED" => Paid(new, faults),
               new.status = "SUCCEEDED" => Paid(new, faults + 1)
        PROVE  Charged'
    <2>1. \A v \in Workers : \/ me'[v] = me[v]
                             \/ me[v].job = j /\ me'[v].pc = "idle"
      BY <1>0, <1>2 DEF Idle
    <2>2. job'[j] = new /\ \A i \in Jobs : i # j => job'[i] = job[i]
      BY <1>0, <1>2
    <2> HIDE DEF j
    <2> QED BY <1>0, <1>2, <2>1, <2>2, ChargeEnd
  <1>3. HasLease(w) => job[j].status = "RUNNING" /\ job[j].version = me[w].version
                       /\ Paid(job[j], faults + 1)
    BY <1>0 DEF HasLease, Charged, RowCharged
  <1>4. CASE MarkFinished(w) /\ HasLease(w)
    <2> DEFINE new == Finished(job[j], w)
    <2>1. /\ new.status = "SUCCEEDED" /\ new.version = job[j].version
          /\ new.retries = job[j].retries
      BY <1>0 DEF Finished, Rows
    <2>2. new \in Rows
      BY <1>0 DEF Finished, Rows, Statuses, Terminal, Locals
    <2>3. job' = [job EXCEPT ![j] = new] /\ me' = [me EXCEPT ![w] = Idle]
      BY <1>4 DEF MarkFinished
    <2> HIDE DEF new
    <2> QED BY <1>2, <1>3, <1>4, <2>1, <2>2, <2>3 DEF Paid
  <1>5. CASE MarkFailedSave(w) /\ HasLease(w)
    <2> DEFINE new == Failed(job[j], w)
    <2>1. /\ new.status = AfterFailure(me[w].retries) /\ new.version = job[j].version
          /\ new.retries = me[w].retries
      BY <1>0 DEF Failed, Rows
    <2>2. AfterFailure(me[w].retries) \in {"FAILED_RETRYABLE", "FAILED_FINAL"}
      BY DEF AfterFailure
    <2>3. new \in Rows
      BY <1>0, <2>2 DEF Failed, Rows, Locals, Statuses, Terminal
    <2>4. me[w].retries = job[j].retries + 1
      BY <1>3, <1>5, Facts DEF LocalOK, MarkFailedSave
    <2>5. job' = [job EXCEPT ![j] = new] /\ me' = [me EXCEPT ![w] = Idle]
      BY <1>5 DEF MarkFailedSave
    <2> HIDE DEF new
    <2>6. Paid(new, faults)
      BY <1>0, <1>3, <1>5, <2>1, <2>4 DEF Paid
    <2> QED BY <1>2, <1>5, <2>1, <2>2, <2>3, <2>5, <2>6
  <1>6. CASE MarkFailedRead(w)
    <2>1. CASE me' = [me EXCEPT ![w] = Idle]
      <3>1. ~HasLease(w)
        <4>1. PICK f : me' = [me EXCEPT ![w] = f] /\
                 f = IF /\ job[j].owner = WorkerId[w] /\ job[j].token = me[w].token
                        /\ job[j].version = me[w].version
                     THEN [me[w] EXCEPT !.pc = "failSave", !.retries = job[j].retries + 1]
                     ELSE Idle
          BY <1>6 DEF MarkFailedRead
        <4>2. f.pc = "idle"
          <5>1. me'[w] = f /\ me'[w] = Idle
            BY <1>0, <2>1, <4>1
          <5> QED BY <5>1 DEF Idle
        <4>3. [me[w] EXCEPT !.pc = "failSave", !.retries = job[j].retries + 1].pc = "failSave"
          BY <1>0 DEF Locals
        <4> QED BY <4>1, <4>2, <4>3 DEF HasLease
      <3> QED BY <1>1, <1>6, <2>1, <3>1 DEF MarkFailedRead
    <2>2. CASE me' # [me EXCEPT ![w] = Idle]
      <3>0. PICK n \in Nat : n = job[j].retries + 1
        BY <1>0
      <3>1. me' = [me EXCEPT ![w] = [me[w] EXCEPT !.pc = "failSave", !.retries = n]] /\ job' = job
        BY <1>6, <2>2, <3>0 DEF MarkFailedRead
      <3>2. /\ me'[w].pc = "failSave" /\ me'[w].job = j /\ me'[w].token = me[w].token
            /\ me'[w].version = me[w].version /\ me'[w].stalled = me[w].stalled
            /\ \A v \in Workers : v # w => me'[v] = me[v]
        BY <1>0, <3>1 DEF Locals
      <3>3. Holds(w, me[w], job[j]) <=> Holds(w, me'[w], job[j])
        BY <1>0, <3>2 DEF Holds
      <3> HIDE DEF j
      <3> QED BY <1>0, <3>1, <3>2, <3>3, ChargeSame DEF j
    <2> QED BY <2>1, <2>2
  <1>7. CASE (MarkFinished(w) \/ MarkFailedSave(w)) /\ ~HasLease(w)
    BY <1>1, <1>7 DEF MarkFinished, MarkFailedSave
  <1> QED BY <1>4, <1>5, <1>6, <1>7

\* A fault pays for the claim it ends.
LEMMA ChargeFault ==
    ASSUME InductiveInvariant, InductiveInvariant', Charged, NEW w \in Workers, Crash(w) \/ Stall(w)
    PROVE  Charged'
  <1>0. /\ me[w].pc # "idle" /\ me \in [Workers -> Locals] /\ me[w] \in Locals /\ job' = job
        /\ faults' = faults + 1
    BY ChargeFacts DEF Crash, Stall
  <1>1. /\ \A v \in Workers : v # w => me'[v] = me[v]
        /\ me'[w].pc = "idle" \/ (me'[w].stalled /\ me'[w].job = me[w].job)
    <2>1. CASE Crash(w)
      BY <1>0, <2>1 DEF Crash, Idle
    <2>2. CASE Stall(w)
      BY <1>0, <2>2 DEF Stall, Locals
    <2> QED BY <2>1, <2>2
  <1> QED BY <1>0, <1>1, ChargeLeave

\* A tick leaves time to every process that is in time.
LEMMA ChargeTick ==
    ASSUME InductiveInvariant, Charged, Tick
    PROVE  Charged'
  <1>0. /\ job \in [Jobs -> Rows] /\ me' = me /\ faults' = faults
        /\ \A w \in Workers : me[w].pc # "idle" => me[w].job \in Jobs
    BY ChargeFacts DEF Tick
  <1>1. ASSUME NEW j \in Jobs
        PROVE  /\ job'[j].status = job[j].status /\ job'[j].owner = job[j].owner
               /\ job'[j].token = job[j].token /\ job'[j].version = job[j].version
               /\ job'[j].retries = job[j].retries
               /\ job'[j].age \in {job[j].age, job[j].age + 1} /\ job[j].age \in Nat
    <2>1. job'[j] = Older(job[j]) /\ job[j] \in Rows
      BY <1>0 DEF Tick
    <2> QED BY <2>1, JobQueueAssumption DEF Older, Rows
  <1>2. ASSUME NEW w \in Workers, NEW j \in Jobs
        PROVE  Holds(w, me'[w], job'[j]) <=> Holds(w, me[w], job[j])
    BY <1>0, <1>1 DEF Holds
  <1>3. ASSUME NEW j \in Jobs PROVE RowCharged(j)'
    <2>1. RowCharged(j)
      BY DEF Charged
    <2> QED BY <1>0, <1>1, <1>2, <2>1 DEF RowCharged, Paid
  <1>4. ASSUME NEW w \in Workers PROVE Unclaimed(w)'
    <2> SUFFICES ASSUME me[w].pc # "idle", job'[me[w].job].status = "RUNNING",
                        Holds(w, me[w], job'[me[w].job])
                 PROVE  job'[me[w].job].age < Lease
      BY <1>0 DEF Unclaimed
    <2>1. me[w].job \in Jobs /\ Holds(w, me[w], job[me[w].job])
      BY <1>0, <1>2
    <2>2. InTime(w)
      BY <2>1 DEF Holds, InTime, HasLease
    <2>3. job[me[w].job].age + 1 < Lease
      BY <2>2 DEF Tick
    <2> QED BY <1>1, <2>1, <2>3, JobQueueAssumption
  <1> QED BY <1>3, <1>4 DEF Charged

\* New and cancelled rows owe nothing.
LEMMA ChargeEnqueue ==
    ASSUME InductiveInvariant, InductiveInvariant', Charged,
           \/ \E c \in Creators, j \in Jobs, delay \in 0 .. MaxWait : Insert(c, j, delay)
           \/ \E j \in Jobs : Cancel(j)
    PROVE  Charged'
  <1>0. /\ job \in [Jobs -> Rows] /\ me' = me /\ faults' = faults /\ faults \in Nat
    BY ChargeFacts DEF Insert, Cancel
  <1>1. ASSUME NEW c \in Creators, NEW j \in Jobs, NEW delay \in 0 .. MaxWait, Insert(c, j, delay)
        PROVE  Charged'
    <2>1. NewRow(asked[c], delay).status = "PENDING" /\ NewRow(asked[c], delay).version = 0
          /\ NewRow(asked[c], delay).retries = 0
      BY DEF NewRow, NoRow
    <2>2. job'[j] = NewRow(asked[c], delay) /\ \A i \in Jobs : i # j => job'[i] = job[i]
      BY <1>0, <1>1 DEF Insert
    <2> QED BY <1>0, <2>1, <2>2, ChargeEnd DEF Paid
  <1>2. ASSUME NEW j \in Jobs, Cancel(j)
        PROVE  Charged'
    <2>1. /\ job'[j].status = "CANCELLED" /\ job'[j].version = job[j].version
          /\ job'[j].retries = job[j].retries /\ \A i \in Jobs : i # j => job'[i] = job[i]
      BY <1>0, <1>2 DEF Cancel, Rows
    <2>2. Paid(job[j], faults)
      BY <1>2 DEF Cancel, Cancellable, Charged, RowCharged
    <2> QED BY <1>0, <2>1, <2>2, ChargeEnd DEF Paid
  <1> QED BY <1>1, <1>2

\* One case per action.
LEMMA ChargeNext == InductiveInvariant /\ InductiveInvariant' /\ Charged /\ [Next]_vars => Charged'
  <1> SUFFICES ASSUME InductiveInvariant, InductiveInvariant', Charged, [Next]_vars PROVE Charged'
    OBVIOUS
  <1>1. CASE UNCHANGED <<job, me, faults>>
    BY <1>1 DEF Charged, RowCharged, Unclaimed
  <1>2. CASE UNCHANGED vars
    BY <1>1, <1>2 DEF vars
  <1>3. ASSUME NEW w \in Workers, Work(w)
        PROVE  Charged'
    BY <1>3, ChargeClaim, ChargeReread, ChargeMoves, ChargeEnds DEF Work
  <1>4. CASE Next
    BY <1>1, <1>3, <1>4, ChargeEnqueue, ChargeClaim, ChargeMoves, ChargeFault, ChargeTick
       DEF Next, LookUp, InsertRefused
  <1> QED BY <1>2, <1>4

\* A job is executed at most once for each recorded failure, each fault and its
\* success: a worker in time is never reclaimed, for any lease, jobs and workers.
THEOREM ReclaimsCounted == Spec => []ReclaimsAreFaults
  <1>1. Init => Charged
    <2> SUFFICES ASSUME Init PROVE Charged
      OBVIOUS
    <2>1. NoRow.status = "NONE" /\ NoRow.version = 0 /\ NoRow.retries = 0 /\ Idle.pc = "idle"
      BY DEF NoRow, Idle
    <2> QED BY <2>1 DEF Init, Charged, RowCharged, Unclaimed, Paid
  <1>2. InductiveInvariant /\ Charged => ReclaimsAreFaults
    <2> SUFFICES ASSUME InductiveInvariant, Charged, NEW j \in Jobs
                 PROVE  job[j].version <= job[j].retries + faults
                          + (IF job[j].status \in {"RUNNING", "SUCCEEDED"} THEN 1 ELSE 0)
      BY DEF ReclaimsAreFaults
    <2>1. RowCharged(j) /\ job[j].version \in Nat /\ job[j].retries \in Nat /\ faults \in Nat
      BY ChargeFacts DEF Charged, Rows
    <2> QED BY <2>1 DEF RowCharged, Paid
  <1> QED BY <1>1, <1>2, ChargeNext, Invariance, PTL DEF Spec

=============================================================================
