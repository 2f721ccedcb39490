-------------------------- MODULE InProcessProofs --------------------------
(***************************************************************************)
(* What holds inside one process, for any tasks, budgets, routes, callers, *)
(* checkers and times: the supervisor's tasks and budget, the gateway's    *)
(* spend, the evidence of a readiness answer, the citations of a published *)
(* conclusion, and the reports of the chat.                                *)
(***************************************************************************)
EXTENDS AgentSupervisor, ModelGateway, Readiness, BundleGrounding, SkillExecution,
        TotalsProofs, FiniteSetTheorems, SequenceTheorems, TLAPS

----------------------------------------------------------------------------
(* Agent supervisor.                                                       *)

----------------------------------------------------------------------------

\* States of a submitted task.
Futures == {"none", "queued", "running", "returned", "raised", "collected", "refused"}

\* Types of the supervisor.
SupervisorTypeOK ==
    /\ main \in [pc : {"submit", "answered", "raised"}, todo : SUBSET Tasks]
    /\ task \in [Tasks -> [future : Futures, usage : [Resources -> Nat]]]
    /\ used \in [Resources -> Int]
    /\ recorded \in SUBSET Tasks /\ errors \in SUBSET Tasks
    /\ subtasks \in SUBSET Tasks /\ slips \in SUBSET Tasks
    /\ agentRun \in {"RUNNING", "SUCCESS", "FAILED"}
    /\ writeErrors \in 0 .. MaxWriteErrors

\* What the main thread wrote about a task agrees with its future.
TaskKnown(t) ==
    /\ t \in main.todo => task[t].future = "none"
    /\ t \in recorded \cup slips => task[t].future = "collected"
    /\ task[t].future = "refused" => t \in errors
    /\ task[t].future = "collected" => t \in recorded \cup errors
    /\ task[t].future = "collected" /\ main.pc # "raised" => t \in subtasks
    /\ main.pc = "answered" => task[t].future \in {"collected", "refused"}

\* The run that was answered has the outcome of its tasks.
RunKnown == main.pc = "answered" => agentRun = Outcome

\* The inductive invariant of the run.
SupervisorInvariant ==
    /\ SupervisorTypeOK
    /\ \A t \in Tasks : TaskKnown(t)
    /\ RunKnown
    /\ BudgetIsAccounted

\* What a task reserves and used are numbers.
LEMMA AmountsAreNumbers ==
    ASSUME SupervisorTypeOK, NEW r \in Resources
    PROVE  /\ Limit[r] \in Nat
           /\ [t \in Tasks |-> Reservation[t][r]] \in [Tasks -> Nat]
           /\ [t \in Tasks |-> task[t].usage[r]] \in [Tasks -> Nat]
           /\ used[r] \in Int
           /\ IsFiniteSet(Tasks)
  <1>1. \A t \in Tasks : Reservation[t][r] \in Nat
    BY SupervisorAssumption
  <1>2. \A t \in Tasks : task[t].usage[r] \in Nat
    BY DEF SupervisorTypeOK
  <1> QED BY <1>1, <1>2, SupervisorAssumption DEF SupervisorTypeOK

\* What a set of tasks reserved, and what one more or one less changes.
LEMMA Reserved ==
    ASSUME SupervisorTypeOK, NEW r \in Resources, NEW S \in SUBSET Tasks, NEW t \in Tasks
    PROVE  /\ ReservedBy(S, r) \in Nat
           /\ ReservedBy({}, r) = 0
           /\ t \notin S => ReservedBy(S \cup {t}, r) = ReservedBy(S, r) + Reservation[t][r]
           /\ t \in S => ReservedBy(S, r) = Reservation[t][r] + ReservedBy(S \ {t}, r)
  <1> DEFINE f == [x \in Tasks |-> Reservation[x][r]]
  <1>1. f \in [Tasks -> Nat] /\ IsFiniteSet(Tasks) /\ f[t] = Reservation[t][r]
    BY AmountsAreNumbers
  <1> HIDE DEF f
  <1>2. /\ Total(f, S) \in Nat /\ Total(f, {}) = 0
        /\ \A x \in S : Total(f, S) = f[x] + Total(f, S \ {x})
    BY <1>1, NatTotalOf
  <1>3. t \notin S => Total(f, S \cup {t}) = Total(f, S) + f[t]
    BY <1>1, TotalJoined
  <1> QED BY <1>1, <1>2, <1>3 DEF ReservedBy, f

\* What the recorded artifacts used, when the future of one task moves.
LEMMA UsedTotals ==
    ASSUME SupervisorTypeOK, SupervisorTypeOK', NEW r \in Resources, NEW t \in Tasks,
           \A x \in Tasks \ {t} : task'[x].usage = task[x].usage,
           NEW VARIABLE S, S \in SUBSET Tasks, t \notin S
    PROVE  /\ UsedBy(S, r) \in Nat
           /\ Total([x \in Tasks |-> task'[x].usage[r]], S) = UsedBy(S, r)
           /\ Total([x \in Tasks |-> task'[x].usage[r]], S \cup {t})
                = UsedBy(S, r) + task'[t].usage[r]
  <1> DEFINE f == [x \in Tasks |-> task[x].usage[r]]
             h == [x \in Tasks |-> task'[x].usage[r]]
  <1>1. f \in [Tasks -> Nat] /\ h \in [Tasks -> Nat] /\ IsFiniteSet(Tasks)
    BY SupervisorAssumption DEF SupervisorTypeOK
  <1>2. \A x \in S : f[x] = h[x]
    OBVIOUS
  <1>3. h[t] = task'[t].usage[r]
    OBVIOUS
  <1> HIDE DEF f, h
  <1>4. Total(f, S) = Total(h, S)
    BY <1>1, <1>2, NatTotalSame
  <1>5. Total(h, S \cup {t}) = Total(h, S) + h[t]
    BY <1>1, TotalJoined
  <1>6. Total(f, S) \in Nat
    BY <1>1, NatTotalOf
  <1> QED BY <1>3, <1>4, <1>5, <1>6 DEF UsedBy, f, h

\* A total of integers that are released stays between nothing and what it was.
LEMMA ReleasedIs ==
    ASSUME SupervisorTypeOK, NEW t \in Tasks, NEW amount \in [Resources -> Int]
    PROVE  /\ Released(amount, t) \in [Resources -> Int]
           /\ \A r \in Resources :
                /\ Released(amount, t)[r] >= 0
                /\ Released(amount, t)[r] >= amount[r] - Reservation[t][r]
                /\ \/ Released(amount, t)[r] = 0
                   \/ Released(amount, t)[r] = amount[r] - Reservation[t][r]
  <1>1. \A r \in Resources : amount[r] \in Int /\ Reservation[t][r] \in Nat
    BY SupervisorAssumption
  <1> QED BY <1>1 DEF Released

\* A commit moves the task from what is reserved to what is used.
LEMMA CommittedIs ==
    ASSUME SupervisorTypeOK, NEW t \in Tasks
    PROVE  /\ Minus(used, Reservation[t]) \in [Resources -> Int]
           /\ Committed(t) \in [Resources -> Int]
           /\ \A r \in Resources :
                /\ Minus(used, Reservation[t])[r] = used[r] - Reservation[t][r]
                /\ Committed(t)[r] = used[r] - Reservation[t][r] + task[t].usage[r]
  <1>1. \A r \in Resources : used[r] \in Int /\ Reservation[t][r] \in Nat /\ task[t].usage[r] \in Nat
    BY SupervisorAssumption DEF SupervisorTypeOK
  <1> QED BY <1>1 DEF Minus, Plus, Committed

\* The main thread's steps that collect one task.
CollectStep(t) ==
    CollectArtifact(t) \/ CollectUnwritten(t) \/ CollectOverBudget(t) \/ CollectFailure(t)

\* Every step keeps the types.
LEMMA SupervisorTypeStep ==
    ASSUME SupervisorTypeOK, [SupervisorNext]_supervisorVars
    PROVE  SupervisorTypeOK'
  <1> DEFINE Rows == [future : Futures, usage : [Resources -> Nat]]
  <1>0. /\ \A t \in Tasks, x \in Futures : [task[t] EXCEPT !.future = x] \in Rows
        /\ task \in [Tasks -> Rows]
    BY DEF SupervisorTypeOK
  <1>a. ASSUME NEW t \in Tasks, NEW x \in Futures, task' = [task EXCEPT ![t].future = x]
        PROVE  task' \in [Tasks -> Rows]
    BY <1>0, <1>a
  <1>b. MaxWriteErrors \in Nat
    BY SupervisorAssumption
  <1>1. CASE UNCHANGED supervisorVars
    BY <1>1 DEF supervisorVars, SupervisorTypeOK
  <1>2. ASSUME NEW t \in Tasks, Reserve(t) PROVE SupervisorTypeOK'
    <2>1. Plus(used, Reservation[t]) \in [Resources -> Int]
      BY SupervisorAssumption DEF Plus, SupervisorTypeOK
    <2>2. task' \in [Tasks -> Rows]
      BY <1>2, <1>a DEF Reserve, Futures
    <2>3. used' \in [Resources -> Int] /\ errors' \in SUBSET Tasks
      BY <1>2, <2>1 DEF Reserve, SupervisorTypeOK
    <2>4. main' \in [pc : {"submit", "answered", "raised"}, todo : SUBSET Tasks]
      BY <1>2 DEF Reserve, SupervisorTypeOK
    <2> QED BY <1>2, <2>2, <2>3, <2>4 DEF Reserve, SupervisorTypeOK
  <1>3. ASSUME NEW t \in Tasks, CollectStep(t) PROVE SupervisorTypeOK'
    <2>1. task' \in [Tasks -> Rows]
      <3>1. task' = [task EXCEPT ![t].future = "collected"]
        BY <1>3 DEF CollectStep, CollectArtifact, CollectUnwritten, CollectOverBudget, CollectFailure, Collected
      <3> QED BY <3>1, <1>a DEF Futures
    <2>2. used' \in [Resources -> Int]
      <3>1. /\ Released(Committed(t), t) \in [Resources -> Int]
            /\ Released(Minus(used, Reservation[t]), t) \in [Resources -> Int]
            /\ Released(used, t) \in [Resources -> Int]
            /\ Committed(t) \in [Resources -> Int]
        <4>1. used \in [Resources -> Int]
          BY DEF SupervisorTypeOK
        <4> QED BY <4>1, CommittedIs, ReleasedIs
      <3> QED BY <1>3, <3>1 DEF CollectStep, CollectArtifact, CollectUnwritten, CollectOverBudget,
                                CollectFailure, Release
    <2>3. main' \in [pc : {"submit", "answered", "raised"}, todo : SUBSET Tasks]
      <3>1. main' = main \/ main' = [main EXCEPT !.pc = "raised"]
        BY <1>3 DEF CollectStep, CollectArtifact, CollectUnwritten, CollectOverBudget,
                    CollectFailure, Continue
      <3> QED BY <3>1 DEF SupervisorTypeOK
    <2>4. writeErrors' \in 0 .. MaxWriteErrors
      BY <1>3, <1>b DEF CollectStep, CollectArtifact, CollectUnwritten, CollectOverBudget,
                  CollectFailure, Writes, SupervisorTypeOK
    <2>5. /\ recorded' \in SUBSET Tasks /\ errors' \in SUBSET Tasks
          /\ subtasks' \in SUBSET Tasks /\ slips' \in SUBSET Tasks
          /\ agentRun' = agentRun
      BY <1>3 DEF CollectStep, CollectArtifact, CollectUnwritten, CollectOverBudget,
                  CollectFailure, SupervisorTypeOK
    <2> QED BY <2>1, <2>2, <2>3, <2>4, <2>5 DEF SupervisorTypeOK
  <1>4. CASE NextLayer
    <2>1. Layer(Earlier) \in SUBSET Tasks
      BY DEF Layer
    <2> QED BY <1>4, <2>1 DEF NextLayer, SupervisorTypeOK
  <1>5. CASE Finish
    <2>1. writeErrors' \in 0 .. MaxWriteErrors
      BY <1>5, <1>b DEF Finish, Writes, SupervisorTypeOK
    <2> QED BY <1>5, <2>1 DEF Finish, SupervisorTypeOK, Outcome
  <1>6. ASSUME NEW t \in Tasks, PoolStep(t) PROVE SupervisorTypeOK'
    <2>1. task' \in [Tasks -> Rows]
      <3>1. CASE RunOne(t) \/ SpecialistRaises(t)
        BY <3>1, <1>a DEF RunOne, SpecialistRaises, Futures
      <3>2. CASE SpecialistReturns(t)
        <4>1. PICK u \in Usages : task' = [task EXCEPT ![t] = [future |-> "returned", usage |-> u]]
          BY <3>2 DEF SpecialistReturns
        <4>2. [future |-> "returned", usage |-> u] \in Rows
          BY SupervisorAssumption DEF Futures
        <4> QED BY <4>1, <4>2, <1>0
      <3> QED BY <1>6, <3>1, <3>2 DEF PoolStep
    <2> QED BY <1>6, <2>1 DEF PoolStep, RunOne, SpecialistReturns, SpecialistRaises, SupervisorTypeOK
  <1> QED BY <1>1, <1>2, <1>3, <1>4, <1>5, <1>6 DEF SupervisorNext, MainStep, CollectStep

\* The future of one task moves: what is known of the others stays known.
LEMMA TaskKnownStep ==
    ASSUME SupervisorTypeOK, \A t \in Tasks : TaskKnown(t), RunKnown,
           [SupervisorNext]_supervisorVars
    PROVE  (\A t \in Tasks : TaskKnown(t)') /\ RunKnown'
  <1>0. /\ task \in [Tasks -> [future : Futures, usage : [Resources -> Nat]]]
        /\ main \in [pc : {"submit", "answered", "raised"}, todo : SUBSET Tasks]
    BY DEF SupervisorTypeOK
  <1>1. CASE UNCHANGED supervisorVars
    BY <1>1 DEF supervisorVars, TaskKnown, RunKnown, Outcome
  <1>2. ASSUME NEW t \in Tasks, Reserve(t) PROVE (\A s \in Tasks : TaskKnown(s)') /\ RunKnown'
    <2>1. /\ main'.pc = "submit" /\ main'.todo = main.todo \ {t} /\ main.pc = "submit"
          /\ errors' \in {errors, errors \cup {t}}
          /\ UNCHANGED <<recorded, subtasks, slips>>
          /\ task[t].future = "none"
          /\ \A s \in Tasks \ {t} : task'[s] = task[s]
          /\ \/ task'[t].future = "queued"
             \/ task'[t].future = "refused" /\ t \in errors'
      BY <1>2, <1>0 DEF Reserve, TaskKnown
    <2>2. ASSUME NEW s \in Tasks PROVE TaskKnown(s)'
      BY <2>1 DEF TaskKnown
    <2> QED BY <2>1, <2>2 DEF RunKnown
  <1>3. ASSUME NEW t \in Tasks, CollectStep(t) PROVE (\A s \in Tasks : TaskKnown(s)') /\ RunKnown'
    <2>1. /\ main.pc = "submit" /\ main.todo = {}
          /\ task[t].future \in {"returned", "raised"}
          /\ task' = [task EXCEPT ![t].future = "collected"]
      BY <1>3 DEF CollectStep, CollectArtifact, CollectUnwritten, CollectOverBudget, CollectFailure,
                  CanCollect, Collected
    <2>2. main' = main \/ main' = [main EXCEPT !.pc = "raised"]
      BY <1>3 DEF CollectStep, CollectArtifact, CollectUnwritten, CollectOverBudget, CollectFailure,
                  Continue
    <2>3. /\ recorded' \in {recorded, recorded \cup {t}} /\ slips' \in {slips, slips \cup {t}}
          /\ errors' \in {errors, errors \cup {t}} /\ subtasks' \in {subtasks, subtasks \cup {t}}
          /\ t \in recorded' \cup errors'
      BY <1>3 DEF CollectStep, CollectArtifact, CollectUnwritten, CollectOverBudget, CollectFailure
    <2>4. t \in subtasks' \/ main' = [main EXCEPT !.pc = "raised"]
      BY <1>3 DEF CollectStep, CollectArtifact, CollectUnwritten, CollectOverBudget, CollectFailure,
                  Continue, Writes
    <2>5. /\ main'.pc \in {"submit", "raised"} /\ main'.todo = {}
          /\ main'.pc = "raised" \/ t \in subtasks'
          /\ task'[t].future = "collected"
          /\ \A s \in Tasks \ {t} : task'[s] = task[s]
      BY <2>1, <2>2, <2>4, <1>0
    <2>6. ASSUME NEW s \in Tasks PROVE TaskKnown(s)'
      BY <2>1, <2>3, <2>5 DEF TaskKnown
    <2> QED BY <2>5, <2>6 DEF RunKnown
  <1>4. CASE NextLayer
    <2>1. /\ main' = [main EXCEPT !.todo = Layer(Earlier)] /\ main.pc = "submit" /\ InFlight = {}
          /\ UNCHANGED <<task, recorded, errors, subtasks, slips>>
      BY <1>4 DEF NextLayer
    <2>2. \A s \in Layer(Earlier) : task[s].future = "none"
      BY <2>1, <1>0 DEF Layer, Earlier, InFlight, Futures
    <2>3. main'.todo = Layer(Earlier) /\ main'.pc = "submit"
      BY <2>1, <1>0
    <2>4. ASSUME NEW s \in Tasks PROVE TaskKnown(s)'
      BY <2>1, <2>2, <2>3 DEF TaskKnown
    <2> QED BY <2>3, <2>4 DEF RunKnown
  <1>5. CASE Finish
    <2>1. /\ main.pc = "submit" /\ main.todo = {} /\ Earlier = Tasks
          /\ UNCHANGED <<task, recorded, errors, subtasks, slips>>
          /\ \/ main' = [main EXCEPT !.pc = "answered"] /\ agentRun' = Outcome
             \/ main' = [main EXCEPT !.pc = "raised"]
      BY <1>5 DEF Finish, Writes
    <2>2. /\ main'.todo = {}
          /\ \/ main'.pc = "answered" /\ agentRun' = Outcome
             \/ main'.pc = "raised"
      BY <2>1, <1>0
    <2>3. ASSUME NEW s \in Tasks PROVE TaskKnown(s)'
      BY <2>1, <2>2 DEF TaskKnown, Earlier
    <2>4. RunKnown'
      BY <2>1, <2>2 DEF RunKnown, Outcome
    <2> QED BY <2>3, <2>4
  <1>6. ASSUME NEW t \in Tasks, PoolStep(t) PROVE (\A s \in Tasks : TaskKnown(s)') /\ RunKnown'
    <2>1. /\ task[t].future \in {"queued", "running"}
          /\ task'[t].future \in {"running", "returned", "raised"}
          /\ \A s \in Tasks \ {t} : task'[s] = task[s]
          /\ UNCHANGED <<main, recorded, errors, subtasks, slips, agentRun>>
      BY <1>6, <1>0 DEF PoolStep, RunOne, SpecialistReturns, SpecialistRaises
    <2>2. ASSUME NEW s \in Tasks PROVE TaskKnown(s)'
      BY <2>1 DEF TaskKnown
    <2> QED BY <2>1, <2>2 DEF RunKnown, Outcome
  <1> QED BY <1>1, <1>2, <1>3, <1>4, <1>5, <1>6 DEF SupervisorNext, MainStep, CollectStep

\* The budget of one resource, in numbers: what is used, what the tasks in
\* flight reserved, what the artifacts used, and what was released twice.
BudgetLine(r) ==
    /\ used[r] <= Limit[r]
    /\ used[r] <= Owed(r)
    /\ used[r] >= Owed(r) - ReservedBy(slips, r)

\* The reservations of tasks that leave the set in flight do not depend on
\* the state.
LEMMA ReservedIsConstant == \A S, r : ReservedBy(S, r)' = ReservedBy(S, r)
  BY DEF ReservedBy

\* Every step keeps every line of the budget.
LEMMA BudgetStep ==
    ASSUME SupervisorTypeOK, SupervisorTypeOK', \A t \in Tasks : TaskKnown(t), BudgetIsAccounted,
           [SupervisorNext]_supervisorVars, NEW r \in Resources
    PROVE  BudgetLine(r)'
  <1>0. /\ task \in [Tasks -> [future : Futures, usage : [Resources -> Nat]]]
        /\ recorded \in SUBSET Tasks /\ slips \in SUBSET Tasks /\ InFlight \in SUBSET Tasks
        /\ used[r] \in Int /\ Limit[r] \in Nat
    BY AmountsAreNumbers DEF SupervisorTypeOK, InFlight
  <1>00. /\ used[r] <= Limit[r]
         /\ used[r] <= ReservedBy(InFlight, r) + UsedBy(recorded, r)
         /\ used[r] >= (ReservedBy(InFlight, r) + UsedBy(recorded, r)) - ReservedBy(slips, r)
    BY DEF BudgetIsAccounted, Owed
  <1>a. ASSUME NEW t \in Tasks
        PROVE  Reservation[t][r] \in Nat /\ task[t].usage[r] \in Nat
    BY SupervisorAssumption DEF SupervisorTypeOK
  <1>b. ASSUME UNCHANGED <<used, recorded, slips>>, InFlight' = InFlight,
               UsedBy(recorded, r)' = UsedBy(recorded, r)
        PROVE  BudgetLine(r)'
    BY <1>00, <1>b, Zenon DEF BudgetLine, Owed
  <1>1. CASE UNCHANGED supervisorVars
    BY <1>1, <1>b, Zenon DEF supervisorVars, UsedBy, InFlight
  <1>2. ASSUME NEW t \in Tasks, Reserve(t) PROVE BudgetLine(r)'
    <2>1. /\ task[t].future = "none" /\ t \notin InFlight /\ t \notin recorded
          /\ recorded' = recorded /\ slips' = slips
      BY <1>2, <1>0 DEF Reserve, TaskKnown, InFlight
    <2>2. UsedBy(recorded, r) \in Nat /\ UsedBy(recorded, r)' = UsedBy(recorded, r)
      <3>1. \A x \in Tasks \ {t} : task'[x].usage = task[x].usage
        BY <1>2, <1>0 DEF Reserve
      <3>2. UsedBy(recorded, r) \in Nat
        BY <3>1, <2>1, <1>0, UsedTotals
      <3>3. [x \in Tasks |-> task[x].usage[r]]' = [x \in Tasks |-> task[x].usage[r]]
        <4>1. \A x \in Tasks : task'[x].usage = task[x].usage
          BY <1>2, <1>0 DEF Reserve
        <4> QED BY <4>1, Zenon
      <3> QED BY <3>2, <3>3, <2>1, Zenon DEF UsedBy
    <2>3. CASE Fits(Plus(used, Reservation[t]))
      <3>1. used' = Plus(used, Reservation[t]) /\ task' = [task EXCEPT ![t].future = "queued"]
        BY <1>2, <2>3 DEF Reserve
      <3>2. used'[r] = used[r] + Reservation[t][r] /\ used'[r] <= Limit[r]
        BY <3>1, <2>3 DEF Plus, Fits
      <3>3. InFlight' = InFlight \cup {t}
        BY <3>1, <1>0 DEF InFlight
      <3>4. /\ ReservedBy(InFlight', r) = ReservedBy(InFlight, r) + Reservation[t][r]
            /\ ReservedBy(InFlight, r) \in Nat /\ ReservedBy(slips, r) \in Nat
        BY <3>3, <2>1, <1>0, Reserved
      <3> QED BY <3>2, <3>4, <2>1, <2>2, <1>0, <1>00, <1>a, ReservedIsConstant DEF BudgetLine, Owed
    <2>4. CASE ~Fits(Plus(used, Reservation[t]))
      <3>1. used' = used /\ task' = [task EXCEPT ![t].future = "refused"]
        BY <1>2, <2>4 DEF Reserve
      <3>2. InFlight' = InFlight
        BY <3>1, <2>1, <1>0 DEF InFlight
      <3> QED BY <3>1, <3>2, <2>1, <2>2, <1>b
    <2> QED BY <2>3, <2>4
  <1>3. ASSUME NEW t \in Tasks, CollectStep(t) PROVE BudgetLine(r)'
    <2>1. /\ task[t].future \in {"returned", "raised"}
          /\ task' = [task EXCEPT ![t].future = "collected"]
      BY <1>3 DEF CollectStep, CollectArtifact, CollectUnwritten, CollectOverBudget, CollectFailure,
                  CanCollect, Collected
    <2>2. t \in InFlight /\ t \notin recorded /\ t \notin slips /\ InFlight' = InFlight \ {t}
      BY <2>1, <1>0 DEF InFlight, TaskKnown
    <2>3. \A x \in Tasks : task'[x].usage = task[x].usage
      BY <2>1, <1>0
    <2>4. /\ UsedBy(recorded, r) \in Nat
          /\ recorded' = recorded => UsedBy(recorded, r)' = UsedBy(recorded, r)
          /\ recorded' = recorded \cup {t}
                => UsedBy(recorded, r)' = UsedBy(recorded, r) + task[t].usage[r]
      <3>1. /\ UsedBy(recorded, r) \in Nat
            /\ Total([x \in Tasks |-> task'[x].usage[r]], recorded) = UsedBy(recorded, r)
            /\ Total([x \in Tasks |-> task'[x].usage[r]], recorded \cup {t})
                 = UsedBy(recorded, r) + task'[t].usage[r]
        <4> DEFINE S == recorded
        <4>1. S \in SUBSET Tasks /\ t \notin S
          BY <2>2, <1>0
        <4> QED BY <2>3, <4>1, UsedTotals
      <3>2. task'[t].usage[r] = task[t].usage[r]
        BY <2>3
      <3> QED BY <3>1, <3>2, Zenon DEF UsedBy
    <2>5. /\ ReservedBy(InFlight', r) = ReservedBy(InFlight, r) - Reservation[t][r]
          /\ ReservedBy(InFlight, r) \in Nat /\ ReservedBy(slips, r) \in Nat
          /\ ReservedBy(InFlight', r) \in Nat
          /\ ReservedBy(slips \cup {t}, r) = ReservedBy(slips, r) + Reservation[t][r]
      <3>1. InFlight' \in SUBSET Tasks
        BY <2>2, <1>0
      <3>2. /\ ReservedBy(InFlight, r) = Reservation[t][r] + ReservedBy(InFlight', r)
            /\ ReservedBy(InFlight, r) \in Nat /\ ReservedBy(slips, r) \in Nat
            /\ ReservedBy(slips \cup {t}, r) = ReservedBy(slips, r) + Reservation[t][r]
        BY <2>2, <1>0, Reserved
      <3>3. ReservedBy(InFlight', r) \in Nat
        BY <3>1, Reserved
      <3> QED BY <3>2, <3>3, <1>a
    <2>6. /\ Committed(t)[r] = used[r] - Reservation[t][r] + task[t].usage[r]
          /\ Minus(used, Reservation[t])[r] = used[r] - Reservation[t][r]
          /\ Committed(t) \in [Resources -> Int]
          /\ Minus(used, Reservation[t]) \in [Resources -> Int]
          /\ used \in [Resources -> Int]
      BY CommittedIs DEF SupervisorTypeOK
    <2>7. CASE CollectArtifact(t)
      <3>1. /\ used'[r] = Committed(t)[r] /\ Committed(t)[r] <= Limit[r]
            /\ recorded' = recorded \cup {t} /\ slips' = slips
        BY <2>7 DEF CollectArtifact, CommitFits, Fits
      <3> QED BY <3>1, <2>4, <2>5, <2>6, <1>0, <1>00, <1>a, ReservedIsConstant DEF BudgetLine, Owed
    <2>8. CASE CollectUnwritten(t)
      <3>1. /\ used'[r] = Released(Committed(t), t)[r] /\ Committed(t)[r] <= Limit[r]
            /\ recorded' = recorded \cup {t} /\ slips' = slips \cup {t}
        BY <2>8 DEF CollectUnwritten, CommitFits, Fits
      <3>2. /\ used'[r] >= 0 /\ used'[r] >= Committed(t)[r] - Reservation[t][r]
            /\ used'[r] = 0 \/ used'[r] = Committed(t)[r] - Reservation[t][r]
        BY <3>1, <2>6, ReleasedIs
      <3> QED BY <3>1, <3>2, <2>4, <2>5, <2>6, <1>0, <1>00, <1>a, ReservedIsConstant DEF BudgetLine, Owed
    <2>9. CASE CollectOverBudget(t)
      <3>1. /\ used'[r] = Released(Minus(used, Reservation[t]), t)[r]
            /\ recorded' = recorded /\ slips' = slips \cup {t}
        BY <2>9 DEF CollectOverBudget
      <3>2. /\ used'[r] >= 0 /\ used'[r] >= used[r] - Reservation[t][r] - Reservation[t][r]
            /\ used'[r] = 0 \/ used'[r] = used[r] - Reservation[t][r] - Reservation[t][r]
        BY <3>1, <2>6, ReleasedIs
      <3> QED BY <3>1, <3>2, <2>4, <2>5, <1>0, <1>00, <1>a, ReservedIsConstant DEF BudgetLine, Owed
    <2>10. CASE CollectFailure(t)
      <3>1. used'[r] = Released(used, t)[r] /\ recorded' = recorded /\ slips' = slips
        BY <2>10 DEF CollectFailure, Release
      <3>2. /\ used'[r] >= 0 /\ used'[r] >= used[r] - Reservation[t][r]
            /\ used'[r] = 0 \/ used'[r] = used[r] - Reservation[t][r]
        BY <3>1, <2>6, ReleasedIs
      <3> QED BY <3>1, <3>2, <2>4, <2>5, <1>0, <1>00, <1>a, ReservedIsConstant DEF BudgetLine, Owed
    <2> QED BY <1>3, <2>7, <2>8, <2>9, <2>10 DEF CollectStep
  <1>4. CASE NextLayer \/ Finish
    BY <1>4, <1>b DEF NextLayer, Finish, InFlight, UsedBy
  <1>5. ASSUME NEW t \in Tasks, PoolStep(t) PROVE BudgetLine(r)'
    <2>1. /\ task[t].future \in {"queued", "running"}
          /\ task'[t].future \in {"running", "returned", "raised"}
          /\ \A s \in Tasks \ {t} : task'[s] = task[s]
          /\ UNCHANGED <<used, recorded, slips>>
      BY <1>5, <1>0 DEF PoolStep, RunOne, SpecialistReturns, SpecialistRaises
    <2>2. InFlight' = InFlight /\ t \notin recorded
      BY <2>1, <1>0 DEF InFlight, TaskKnown
    <2>3. UsedBy(recorded, r)' = UsedBy(recorded, r)
      <3>1. Total([x \in Tasks |-> task'[x].usage[r]], recorded) = UsedBy(recorded, r)
        BY <2>1, <2>2, <1>0, UsedTotals
      <3> QED BY <3>1, <2>1 DEF UsedBy
    <2> QED BY <2>1, <2>2, <2>3, <1>b
  <1> QED BY <1>1, <1>2, <1>3, <1>4, <1>5 DEF SupervisorNext, MainStep, CollectStep

\* Every task is known and the budget is accounted for, at every step.
THEOREM SupervisorInvariance == SupervisorSpec => []SupervisorInvariant
  <1>1. SupervisorInit => SupervisorInvariant
    <2> SUFFICES ASSUME SupervisorInit PROVE SupervisorInvariant
      OBVIOUS
    <2>1. SupervisorTypeOK
      BY SupervisorAssumption DEF SupervisorInit, SupervisorTypeOK, NotSubmitted, NoUsage, Layer, Futures
    <2>2. \A t \in Tasks : TaskKnown(t)
      BY DEF SupervisorInit, TaskKnown, NotSubmitted, Layer
    <2>3. RunKnown
      BY DEF SupervisorInit, RunKnown
    <2>4. ASSUME NEW r \in Resources PROVE BudgetLine(r)
      <3>1. InFlight = {} /\ recorded = {} /\ slips = {} /\ used[r] = 0
        BY DEF SupervisorInit, InFlight, NotSubmitted, NoUsage
      <3>2. ReservedBy({}, r) = 0 /\ UsedBy({}, r) = 0 /\ Limit[r] \in Nat
        <4>1. Total([t \in Tasks |-> Reservation[t][r]], {}) = 0
          BY <2>1, AmountsAreNumbers, NatTotalOf
        <4>2. Total([t \in Tasks |-> task[t].usage[r]], {}) = 0
          BY <2>1, AmountsAreNumbers, NatTotalOf
        <4> QED BY <4>1, <4>2, <2>1, AmountsAreNumbers DEF ReservedBy, UsedBy
      <3> QED BY <3>1, <3>2 DEF BudgetLine, Owed
    <2> QED BY <2>1, <2>2, <2>3, <2>4 DEF SupervisorInvariant, BudgetIsAccounted, BudgetLine
  <1>2. SupervisorInvariant /\ [SupervisorNext]_supervisorVars => SupervisorInvariant'
    <2> SUFFICES ASSUME SupervisorInvariant, [SupervisorNext]_supervisorVars
                 PROVE  SupervisorInvariant'
      OBVIOUS
    <2>1. SupervisorTypeOK'
      BY SupervisorTypeStep DEF SupervisorInvariant
    <2>2. (\A t \in Tasks : TaskKnown(t)') /\ RunKnown'
      BY TaskKnownStep DEF SupervisorInvariant
    <2>3. \A r \in Resources : BudgetLine(r)'
      BY <2>1, BudgetStep DEF SupervisorInvariant
    <2>4. BudgetIsAccounted'
      BY <2>3 DEF BudgetIsAccounted, BudgetLine
    <2> QED BY <2>1, <2>2, <2>4 DEF SupervisorInvariant
  <1> QED BY <1>1, <1>2, PTL DEF SupervisorSpec

\* The budget is neither exceeded nor lost sight of, and no task is lost,
\* whatever the graph, the limits and the failures (Supervisor.run,
\* SharedContext).
THEOREM TasksAccounted == SupervisorSpec => []TasksAreAccountedFor
  <1>1. SupervisorInvariant => TasksAreAccountedFor
    <2> SUFFICES ASSUME SupervisorInvariant PROVE NoTaskIsLost
      BY DEF SupervisorInvariant, TasksAreAccountedFor
    <2> SUFFICES ASSUME main.pc = "answered"
                 PROVE  /\ Tasks \subseteq recorded \cup errors
                        /\ {t \in Tasks : task[t].future = "collected"} \subseteq subtasks
                        /\ agentRun = "SUCCESS" <=> recorded = Tasks /\ errors = {}
      BY DEF NoTaskIsLost
    <2>1. \A t \in Tasks : /\ t \in recorded \cup errors
                           /\ task[t].future = "collected" => t \in subtasks
      BY DEF SupervisorInvariant, TaskKnown
    <2>2. agentRun = IF errors # {} THEN "FAILED" ELSE "SUCCESS"
      BY DEF SupervisorInvariant, RunKnown, Outcome
    <2>3. recorded \in SUBSET Tasks
      BY DEF SupervisorInvariant, SupervisorTypeOK
    <2> QED BY <2>1, <2>2, <2>3
  <1> QED BY <1>1, SupervisorInvariance, PTL

----------------------------------------------------------------------------
(* Grounded conclusions.                                                   *)

\* The rows a finding cites, counted.
RowsCited(b, S) == [f \in S |-> Cardinality(CitedRows(f, b))]

\* The direction of a set of findings is the weight of a sum.
LEMMA DirectionIsSum ==
    ASSUME NEW findings, NEW sign, NEW b, IsFiniteSet(findings),
           \A f \in findings : IsFiniteSet(CitedRows(f, b))
    PROVE  /\ Directional(findings, sign, b) \in Nat
           /\ Directional(findings, sign, b) > 0 => \E f \in findings : Polarity(f.text) = sign
  <1> DEFINE S == {f \in findings : Polarity(f.text) = sign}
             n == RowsCited(b, S)
             Rule(g) == g = [s \in SUBSET S |->
                 IF s = {} THEN 0
                 ELSE Cardinality(CitedRows(AnyOf(s), b)) + g[s \ {AnyOf(s)}]]
             sum == (CHOOSE g : Rule(g))[S]
  <1>1. IsFiniteSet(S) /\ n \in [S -> Nat] /\ Whole(n, S)
    <2>1. IsFiniteSet(S)
      BY FS_Subset
    <2>2. \A f \in S : Cardinality(CitedRows(f, b)) \in Nat
      BY FS_CardinalityType
    <2>3. n \in [S -> Nat]
      BY <2>2 DEF RowsCited
    <2> HIDE DEF n, S
    <2> QED BY <2>1, <2>3 DEF Whole
  <1>2. \A g : Rule(g) <=> Sums(n, g, S)
    <2> TAKE g
    <2>1. ASSUME NEW s \in SUBSET S
          PROVE  (IF s = {} THEN 0 ELSE Cardinality(CitedRows(AnyOf(s), b)) + g[s \ {AnyOf(s)}])
                    = SumStep(n, g, s)
      <3>1. s # {} => AnyOf(s) \in S
        BY DEF AnyOf
      <3>2. s # {} => n[AnyOf(s)] = Cardinality(CitedRows(AnyOf(s), b))
        BY <3>1 DEF RowsCited
      <3> HIDE DEF n
      <3> QED BY <3>2 DEF SumStep
    <2>2. [s \in SUBSET S |->
              IF s = {} THEN 0
              ELSE Cardinality(CitedRows(AnyOf(s), b)) + g[s \ {AnyOf(s)}]]
            = [s \in SUBSET S |-> SumStep(n, g, s)]
      BY <2>1, Zenon
    <2> QED BY <2>2, Zenon DEF Sums
  <1>3. Directional(findings, sign, b) = RowWeight(b) * sum
    BY Zenon DEF Directional, MapThenSumSet, MapThenFoldSet, AnyOf
  <1>4. PICK h \in [SUBSET S -> Int] : Sums(n, h, S)
    <2> HIDE DEF S, n
    <2> QED BY <1>1, SumsExist
  <1>5. Rule(CHOOSE g : Rule(g))
    <2>1. Rule(h)
      BY <1>2, <1>4
    <2> HIDE DEF Rule
    <2> QED BY <2>1, Zenon
  <1>6. sum = h[S]
    <2>0. PICK k : k = CHOOSE g : Rule(g)
      OBVIOUS
    <2>1. Sums(n, k, S) /\ sum = k[S]
      BY <1>2, <1>5, <2>0
    <2> HIDE DEF sum, S, n
    <2>2. S \in SUBSET S
      OBVIOUS
    <2>3. \A s \in SUBSET S : h[s] = k[s]
      BY <1>1, <1>4, <2>1, <2>2, SumsAgree
    <2> QED BY <2>1, <2>2, <2>3
  <1>7. h[S] \in Nat /\ (S = {} => h[S] = 0)
    <2> HIDE DEF S, n
    <2>1. S \in SUBSET S
      OBVIOUS
    <2>2. Total(n, S) = h[S]
      BY <1>1, <1>4, <2>1, TotalIsSum
    <2>3. Total(n, S) \in Nat /\ Total(n, {}) = 0
      BY <1>1, <2>1, NatTotalOf
    <2> QED BY <2>2, <2>3
  <1>8. RowWeight(b) \in {0, 1}
    BY DEF RowWeight
  <1> HIDE DEF sum
  <1>9. /\ Directional(findings, sign, b) \in Nat
        /\ Directional(findings, sign, b) > 0 => h[S] > 0
    <2> HIDE DEF S
    <2> QED BY <1>3, <1>6, <1>7, <1>8
  <1>10. h[S] > 0 => S # {}
    <2> HIDE DEF S
    <2> QED BY <1>7
  <1> QED BY <1>9, <1>10

\* The items of an accepted bundle are as many as their ids.
LEMMA OneItemPerId ==
    ASSUME NEW b \in Payloads, IdsOk(b), NEW C \in SUBSET ItemsOf(b)
    PROVE  Cardinality({item.id : item \in C}) = Cardinality(C)
  <1> DEFINE ids == {item.id : item \in C}
             f == [item \in C |-> item.id]
  <1>1. IsFiniteSet(C)
    <2> DEFINE g == [i \in DOMAIN b.items |-> b.items[i]]
    <2>1. g \in Surjection(DOMAIN b.items, ItemsOf(b))
      BY DEF Surjection, ItemsOf
    <2>2. IsFiniteSet(ItemsOf(b))
      <3> HIDE DEF g
      <3> QED BY <2>1, FS_Surjection, GroundingAssumption
    <2> QED BY <2>2, FS_Subset
  <1>2. \A item, other \in C : item.id = other.id => item = other
    BY DEF IdsOk, ItemsOf
  <1>3. f \in [C -> ids]
    OBVIOUS
  <1>4. \A id \in ids : \E item \in C : f[item] = id
    OBVIOUS
  <1>5. \A item, other \in C : f[item] = f[other] => item = other
    BY <1>2
  <1> HIDE DEF f, ids
  <1>6. f \in Surjection(C, ids)
    BY <1>3, <1>4 DEF Surjection
  <1>7. f \in Injection(C, ids)
    BY <1>3, <1>5 DEF Injection, IsInjective
  <1>8. Cardinality(ids) = Cardinality(C)
    BY <1>1, <1>6, <1>7, FS_Surjection
  <1> QED BY <1>8 DEF ids

\* The rows a finding cites are finitely many.
LEMMA RowsAreFinite ==
    ASSUME NEW b \in Payloads, NEW f
    PROVE  IsFiniteSet(CitedRows(f, b)) /\ IsFiniteSet(ItemsOf(b))
  <1> DEFINE g == [i \in DOMAIN b.items |-> b.items[i]]
  <1>1. g \in Surjection(DOMAIN b.items, ItemsOf(b))
    BY DEF Surjection, ItemsOf
  <1>2. IsFiniteSet(ItemsOf(b))
    <2> HIDE DEF g
    <2> QED BY <1>1, FS_Surjection, GroundingAssumption
  <1> DEFINE e == [item \in Cited(f, b) |-> item.evidence]
             E == {item.evidence : item \in Cited(f, b)}
  <1>3. IsFiniteSet(Cited(f, b))
    BY <1>2, FS_Subset DEF Cited
  <1>4. e \in Surjection(Cited(f, b), E)
    BY DEF Surjection
  <1>5. IsFiniteSet(E)
    <2> HIDE DEF e, E
    <2> QED BY <1>3, <1>4, FS_Surjection
  <1>6. \A s \in E : IsFiniteSet(s)
    BY GroundingAssumption DEF Cited, ItemsOf
  <1>7. IsFiniteSet(UNION E)
    <2> HIDE DEF E
    <2> QED BY <1>5, <1>6, FS_UNION
  <1>8. CitedRows(f, b) \subseteq UNION E
    BY DEF CitedRows
  <1> HIDE DEF E
  <1> QED BY <1>2, <1>7, <1>8, FS_Subset

\* What is checked of a finding.
Traced(f) ==
    LET cited == {item \in ItemsOf(frozen) : item.id \in f.knowledge}
    IN  /\ Cardinality(cited) = Cardinality(f.knowledge)
        /\ \A id \in f.evidence : \E item \in cited : \E e \in item.evidence : e.id = id
        /\ \A item \in cited :
            /\ \E e \in item.evidence : e.id \in f.evidence
            /\ \/ request.contract = "v1"
               \/ item.at <= request.asOf \/ f.text.forecast \/ item.time = "UNKNOWN"
            /\ \/ item.nature \in SourceViews
               \/ item.grade \notin {"PRIMARY", "SOURCE_ASSERTION"} /\ ~item.verified
               => item.label \in f.text.labels

\* The frozen bundle answers its request.
FrozenOk ==
    frozen # Nothing =>
        /\ request \in BundleRequests /\ frozen \in Payloads /\ BundleAccepted(request, frozen)

\* A conclusion stands on grounded findings, and its verdict on their signs.
ConclusionOk ==
    published \notin {Nothing, Raised} =>
        /\ frozen # Nothing
        /\ \A f \in published.findings : Grounded(f, frozen)
        /\ published.verdict \in {"SUPPORTED", "MIXED"} =>
               \E f \in published.findings : Polarity(f.text) > 0
        /\ published.verdict \in {"CONTRADICTED", "MIXED"} =>
               \E f \in published.findings : Polarity(f.text) < 0

GroundingInvariant == FrozenOk /\ ConclusionOk /\ (frozen = Nothing => published = Nothing)

\* A grounded finding can be traced.
LEMMA GroundedIsTraced ==
    ASSUME FrozenOk, frozen # Nothing, NEW f, Grounded(f, frozen)
    PROVE  Traced(f)
  <1> DEFINE cited == Cited(f, frozen)
  <1>0. /\ request \in BundleRequests /\ frozen \in Payloads /\ BundleAccepted(request, frozen)
        /\ cited = {item \in ItemsOf(frozen) : item.id \in f.knowledge}
    BY DEF FrozenOk, Cited
  <1>1. Cardinality(cited) = Cardinality(f.knowledge)
    <2>1. {item.id : item \in cited} = f.knowledge
      BY DEF Grounded
    <2>2. cited \in SUBSET ItemsOf(frozen) /\ IdsOk(frozen)
      BY <1>0 DEF BundleAccepted
    <2> HIDE DEF cited
    <2> QED BY <1>0, <2>1, <2>2, OneItemPerId
  <1>2. \A id \in f.evidence : \E item \in cited : \E e \in item.evidence : e.id = id
    <2>1. {e.id : e \in CitedRows(f, frozen)} = f.evidence
      BY DEF Grounded
    <2> QED BY <2>1 DEF CitedRows
  <1>3. ASSUME NEW item \in cited
        PROVE  /\ \E e \in item.evidence : e.id \in f.evidence
               /\ \/ request.contract = "v1"
                  \/ item.at <= request.asOf \/ f.text.forecast \/ item.time = "UNKNOWN"
               /\ \/ item.nature \in SourceViews
                  \/ item.grade \notin {"PRIMARY", "SOURCE_ASSERTION"} /\ ~item.verified
                  => item.label \in f.text.labels
    <2>1. \E e \in item.evidence : e.id \in f.evidence
      <3>1. item.evidence \cap CitedRows(f, frozen) # {}
        BY DEF Grounded
      <3> QED BY <3>1 DEF CitedRows
    <2>2. SemanticsKept(item, f.text)
      BY DEF Grounded
    <2>3. item \in ItemsOf(frozen) /\ InTime(item, frozen)
      BY <1>0 DEF BundleAccepted
    <2>4. frozen.contract = request.contract /\ frozen.asOf = request.asOf
          /\ request.contract \in {"v1", "v2"}
      <3>1. /\ BundleRequestOk(request) /\ frozen.contract = request.contract
            /\ frozen.asOf = frozen.request.asOf /\ frozen.request = RequestPayload(request)
        BY <1>0 DEF BundleAccepted, BundleEnvelopeOk
      <3>2. "asOf" \in DOMAIN request
        BY <1>0, GroundingAssumption
      <3>3. RequestPayload(request).asOf = request.asOf
        BY <3>2 DEF RequestPayload
      <3> QED BY <3>1, <3>3 DEF BundleRequestOk
    <2>5. \/ request.contract = "v1"
          \/ item.at <= request.asOf \/ f.text.forecast \/ item.time = "UNKNOWN"
      BY <2>2, <2>3, <2>4 DEF InTime, SemanticsKept
    <2>6. /\ item.grade \in {"PRIMARY", "SECONDARY", "SOURCE_ASSERTION", "UNKNOWN"}
          /\ item.verified \in BOOLEAN
      BY <1>0, <2>3, GroundingAssumption DEF ItemsOf
    <2>7. \/ item.nature \in SourceViews
          \/ item.grade \notin {"PRIMARY", "SOURCE_ASSERTION"} /\ ~item.verified
          => item.label \in f.text.labels
      BY <2>2, <2>6 DEF SemanticsKept, RequiresAttribution
    <2> QED BY <2>1, <2>5, <2>7
  <1> HIDE DEF cited
  <1> QED BY <1>0, <1>1, <1>2, <1>3 DEF Traced

\* A verdict of the model and of the fallback has evidence of its sign.
LEMMA SignsAreBacked ==
    ASSUME NEW b \in Payloads, NEW findings, IsFiniteSet(findings)
    PROVE  LET positive == Directional(findings, 1, b)
               negative == Directional(findings, -1, b)
           IN  /\ positive \in Nat /\ negative \in Nat
               /\ positive > 0 => \E f \in findings : Polarity(f.text) > 0
               /\ negative > 0 => \E f \in findings : Polarity(f.text) < 0
  <1>1. \A f \in findings : IsFiniteSet(CitedRows(f, b))
    BY RowsAreFinite
  <1>2. /\ Directional(findings, 1, b) \in Nat /\ Directional(findings, -1, b) \in Nat
        /\ Directional(findings, 1, b) > 0 => \E f \in findings : Polarity(f.text) = 1
        /\ Directional(findings, -1, b) > 0 => \E f \in findings : Polarity(f.text) = -1
    BY <1>1, DirectionIsSum
  <1> QED BY <1>2

\* Every step keeps the invariant.
LEMMA GroundingStep == GroundingInvariant /\ [GroundingNext]_groundingVars => GroundingInvariant'
  <1> SUFFICES ASSUME GroundingInvariant, [GroundingNext]_groundingVars PROVE GroundingInvariant'
    OBVIOUS
  <1>1. CASE UNCHANGED groundingVars
    BY <1>1 DEF groundingVars, GroundingInvariant, FrozenOk, ConclusionOk
  <1>2. ASSUME NEW r \in BundleRequests, NEW b \in Payloads, Ingest(r, b)
        PROVE  GroundingInvariant'
    <2>1. published = Nothing /\ published' = published /\ request' = r /\ frozen' = b /\ b # Nothing
      BY <1>2, GroundingAssumption DEF Ingest, GroundingInvariant
    <2> QED BY <1>2, <2>1 DEF Ingest, GroundingInvariant, FrozenOk, ConclusionOk
  <1>3. ASSUME NEW p \in Proposals, Conclude(p)
        PROVE  GroundingInvariant'
    <2>0. /\ frozen # Nothing /\ frozen \in Payloads /\ IsFiniteSet(p.findings)
          /\ UNCHANGED <<request, frozen>> /\ published' = ModelConclusion(p)
          /\ SemanticsOk(p, frozen) /\ \A f \in p.findings : Grounded(f, frozen)
      BY <1>3, GroundingAssumption DEF Conclude, GroundingInvariant, FrozenOk
    <2>1. published'.findings = p.findings /\ published'.verdict = p.verdict
      BY <2>0 DEF ModelConclusion
    <2>2. PICK positive \in Nat, negative \in Nat :
              /\ positive = Directional(p.findings, 1, frozen)
              /\ negative = Directional(p.findings, -1, frozen)
              /\ positive > 0 => \E f \in p.findings : Polarity(f.text) > 0
              /\ negative > 0 => \E f \in p.findings : Polarity(f.text) < 0
      BY <2>0, SignsAreBacked
    <2>3. /\ p.verdict \in {"SUPPORTED", "MIXED"} => positive > 0
          /\ p.verdict \in {"CONTRADICTED", "MIXED"} => negative > 0
      BY <2>0, <2>2 DEF SemanticsOk
    <2> QED BY <2>0, <2>1, <2>2, <2>3 DEF GroundingInvariant, FrozenOk, ConclusionOk
  <1>4. CASE Fallback
    <2>0. /\ frozen # Nothing /\ frozen \in Payloads /\ UNCHANGED <<request, frozen>>
      BY <1>4 DEF Fallback, GroundingInvariant, FrozenOk
    <2> DEFINE built == IF Projected(frozen) # {} THEN {Projected(frozen)}
                        ELSE {{f} : f \in Template(frozen)}
    <2>1. PICK findings \in IF built = {} THEN {{}} ELSE built :
              published' = IF findings # {} /\ \A f \in findings : Grounded(f, frozen)
                           THEN [mode |-> "FALLBACK", stance |-> "UNCERTAIN", findings |-> findings,
                                 verdict |-> IF Projected(frozen) = {} THEN "INSUFFICIENT_EVIDENCE"
                                             ELSE FallbackVerdict(findings, frozen)]
                           ELSE Raised
      BY <1>4 DEF Fallback
    <2>2. CASE published' = Raised
      BY <2>0, <2>2 DEF GroundingInvariant, FrozenOk, ConclusionOk
    <2>3. CASE /\ \A f \in findings : Grounded(f, frozen)
               /\ published'.findings = findings
               /\ published'.verdict = IF Projected(frozen) = {} THEN "INSUFFICIENT_EVIDENCE"
                                       ELSE FallbackVerdict(findings, frozen)
      <3>1. CASE Projected(frozen) = {}
        <4>1. published'.verdict \notin {"SUPPORTED", "CONTRADICTED", "MIXED"}
          BY <2>3, <3>1
        <4> QED BY <2>0, <2>3, <4>1 DEF GroundingInvariant, FrozenOk, ConclusionOk
      <3>2. CASE Projected(frozen) # {}
        <4>1. findings = Projected(frozen)
          BY <3>2
        <4>2. IsFiniteSet(findings)
          <5> DEFINE shown == {i \in ItemsOf(frozen) : DisplayLines(i) # {}}
                     g == [item \in shown |->
                             [text |-> Joined(DisplayLines(item)), knowledge |-> {item.id},
                              evidence |-> {e.id : e \in item.evidence}]]
          <5>1. IsFiniteSet(shown)
            BY <2>0, RowsAreFinite, FS_Subset
          <5>2. g \in Surjection(shown, Projected(frozen))
            BY DEF Projected, Surjection
          <5> HIDE DEF g, shown
          <5> QED BY <4>1, <5>1, <5>2, FS_Surjection
        <4>3. PICK positive \in Nat, negative \in Nat :
                  /\ positive = Directional(findings, 1, frozen)
                  /\ negative = Directional(findings, -1, frozen)
                  /\ positive > 0 => \E f \in findings : Polarity(f.text) > 0
                  /\ negative > 0 => \E f \in findings : Polarity(f.text) < 0
          BY <2>0, <4>2, SignsAreBacked
        <4>4. LET smaller == IF positive < negative THEN positive ELSE negative
                  larger == IF positive < negative THEN negative ELSE positive
              IN  published'.verdict =
                      IF larger = 0 THEN "INSUFFICIENT_EVIDENCE"
                      ELSE IF 2 * negative > 3 * positive THEN "CONTRADICTED"
                      ELSE IF smaller > 0 /\ 100 * smaller >= 67 * larger THEN "MIXED"
                      ELSE "SUPPORTED"
          BY <2>3, <3>2, <4>3 DEF FallbackVerdict, SideWeight
        <4>5. /\ published'.verdict \in {"SUPPORTED", "MIXED"} => positive > 0
              /\ published'.verdict \in {"CONTRADICTED", "MIXED"} => negative > 0
          BY <4>4
        <4> QED BY <2>0, <2>3, <4>3, <4>5 DEF GroundingInvariant, FrozenOk, ConclusionOk
      <3> QED BY <3>1, <3>2
    <2> QED BY <2>1, <2>2, <2>3
  <1> QED BY <1>1, <1>2, <1>3, <1>4 DEF GroundingNext

\* A published conclusion can be traced to the frozen bundle, item by item and row
\* by row, and its verdict has evidence of its sign, for any requests, bundles and
\* model answers (ground_finding, validate_research_semantics, fallback_conclusion).
THEOREM ConclusionsAreGrounded == GroundingSpec => []ConclusionIsGrounded
  <1>1. GroundingInit => GroundingInvariant
    BY DEF GroundingInit, GroundingInvariant, FrozenOk, ConclusionOk
  <1>2. GroundingInvariant => ConclusionIsGrounded
    <2> SUFFICES ASSUME GroundingInvariant, published \notin {Nothing, Raised}
                 PROVE  /\ \A f \in published.findings : Traced(f)
                        /\ published.verdict \in {"SUPPORTED", "MIXED"} =>
                               \E f \in published.findings : Polarity(f.text) > 0
                        /\ published.verdict \in {"CONTRADICTED", "MIXED"} =>
                               \E f \in published.findings : Polarity(f.text) < 0
      BY DEF ConclusionIsGrounded, Published, Traced
    <2>1. \A f \in published.findings : Traced(f)
      BY GroundedIsTraced DEF GroundingInvariant, ConclusionOk
    <2> QED BY <2>1 DEF GroundingInvariant, ConclusionOk
  <1> QED BY <1>1, <1>2, GroundingStep, PTL DEF GroundingSpec

----------------------------------------------------------------------------
(* Model gateway.                                                          *)

\* The fields of a circuit breaker.
BreakerStates == [state : {"CLOSED", "OPEN", "HALF_OPEN"}, failures : 0 .. Threshold, left : 0 .. Recovery]

\* The locals of a call.
ModelCalls == [pc : {"idle", "route", "attempt", "wait", "ok", "failed", "budget"},
               route : DOMAIN Routes, tries : 0 .. MaxAttempts, structured : {1, 2},
               cost : Nat, before : Nat, billed : Nat]

\* Types of the gateway.
GatewayTypeOK ==
    /\ breaker \in [Breakers -> BreakerStates]
    /\ spent \in [Callers -> 0 .. MaxCost]
    /\ call \in [Callers \cup Clients -> ModelCalls]

\* What a call has recorded and what it has been billed, unless a response
\* was refused by its budget.
CallSettled(c) ==
    call[c].pc \notin {"idle", "budget"} =>
        /\ spent[c] = call[c].before + call[c].billed
        /\ call[c].cost = call[c].billed

\* The inductive invariant of the gateway.
GatewayInvariant == GatewayTypeOK /\ \A c \in Callers : CallSettled(c)

----------------------------------------------------------------------------

\* A route of the gateway is a position of Routes, and there is a first one.
LEMMA RoutesExist == 1 \in DOMAIN Routes /\ Len(Routes) \in Nat /\ DOMAIN Routes = 1 .. Len(Routes)
  BY GatewayAssumption DEF GatewayAssumption

\* What the constants of the budget and of the retries are.
LEMMA Amounts ==
    /\ Costs \subseteq Nat /\ MaxCost \in Nat /\ 0 .. MaxCost \subseteq Nat
    /\ {0, 1} \subseteq 0 .. MaxAttempts /\ MaxAttempts \in Nat
    /\ Threshold \in Nat /\ Recovery \in Nat
  BY GatewayAssumption

\* NoCall is a call.
LEMMA NoCallIsCall == NoCall \in ModelCalls
  BY RoutesExist, GatewayAssumption DEF NoCall, ModelCalls

\* The breaker a thread uses exists.
LEMMA RouteIsBreaker ==
    ASSUME GatewayTypeOK, NEW c \in Callers \cup Clients
    PROVE  RouteOf(c) \in Breakers
  BY DEF RouteOf, Breakers, GatewayTypeOK, ModelCalls

\* The breaker's operations keep its type: the count of failures stops at
\* the threshold.
LEMMA BreakerMoves ==
    ASSUME NEW b \in BreakerStates
    PROVE  /\ Admitted(b) \in BreakerStates
           /\ AfterFailure(b) \in BreakerStates
           /\ Closed \in BreakerStates
  <1>1. Closed \in BreakerStates
    BY GatewayAssumption DEF Closed, BreakerStates
  <1>2. Admitted(b) \in BreakerStates
    BY DEF Admitted, BreakerStates
  <1>3. AfterFailure(b) \in BreakerStates
    BY GatewayAssumption DEF AfterFailure, Tripped, BreakerStates
  <1> QED BY <1>1, <1>2, <1>3

\* The call of a thread that goes on to the next route.
LEMMA NextRouteIsCall ==
    ASSUME GatewayTypeOK, NEW c \in Callers \cup Clients
    PROVE  /\ NextRoute(c) \in ModelCalls
           /\ NextRoute(c).pc \in {"route", "failed"}
           /\ NextRoute(c).before = call[c].before
           /\ NextRoute(c).cost = call[c].cost
           /\ NextRoute(c).billed = call[c].billed
  <1>1. call[c] \in ModelCalls
    BY DEF GatewayTypeOK
  <1>2. CASE call[c].route < Len(Routes)
    <2>1. NextRoute(c) = [call[c] EXCEPT !.pc = "route", !.route = @ + 1, !.tries = 0,
                                         !.structured = 1]
      BY <1>2 DEF NextRoute
    <2>2. call[c].route + 1 \in DOMAIN Routes
      BY <1>1, <1>2, RoutesExist DEF ModelCalls
    <2>3. 0 \in 0 .. MaxAttempts
      BY Amounts
    <2> QED BY <1>1, <2>1, <2>2, <2>3 DEF ModelCalls
  <1>3. CASE ~(call[c].route < Len(Routes))
    <2>1. NextRoute(c) = [call[c] EXCEPT !.pc = "failed", !.tries = 0, !.structured = 1]
      BY <1>3 DEF NextRoute
    <2>2. 0 \in 0 .. MaxAttempts
      BY Amounts
    <2> QED BY <1>1, <2>1, <2>2 DEF ModelCalls
  <1> QED BY <1>2, <1>3

\* Only one thread moves: its call is a call, the breakers and the budgets
\* keep their types.
LEMMA GatewayTypeStep ==
    ASSUME GatewayTypeOK, [GatewayNext]_gatewayVars
    PROVE  GatewayTypeOK'
  <1> USE Amounts
  <1>1. CASE UNCHANGED gatewayVars
    BY <1>1 DEF gatewayVars, GatewayTypeOK
  <1>2. CASE Elapse
    <2>1. ASSUME NEW b \in Breakers
          PROVE  [breaker[b] EXCEPT !.left = IF @ > 0 THEN @ - 1 ELSE 0] \in BreakerStates
      <3>1. breaker[b] \in BreakerStates
        BY DEF GatewayTypeOK
      <3> QED BY <3>1 DEF BreakerStates
    <2> QED BY <1>2, <2>1 DEF Elapse, GatewayTypeOK
  <1>3. ASSUME NEW c \in Callers, CompleteStep(c) PROVE GatewayTypeOK'
    <2>0. /\ call[c] \in ModelCalls /\ spent[c] \in 0 .. MaxCost
          /\ RouteOf(c) \in Breakers /\ breaker[RouteOf(c)] \in BreakerStates
      BY RouteIsBreaker DEF GatewayTypeOK
    <2>1. CASE Complete(c)
      <3>1. [NoCall EXCEPT !.pc = "route", !.before = spent[c]] \in ModelCalls
        BY <2>0, NoCallIsCall DEF ModelCalls
      <3> QED BY <2>1, <3>1 DEF Complete, GatewayTypeOK
    <2>2. CASE Unaffordable(c)
      <3>1. [call[c] EXCEPT !.pc = "budget"] \in ModelCalls
        BY <2>0 DEF ModelCalls
      <3> QED BY <2>2, <3>1 DEF Unaffordable, GatewayTypeOK
    <2>3. CASE BeforeCall(c)
      <3>1. [call[c] EXCEPT !.pc = "attempt"] \in ModelCalls
        BY <2>0 DEF ModelCalls
      <3> QED BY <2>3, <3>1, <2>0, BreakerMoves DEF BeforeCall, GatewayTypeOK
    <2>4. CASE CircuitOpen(c)
      BY <2>4, <2>0, NextRouteIsCall DEF CircuitOpen, Rejected, GatewayTypeOK
    <2>5. CASE Invoke(c)
      <3>1. [call[c] EXCEPT !.pc = "wait", !.tries = 1] \in ModelCalls
        BY <2>0 DEF ModelCalls
      <3> QED BY <2>5, <3>1 DEF Invoke, GatewayTypeOK
    <2>6. CASE Retry(c)
      <3>1. [call[c] EXCEPT !.tries = @ + 1] \in ModelCalls
        BY <2>0, <2>6 DEF ModelCalls, Retry
      <3> QED BY <2>6, <3>1 DEF Retry, GatewayTypeOK
    <2>7. CASE RouteFails(c)
      BY <2>7, <2>0, NextRouteIsCall, BreakerMoves DEF RouteFails, GatewayTypeOK
    <2>8. CASE ResponseOverBudget(c)
      <3>1. PICK cost \in Costs :
              call' = [call EXCEPT ![c].pc = "budget", ![c].billed = @ + cost]
        BY <2>8 DEF ResponseOverBudget
      <3>2. [call[c] EXCEPT !.pc = "budget", !.billed = @ + cost] \in ModelCalls
        <4>1. cost \in Nat
          OBVIOUS
        <4>2. call[c].billed + cost \in Nat
          BY <2>0, <4>1 DEF ModelCalls
        <4> QED BY <2>0, <4>2 DEF ModelCalls
      <3> QED BY <2>8, <3>1, <3>2 DEF ResponseOverBudget, GatewayTypeOK
    <2>9. CASE Respond(c)
      <3>1. PICK cost \in Costs, valid \in BOOLEAN :
              LET charging == [call[c] EXCEPT !.cost = @ + cost, !.billed = @ + cost] IN
              /\ Affordable(c, cost)
              /\ spent' = [spent EXCEPT ![c] = @ + cost]
              /\ \/ /\ breaker' = [breaker EXCEPT ![RouteOf(c)] = Closed]
                    /\ call' = [call EXCEPT ![c] = [charging EXCEPT !.pc = "ok"]]
                 \/ /\ call' = [call EXCEPT ![c] =
                           [charging EXCEPT !.pc = "attempt", !.structured = 2]]
                    /\ UNCHANGED breaker
                 \/ /\ breaker' = [breaker EXCEPT ![RouteOf(c)] = AfterFailure(@)]
                    /\ call' = [call EXCEPT ![c] =
                           [NextRoute(c) EXCEPT !.cost = charging.cost,
                                                !.billed = charging.billed]]
        BY <2>9 DEF Respond, Charge
      <3> DEFINE charging == [call[c] EXCEPT !.cost = @ + cost, !.billed = @ + cost]
      <3>2. cost \in Nat /\ spent[c] + cost \in 0 .. MaxCost
        BY <2>0, <3>1 DEF Affordable
      <3>3. charging \in ModelCalls
        <4>1. call[c].billed + cost \in Nat /\ call[c].cost + cost \in Nat
          BY <2>0, <3>2 DEF ModelCalls
        <4> QED BY <2>0, <4>1 DEF ModelCalls
      <3>4. /\ [charging EXCEPT !.pc = "ok"] \in ModelCalls
            /\ [charging EXCEPT !.pc = "attempt", !.structured = 2] \in ModelCalls
            /\ [NextRoute(c) EXCEPT !.cost = charging.cost,
                                    !.billed = charging.billed] \in ModelCalls
        BY <3>3, NextRouteIsCall DEF ModelCalls
      <3> HIDE DEF charging
      <3>5. breaker' \in [Breakers -> BreakerStates]
        BY <3>1, <2>0, BreakerMoves DEF GatewayTypeOK
      <3>6. spent' \in [Callers -> 0 .. MaxCost]
        BY <3>1, <3>2 DEF GatewayTypeOK
      <3>7. call' \in [Callers \cup Clients -> ModelCalls]
        BY <3>1, <3>4 DEF GatewayTypeOK, charging
      <3> QED BY <3>5, <3>6, <3>7 DEF GatewayTypeOK
    <2> QED BY <1>3, <2>1, <2>2, <2>3, <2>4, <2>5, <2>6, <2>7, <2>8, <2>9 DEF CompleteStep
  <1>4. ASSUME NEW d \in Clients, RequestStep(d) PROVE GatewayTypeOK'
    <2>0. /\ call[d] \in ModelCalls /\ Dependency \in Breakers
          /\ breaker[Dependency] \in BreakerStates
      BY DEF GatewayTypeOK, Breakers
    <2>1. CASE Request(d)
      <3>1. /\ [NoCall EXCEPT !.pc = "wait", !.tries = 1] \in ModelCalls
            /\ [NoCall EXCEPT !.pc = "failed"] \in ModelCalls
        BY NoCallIsCall DEF ModelCalls
      <3> QED BY <2>1, <2>0, <3>1, BreakerMoves DEF Request, Rejected, GatewayTypeOK
    <2>2. CASE RequestAgain(d)
      <3>1. [call[d] EXCEPT !.tries = @ + 1] \in ModelCalls
        BY <2>0, <2>2 DEF ModelCalls, RequestAgain
      <3> QED BY <2>2, <3>1 DEF RequestAgain, GatewayTypeOK
    <2>3. /\ [call[d] EXCEPT !.pc = "failed"] \in ModelCalls
          /\ [call[d] EXCEPT !.pc = "ok"] \in ModelCalls
      BY <2>0 DEF ModelCalls
    <2>4. CASE RequestFails(d)
      BY <2>4, <2>0, <2>3, BreakerMoves DEF RequestFails, GatewayTypeOK
    <2>5. CASE ContractViolated(d)
      BY <2>5, <2>3 DEF ContractViolated, GatewayTypeOK
    <2>6. CASE RequestSucceeds(d)
      BY <2>6, <2>0, <2>3, BreakerMoves DEF RequestSucceeds, GatewayTypeOK
    <2> QED BY <1>4, <2>1, <2>2, <2>4, <2>5, <2>6 DEF RequestStep
  <1> QED BY <1>1, <1>2, <1>3, <1>4 DEF GatewayNext, CompleteNext, RequestNext

\* The budget of a caller moves only with its own call, by what the call
\* was billed.
LEMMA CallSettledStep ==
    ASSUME GatewayInvariant, [GatewayNext]_gatewayVars
    PROVE  \A c \in Callers : CallSettled(c)'
  <1> SUFFICES ASSUME NEW c \in Callers PROVE CallSettled(c)'
    OBVIOUS
  <1>0. /\ GatewayTypeOK /\ CallSettled(c)
        /\ call[c] \in ModelCalls /\ spent[c] \in 0 .. MaxCost
    BY DEF GatewayInvariant, GatewayTypeOK
  <1>1. ASSUME call'[c] = call[c], spent'[c] = spent[c] PROVE CallSettled(c)'
    BY <1>0, <1>1 DEF CallSettled
  <1>2. CASE UNCHANGED gatewayVars
    BY <1>1, <1>2 DEF gatewayVars
  <1>3. CASE Elapse
    BY <1>1, <1>3 DEF Elapse
  <1>4. ASSUME NEW d \in Clients, RequestStep(d) PROVE CallSettled(c)'
    <2>1. c # d
      BY GatewayAssumption DEF GatewayAssumption
    <2>2. call'[c] = call[c] /\ spent' = spent
      BY <1>4, <2>1, <1>0 DEF RequestStep, Request, RequestAgain, RequestFails, ContractViolated,
         RequestSucceeds, GatewayTypeOK
    <2> QED BY <1>1, <2>2
  <1>5. ASSUME NEW b \in Callers, CompleteStep(b), b # c PROVE CallSettled(c)'
    <2>1. call'[c] = call[c] /\ spent'[c] = spent[c]
      BY <1>5, <1>0 DEF CompleteStep, Complete, Unaffordable, BeforeCall, CircuitOpen, Invoke,
         Retry, RouteFails, ResponseOverBudget, Respond, GatewayTypeOK
    <2> QED BY <1>1, <2>1
  <1>6. CASE CompleteStep(c)
    <2> USE DEF ModelCalls
    <2>0. call \in [Callers \cup Clients -> ModelCalls] /\ spent \in [Callers -> 0 .. MaxCost]
      BY <1>0 DEF GatewayTypeOK
    <2>1. CASE Complete(c)
      BY <2>1, <2>0, <1>0 DEF Complete, NoCall, CallSettled
    <2>2. CASE Unaffordable(c)
      BY <2>2, <2>0, <1>0 DEF Unaffordable, CallSettled
    <2>3. CASE BeforeCall(c) \/ Invoke(c) \/ Retry(c)
      BY <2>3, <2>0, <1>0 DEF BeforeCall, Invoke, Retry, CallSettled
    <2>4. CASE CircuitOpen(c) \/ RouteFails(c)
      <3>1. call'[c] = NextRoute(c) /\ spent' = spent /\ call[c].pc \in {"route", "wait"}
        BY <2>4, <2>0 DEF CircuitOpen, RouteFails
      <3> QED BY <3>1, <1>0, NextRouteIsCall DEF CallSettled
    <2>5. CASE ResponseOverBudget(c)
      BY <2>5, <2>0, <1>0 DEF ResponseOverBudget, CallSettled
    <2>6. CASE Respond(c)
      <3>1. PICK cost \in Costs :
              /\ spent' = [spent EXCEPT ![c] = @ + cost]
              /\ call'[c].before = call[c].before
              /\ call'[c].cost = call[c].cost + cost
              /\ call'[c].billed = call[c].billed + cost
        <4>1. PICK cost \in Costs, valid \in BOOLEAN :
                LET charging == [call[c] EXCEPT !.cost = @ + cost, !.billed = @ + cost] IN
                /\ spent' = [spent EXCEPT ![c] = @ + cost]
                /\ \/ call' = [call EXCEPT ![c] = [charging EXCEPT !.pc = "ok"]]
                   \/ call' = [call EXCEPT ![c] =
                             [charging EXCEPT !.pc = "attempt", !.structured = 2]]
                   \/ call' = [call EXCEPT ![c] =
                             [NextRoute(c) EXCEPT !.cost = charging.cost,
                                                  !.billed = charging.billed]]
          BY <2>6 DEF Respond, Charge
        <4> DEFINE charging == [call[c] EXCEPT !.cost = @ + cost, !.billed = @ + cost]
        <4>2. /\ charging.before = call[c].before
              /\ charging.cost = call[c].cost + cost
              /\ charging.billed = call[c].billed + cost
              /\ DOMAIN charging = {"pc", "route", "tries", "structured", "cost", "before", "billed"}
          BY <1>0
        <4> HIDE DEF charging
        <4>3. CASE call' = [call EXCEPT ![c] = [charging EXCEPT !.pc = "ok"]]
          BY <4>1, <4>2, <4>3, <2>0
        <4>4. CASE call' = [call EXCEPT ![c] =
                             [charging EXCEPT !.pc = "attempt", !.structured = 2]]
          BY <4>1, <4>2, <4>4, <2>0
        <4>5. CASE call' = [call EXCEPT ![c] =
                             [NextRoute(c) EXCEPT !.cost = charging.cost,
                                                  !.billed = charging.billed]]
          <5>1. NextRoute(c) \in ModelCalls /\ NextRoute(c).before = call[c].before
            BY <1>0, NextRouteIsCall
          <5> HIDE DEF ModelCalls
          <5>2. DOMAIN NextRoute(c) = {"pc", "route", "tries", "structured", "cost", "before", "billed"}
            BY <5>1 DEF ModelCalls
          <5> QED BY <4>1, <4>2, <4>5, <2>0, <5>1, <5>2
        <4> QED BY <4>1, <4>3, <4>4, <4>5 DEF charging
      <3>2. call[c].pc = "wait"
        BY <2>6 DEF Respond
      <3>3. cost \in Nat
        BY GatewayAssumption DEF GatewayAssumption
      <3> QED BY <3>1, <3>2, <3>3, <2>0, <1>0 DEF CallSettled
    <2> QED BY <1>6, <2>1, <2>2, <2>3, <2>4, <2>5, <2>6 DEF CompleteStep
  <1> QED BY <1>2, <1>3, <1>4, <1>5, <1>6 DEF GatewayNext, CompleteNext, RequestNext

\* Type correctness of the gateway and the accounting of every call.
THEOREM GatewayInvariance == GatewaySpec => []GatewayInvariant
  <1>1. GatewayInit => GatewayInvariant
    BY NoCallIsCall, GatewayAssumption
       DEF GatewayInit, GatewayInvariant, GatewayTypeOK, CallSettled, NoCall, Closed, BreakerStates
  <1>2. GatewayInvariant /\ [GatewayNext]_gatewayVars => GatewayInvariant'
    BY GatewayTypeStep, CallSettledStep DEF GatewayInvariant
  <1> QED BY <1>1, <1>2, PTL DEF GatewaySpec

\* A call that ended has recorded all that the providers billed.
THEOREM SpendReported == GatewaySpec => []SpendIsReported
  <1>1. GatewayInvariant => SpendIsReported
    BY DEF GatewayInvariant, CallSettled, SpendIsReported
  <1> QED BY <1>1, GatewayInvariance, PTL

----------------------------------------------------------------------------
(* Skill runs and chat sessions.                                           *)

Stamps == Int \cup {NoStamp}

ToolCalls == [tool : STRING, result : ToolResults, stamp : Stamps]

SeenStates ==
    [called : SUBSET STRING, succeeded : SUBSET STRING, failed : SUBSET STRING, stamp : Stamps,
     regime : BOOLEAN, memory : BOOLEAN, evidence : SUBSET STRING, specialists : SUBSET STRING,
     risk : BOOLEAN, policy : BOOLEAN]

SkillContracts == UNION {ContractsOf[c] : c \in ChatCallers}

Turns ==
    [pc : {"idle", "refused", "choose", "plan", "call", "wait", "save", "insert", "answered", "lost"},
     session : ChatSessions \cup {NoStamp}, contract : SkillContracts \cup {NoStamp}, round : Nat,
     asked : Seq(STRING), calls : Seq(ToolCalls), seen : SeenStates, ended : Nat,
     text : {"nothing", "report", "degraded"}, count : Nat]

\* The readings of the market among the calls that did not fail.
Readings(calls) == {i \in DOMAIN calls : ~calls[i].result.error /\ calls[i].tool \in MarketTools}

\* What the state of a run has seen, its calls show: the bookkeeping that
\* the contract is checked against is about the calls the caller is shown.
SeenIsShown(t) ==
    /\ \A i \in DOMAIN t.calls : t.calls[i].tool \in t.seen.called
    /\ t.seen.succeeded \subseteq Used(t)
    /\ t.seen.stamp = LastReading(t)
    /\ t.seen.regime => "get_market_regime" \in Used(t)
    /\ t.seen.memory => \E i \in Good(t) : t.calls[i].result.memories
    /\ t.seen.evidence \subseteq Told(t, "evidence")
    /\ t.seen.specialists \subseteq Told(t, "specialists")
    /\ t.seen.risk => \E i \in Good(t) : t.calls[i].result.risk
    /\ Readings(t.calls) # {} =>
          \E i \in Readings(t.calls) : \A j \in Readings(t.calls) : j <= i

\* A turn before its end shows what it has seen; a report was earned.
TurnOk(t) ==
    /\ t \in Turns
    /\ t.pc # "idle" => t.session \in ChatSessions
    /\ t.pc \in {"call", "wait"} => t.asked # <<>>
    /\ t.pc \in {"plan", "call", "wait"} => t.contract \in SkillContracts
    /\ t.pc \in {"idle", "choose", "plan", "call", "wait"} => SeenIsShown(t) /\ t.text = "nothing"
    /\ t.text = "report" => Earned(t)

Messages == [caller : ChatCallers, role : {"user", "assistant"}, ordinal : Nat,
             text : {"question", "nothing", "report", "degraded"}]

ToolJobs == [caller : ChatCallers, number : Nat, tool : DOMAIN ResultsOf]

ChatTypeOK ==
    /\ turn \in [ChatCallers -> Turns]
    /\ sessions \in [ChatSessions -> [state : {"absent", "open", "deleted"}, messages : Seq(Messages)]]
    /\ waiting \in Seq(ToolJobs) /\ working \subseteq ToolJobs
    /\ chatTime \in Nat

\* A message was stored by a turn that is over, in its session; an answer
\* is the text of that turn, and stands after its question.
MessagesAreOfTurns ==
    \A s \in ChatSessions : \A i \in DOMAIN sessions[s].messages :
        LET m == sessions[s].messages[i] IN
        /\ turn[m.caller].pc = "answered" /\ turn[m.caller].session = s
        /\ m.role = "assistant" =>
            /\ m.text = turn[m.caller].text
            /\ \E j \in DOMAIN sessions[s].messages :
                  LET q == sessions[s].messages[j] IN
                  q.caller = m.caller /\ q.role = "user" /\ q.ordinal < m.ordinal

\* The inductive invariant of the chat.
ChatInvariant ==
    /\ ChatTypeOK
    /\ \A c \in ChatCallers : TurnOk(turn[c])
    /\ MessagesAreOfTurns

----------------------------------------------------------------------------

LEMMA BlanksAreResults == Blank \in ToolResults /\ Failure \in ToolResults /\ Failure.error
  BY DEF Blank, Failure, ToolResults

\* A turn that begins, whatever it says and where it is saved.
LEMMA NewTurnIsOk ==
    /\ NewTurn \in Turns
    /\ SeenIsShown(NewTurn)
    /\ \A i : i \notin DOMAIN NewTurn.calls
<1>1. NothingSeen \in SeenStates
  BY DEF NothingSeen, SeenStates, Stamps
<1>2. <<>> \in Seq(STRING) /\ <<>> \in Seq(ToolCalls)
  OBVIOUS
<1>3. NewTurn \in Turns
  BY <1>1, <1>2 DEF NewTurn, Turns
<1>4. NewTurn.calls = <<>> /\ NewTurn.seen = NothingSeen
  BY DEF NewTurn
<1>5. \A i : i \notin DOMAIN NewTurn.calls
  BY <1>4
<1>6. Good(NewTurn) = {} /\ Readings(NewTurn.calls) = {}
  BY <1>5 DEF Good, Readings
<1>7. LastReading(NewTurn) = NoStamp
  BY <1>6 DEF LastReading
<1> QED
  BY <1>3, <1>4, <1>5, <1>6, <1>7 DEF SeenIsShown, NothingSeen

\* A turn that has what its contract asks for has earned its report.
LEMMA MetIsEarned ==
    ASSUME NEW t, TurnOk(t), t.pc = "plan", NEW flags, NEW sections \in BOOLEAN, NEW at,
           ContractMet(t.contract, t.seen, flags, t.round, sections, at),
           NEW u, u.contract = t.contract, u.calls = t.calls, u.ended = at
    PROVE  Earned(u)
<1>1. t.contract \in SkillContracts /\ SeenIsShown(t)
  BY DEF TurnOk
<1>2. t.contract.version \in Nat
  BY <1>1, ChatAssumption DEF SkillContracts
<1>3. Good(u) = Good(t) /\ Used(u) = Used(t) /\ LastReading(u) = LastReading(t)
      /\ Told(u, "evidence") = Told(t, "evidence") /\ Told(u, "specialists") = Told(t, "specialists")
  BY DEF Good, Used, LastReading, Told
<1>4. \A i \in DOMAIN u.calls : u.calls[i].tool \notin u.contract.forbidden
  BY <1>1 DEF ContractMet, SeenIsShown
<1>5. u.contract.market # NoStamp => FreshAt(LastReading(u), u.contract.market, u.ended)
  BY <1>1, <1>3 DEF ContractMet, SeenIsShown
<1>6. u.contract.version < 3 =>
         /\ u.contract.required \subseteq Used(u)
         /\ \A group \in u.contract.anyOf : group \cap Used(u) # {}
         /\ u.contract.regime => "get_market_regime" \in Used(u)
         /\ u.contract.memory => \E i \in Good(u) : u.calls[i].result.memories
  <2> SUFFICES ASSUME u.contract.version < 3
               PROVE  /\ u.contract.required \subseteq Used(u)
                      /\ \A group \in u.contract.anyOf : group \cap Used(u) # {}
                      /\ u.contract.regime => "get_market_regime" \in Used(u)
                      /\ u.contract.memory => \E i \in Good(u) : u.calls[i].result.memories
    OBVIOUS
  <2>1. ToolsMet(t.contract, t.seen, flags)
    BY <1>2 DEF ContractMet
  <2> QED BY <2>1, <1>1, <1>3 DEF ToolsMet, SeenIsShown
<1>7. u.contract.version >= 3 =>
         /\ u.contract.evidence \subseteq Told(u, "evidence")
         /\ u.contract.specialists \subseteq Told(u, "specialists")
         /\ u.contract.risk => \E i \in Good(u) : u.calls[i].result.risk
  <2> SUFFICES ASSUME u.contract.version >= 3
               PROVE  /\ u.contract.evidence \subseteq Told(u, "evidence")
                      /\ u.contract.specialists \subseteq Told(u, "specialists")
                      /\ u.contract.risk => \E i \in Good(u) : u.calls[i].result.risk
    OBVIOUS
  <2>1. EvidenceMet(t.contract, t.seen)
    BY <1>2 DEF ContractMet
  <2> QED BY <2>1, <1>1, <1>3 DEF EvidenceMet, SeenIsShown
<1> QED
  BY <1>4, <1>5, <1>6, <1>7 DEF Earned

\* The last of the readings is the one that LastReading takes.
LEMMA LastIs ==
    ASSUME NEW t, t.calls \in Seq(ToolCalls), NEW i \in Readings(t.calls),
           \A j \in Readings(t.calls) : j <= i
    PROVE  LastReading(t) = t.calls[i].stamp
<1>1. Readings(t.calls) = {j \in Good(t) : t.calls[j].tool \in MarketTools}
  BY DEF Readings, Good
<1>2. Readings(t.calls) \subseteq Nat
  BY DEF Readings
<1> DEFINE Last(k) == \A j \in Readings(t.calls) : j <= k
<1>3. PICK k : k = CHOOSE l \in Readings(t.calls) : Last(l)
  OBVIOUS
<1>4. k \in Readings(t.calls) /\ Last(k)
  <2>1. \E l \in Readings(t.calls) : Last(l)
    OBVIOUS
  <2> HIDE DEF Last
  <2> QED BY <1>3, <2>1
<1>5. k = i
  BY <1>2, <1>4
<1>6. LastReading(t) = t.calls[k].stamp
  BY <1>1, <1>3 DEF LastReading
<1> QED
  BY <1>5, <1>6

\* A result that is recorded keeps the books with the calls.
LEMMA RecordKeeps ==
    ASSUME NEW t \in Turns, SeenIsShown(t), NEW tool \in STRING, NEW r \in ToolResults,
           NEW stamp \in Stamps, NEW u \in Turns,
           u.calls = Append(t.calls, [tool |-> tool, result |-> r, stamp |-> stamp]),
           u.seen = RecordResult(t.seen, tool, r, stamp)
    PROVE  SeenIsShown(u)
<1> DEFINE n == Len(t.calls) + 1
<1>1. t.calls \in Seq(ToolCalls) /\ u.calls \in Seq(ToolCalls) /\ t.seen \in SeenStates
  BY DEF Turns
<1>2. PICK entry \in ToolCalls : entry = [tool |-> tool, result |-> r, stamp |-> stamp]
  BY DEF ToolCalls
<1>3. /\ DOMAIN t.calls = 1..(n-1) /\ DOMAIN u.calls = 1..n /\ n \in Nat
      /\ \A i \in DOMAIN t.calls : i \in DOMAIN u.calls /\ i < n /\ u.calls[i] = t.calls[i]
      /\ n \in DOMAIN u.calls /\ u.calls[n] = entry
      /\ \A i \in DOMAIN u.calls : i \in DOMAIN t.calls \/ i = n
  BY <1>1, <1>2
<1>4. entry.tool = tool /\ entry.result = r /\ entry.stamp = stamp
  BY <1>2
<1> HIDE DEF n
<1>5. Good(t) \subseteq Good(u) /\ (~r.error => n \in Good(u))
  BY <1>3, <1>4 DEF Good
<1>6. Used(t) \subseteq Used(u) /\ (~r.error => tool \in Used(u))
  <2>1. \A i \in Good(t) : i \in Good(u) /\ u.calls[i].tool = t.calls[i].tool
    BY <1>3, <1>5 DEF Good
  <2>2. ~r.error => n \in Good(u) /\ u.calls[n].tool = tool
    BY <1>3, <1>4, <1>5
  <2> QED BY <2>1, <2>2 DEF Used
<1>7. /\ Told(t, "evidence") \subseteq Told(u, "evidence")
      /\ Told(t, "specialists") \subseteq Told(u, "specialists")
      /\ ~r.error => r.evidence \subseteq Told(u, "evidence") /\ r.specialists \subseteq Told(u, "specialists")
  <2>1. \A i \in Good(t) : i \in Good(u) /\ u.calls[i] = t.calls[i]
    BY <1>3, <1>5 DEF Good
  <2>2. ~r.error => n \in Good(u) /\ u.calls[n].result = r
    BY <1>3, <1>4, <1>5
  <2>3. \A field \in {"evidence", "specialists"} :
          /\ Told(t, field) \subseteq Told(u, field)
          /\ ~r.error => r[field] \subseteq Told(u, field)
    BY <2>1, <2>2 DEF Told
  <2> QED BY <2>3
<1>8. /\ \A i \in Good(t) : i \in Good(u) /\ u.calls[i].result = t.calls[i].result
      /\ ~r.error => n \in Good(u) /\ u.calls[n].result = r
  BY <1>3, <1>4, <1>5 DEF Good
<1>9. CASE ~Succeeds(r)
  <2>1. r.error
    BY <1>9 DEF Succeeds
  <2>2. /\ u.seen.called = t.seen.called \cup {tool}
        /\ u.seen.succeeded = t.seen.succeeded /\ u.seen.stamp = t.seen.stamp
        /\ u.seen.regime = t.seen.regime /\ u.seen.memory = t.seen.memory
        /\ u.seen.evidence = t.seen.evidence /\ u.seen.specialists = t.seen.specialists
        /\ u.seen.risk = t.seen.risk
    BY <1>1, <1>9 DEF RecordResult, SeenStates
  <2>3. Readings(u.calls) = Readings(t.calls)
    BY <1>3, <1>4, <2>1 DEF Readings
  <2>4. LastReading(u) = LastReading(t)
    <3>1. CASE Readings(t.calls) = {}
      <4>1. {i \in Good(t) : t.calls[i].tool \in MarketTools} = {}
        BY <3>1 DEF Readings, Good
      <4>2. {i \in Good(u) : u.calls[i].tool \in MarketTools} = {}
        BY <3>1, <2>3 DEF Readings, Good
      <4> QED BY <4>1, <4>2 DEF LastReading
    <3>2. CASE Readings(t.calls) # {}
      <4>1. PICK i \in Readings(t.calls) : \A j \in Readings(t.calls) : j <= i
        BY <3>2 DEF SeenIsShown
      <4>2. LastReading(t) = t.calls[i].stamp
        BY <4>1, <1>1, LastIs
      <4>3. LastReading(u) = u.calls[i].stamp
        BY <4>1, <1>1, <2>3, LastIs
      <4>4. u.calls[i] = t.calls[i]
        BY <1>3 DEF Readings
      <4> QED BY <4>2, <4>3, <4>4
    <3> QED BY <3>1, <3>2
  <2>5. Readings(u.calls) # {} =>
          \E i \in Readings(u.calls) : \A j \in Readings(u.calls) : j <= i
    BY <2>3 DEF SeenIsShown
  <2>6. \A i \in DOMAIN u.calls : u.calls[i].tool \in u.seen.called
    BY <1>3, <1>4, <2>2 DEF SeenIsShown
  <2> QED BY <1>6, <1>7, <1>8, <2>2, <2>4, <2>5, <2>6 DEF SeenIsShown
<1>10. CASE Succeeds(r)
  <2>1. ~r.error
    BY <1>10 DEF Succeeds
  <2>2. /\ u.seen.called = t.seen.called \cup {tool}
        /\ u.seen.succeeded = t.seen.succeeded \cup {tool}
        /\ u.seen.stamp = IF tool \in MarketTools THEN stamp ELSE t.seen.stamp
        /\ u.seen.regime = (t.seen.regime \/ tool = "get_market_regime")
        /\ u.seen.memory = (t.seen.memory \/ (tool \in MemoryTools /\ r.memories))
        /\ u.seen.evidence = t.seen.evidence \cup r.evidence
        /\ u.seen.specialists = t.seen.specialists \cup r.specialists
        /\ u.seen.risk = (t.seen.risk \/ r.risk)
    BY <1>10 DEF RecordResult
  <2>3. /\ u.seen.stamp = LastReading(u)
        /\ Readings(u.calls) # {} =>
             \E i \in Readings(u.calls) : \A j \in Readings(u.calls) : j <= i
    <3>1. CASE tool \in MarketTools
      <4>1. n \in Readings(u.calls)
        BY <3>1, <1>3, <1>4, <2>1 DEF Readings
      <4>2. \A j \in Readings(u.calls) : j <= n
        BY <1>3 DEF Readings
      <4>3. LastReading(u) = u.calls[n].stamp
        BY <4>1, <4>2, <1>1, LastIs
      <4> QED BY <4>1, <4>2, <4>3, <3>1, <2>2, <1>3, <1>4
    <3>2. CASE tool \notin MarketTools
      <4>1. Readings(u.calls) = Readings(t.calls)
        BY <1>3, <1>4, <3>2 DEF Readings
      <4>2. CASE Readings(t.calls) = {}
        <5>1. {i \in Good(t) : t.calls[i].tool \in MarketTools} = {}
          BY <4>2 DEF Readings, Good
        <5>2. {i \in Good(u) : u.calls[i].tool \in MarketTools} = {}
          BY <4>1, <4>2 DEF Readings, Good
        <5>3. LastReading(u) = LastReading(t)
          BY <5>1, <5>2 DEF LastReading
        <5> QED BY <5>3, <4>1, <4>2, <3>2, <2>2 DEF SeenIsShown
      <4>3. CASE Readings(t.calls) # {}
        <5>1. PICK i \in Readings(t.calls) : \A j \in Readings(t.calls) : j <= i
          BY <4>3 DEF SeenIsShown
        <5>2. LastReading(t) = t.calls[i].stamp
          BY <5>1, <1>1, LastIs
        <5>3. LastReading(u) = u.calls[i].stamp
          BY <5>1, <1>1, <4>1, LastIs
        <5>4. u.calls[i] = t.calls[i]
          BY <1>3 DEF Readings
        <5> QED BY <5>1, <5>2, <5>3, <5>4, <4>1, <3>2, <2>2 DEF SeenIsShown
      <4> QED BY <4>2, <4>3
    <3> QED BY <3>1, <3>2
  <2>4. \A i \in DOMAIN u.calls : u.calls[i].tool \in u.seen.called
    BY <1>3, <1>4, <2>2 DEF SeenIsShown
  <2>5. u.seen.succeeded \subseteq Used(u) /\ (u.seen.regime => "get_market_regime" \in Used(u))
    BY <1>6, <2>1, <2>2 DEF SeenIsShown
  <2>6. /\ u.seen.memory => \E i \in Good(u) : u.calls[i].result.memories
        /\ u.seen.risk => \E i \in Good(u) : u.calls[i].result.risk
    BY <1>8, <2>1, <2>2 DEF SeenIsShown
  <2>7. u.seen.evidence \subseteq Told(u, "evidence") /\ u.seen.specialists \subseteq Told(u, "specialists")
    BY <1>7, <2>1, <2>2 DEF SeenIsShown
  <2> QED BY <2>3, <2>4, <2>5, <2>6, <2>7 DEF SeenIsShown
<1> QED
  BY <1>9, <1>10

\* The end of a run: an accepted report, or the state of the run is lost.
LEMMA ConcludedIsOk ==
    ASSUME chatTime \in Nat, NEW t, TurnOk(t), t.pc # "idle", NEW text \in {"report", "degraded", "nothing"},
           text = "report" =>
              \A u : u.contract = t.contract /\ u.calls = t.calls /\ u.ended = chatTime => Earned(u)
    PROVE  TurnOk(Concluded(t, text)) /\ Concluded(t, text).pc = "save"
<1> DEFINE u == Concluded(t, text)
<1>0. t \in Turns /\ t.session \in ChatSessions
  BY DEF TurnOk
<1>1. CASE text = "report"
  <2>1. u = [t EXCEPT !.pc = "save", !.text = "report", !.ended = chatTime]
    BY <1>1 DEF Concluded
  <2>2. u \in Turns /\ u.pc = "save" /\ u.contract = t.contract /\ u.calls = t.calls /\ u.ended = chatTime
        /\ u.session \in ChatSessions
    BY <1>0, <2>1 DEF Turns
  <2> HIDE DEF u
  <2>3. Earned(u)
    BY <1>1, <2>2
  <2>4. TurnOk(u) /\ u.pc = "save"
    BY <2>2, <2>3 DEF TurnOk
  <2> QED BY <2>4 DEF u
<1>2. CASE text # "report"
  <2>1. u = [NewTurn EXCEPT !.pc = "save", !.text = text, !.session = t.session]
    BY <1>2 DEF Concluded
  <2>2. t.session \in ChatSessions \cup {NoStamp}
    BY <1>0 DEF Turns
  <2>3. u \in Turns /\ u.pc = "save" /\ u.text = text /\ u.session \in ChatSessions
    BY <1>0, <2>1, <2>2, NewTurnIsOk DEF Turns
  <2> HIDE DEF u
  <2>4. TurnOk(u) /\ u.pc = "save"
    BY <1>2, <2>3 DEF TurnOk
  <2> QED BY <2>4 DEF u
<1> QED
  BY <1>1, <1>2

\* The books and the report of a turn are about its calls.
LEMMA SameBooks ==
    ASSUME NEW t, NEW u, u.calls = t.calls, u.seen = t.seen, SeenIsShown(t)
    PROVE  SeenIsShown(u)
<1>1. /\ Good(u) = Good(t) /\ Used(u) = Used(t) /\ LastReading(u) = LastReading(t)
      /\ Told(u, "evidence") = Told(t, "evidence") /\ Told(u, "specialists") = Told(t, "specialists")
  BY DEF Good, Used, Told, LastReading
<1> QED
  BY <1>1 DEF SeenIsShown

LEMMA SameReport ==
    ASSUME NEW t, NEW u, u.calls = t.calls, u.contract = t.contract, u.ended = t.ended, Earned(t)
    PROVE  Earned(u)
<1>1. /\ Good(u) = Good(t) /\ Used(u) = Used(t) /\ LastReading(u) = LastReading(t)
      /\ Told(u, "evidence") = Told(t, "evidence") /\ Told(u, "specialists") = Told(t, "specialists")
  BY DEF Good, Used, Told, LastReading
<1> QED
  BY <1>1 DEF Earned

\* The turn after the result of the tool it asked for.
LEMMA AfterResultIsOk ==
    ASSUME chatTime \in Nat, NEW t, TurnOk(t), t.pc \in {"call", "wait"},
           NEW tool \in STRING, NEW r \in ToolResults
    PROVE  TurnOk(AfterResult(t, tool, r))
<1>0. /\ t \in Turns /\ SeenIsShown(t) /\ t.asked # <<>> /\ t.contract \in SkillContracts
      /\ t.text = "nothing" /\ t.session \in ChatSessions
  BY DEF TurnOk
<1> DEFINE at == IF r.age = NoStamp THEN NoStamp ELSE chatTime - r.age
<1>1. PICK stamp \in Stamps : stamp = at
  <2>1. at \in Stamps
    BY DEF ToolResults, Stamps
  <2> QED BY <2>1
<1>2. PICK rest \in Seq(STRING) : rest = Tail(t.asked)
  <2>1. t.asked \in Seq(STRING) /\ t.asked # <<>>
    BY <1>0 DEF Turns
  <2>2. Tail(t.asked) \in Seq(STRING)
    BY <2>1, HeadTailProperties
  <2> QED BY <2>2
<1>3. PICK calls \in Seq(ToolCalls) :
          calls = Append(t.calls, [tool |-> tool, result |-> r, stamp |-> stamp])
  <2>1. [tool |-> tool, result |-> r, stamp |-> stamp] \in ToolCalls
    BY DEF ToolCalls
  <2>2. t.calls \in Seq(ToolCalls)
    BY <1>0 DEF Turns
  <2>3. \A entry \in ToolCalls : Append(t.calls, entry) \in Seq(ToolCalls)
    BY <2>2
  <2> QED BY <2>1, <2>3
<1>4. PICK seen \in SeenStates : seen = RecordResult(t.seen, tool, r, stamp)
  <2>1. PICK s \in SeenStates : s = t.seen
    BY <1>0 DEF Turns
  <2>2. CASE Succeeds(r)
    <3>1. RecordResult(s, tool, r, stamp) \in SeenStates
      BY <2>2 DEF RecordResult, SeenStates, ToolResults
    <3> QED BY <2>1, <3>1
  <2>3. CASE ~Succeeds(r)
    <3>1. s.called \cup {tool} \in SUBSET STRING /\ s.failed \cup {tool} \in SUBSET STRING
      BY DEF SeenStates
    <3>2. RecordResult(s, tool, r, stamp) =
            [s EXCEPT !.called = s.called \cup {tool}, !.failed = s.failed \cup {tool}]
      BY <2>3 DEF RecordResult
    <3>3. RecordResult(s, tool, r, stamp) \in SeenStates
      BY <3>1, <3>2 DEF SeenStates
    <3> QED BY <2>1, <3>3
  <2> QED BY <2>2, <2>3
<1> DEFINE done == [t EXCEPT !.asked = rest, !.pc = "call", !.calls = calls, !.seen = seen]
<1>5. done \in Turns
  BY <1>0 DEF Turns
<1>6. /\ done.pc = "call" /\ done.asked = rest /\ done.calls = calls /\ done.seen = seen
      /\ done.contract = t.contract /\ done.text = "nothing" /\ done.round \in Nat
      /\ done.session = t.session
  BY <1>0 DEF Turns
<1>7. AfterResult(t, tool, r) =
        IF done.asked # <<>> THEN done
        ELSE IF done.round = done.contract.maxRounds THEN Concluded(done, "degraded")
        ELSE [done EXCEPT !.pc = "plan", !.round = @ + 1]
  BY <1>1, <1>2, <1>3, <1>4 DEF AfterResult
<1> HIDE DEF done
<1>8. SeenIsShown(done)
  BY <1>0, <1>3, <1>4, <1>5, <1>6, RecordKeeps
<1>9. CASE rest # <<>>
  BY <1>0, <1>5, <1>6, <1>7, <1>8, <1>9 DEF TurnOk
<1>10. CASE rest = <<>>
  <2> DEFINE u == [done EXCEPT !.pc = "plan", !.round = @ + 1]
  <2>1. PICK next \in Nat : next = done.round + 1
    BY <1>6
  <2>2. u = [done EXCEPT !.pc = "plan", !.round = next]
    BY <2>1
  <2>3. /\ u \in Turns /\ u.pc = "plan" /\ u.calls = done.calls /\ u.seen = done.seen
        /\ u.contract = done.contract /\ u.text = done.text /\ u.session = done.session
    BY <1>5, <2>2 DEF Turns
  <2> HIDE DEF u
  <2>4. SeenIsShown(u)
    BY <1>8, <2>3, SameBooks
  <2>5. TurnOk(u)
    BY <1>0, <1>6, <2>3, <2>4 DEF TurnOk
  <2>6. CASE done.round # done.contract.maxRounds
    BY <2>5, <2>6, <1>6, <1>7, <1>10 DEF u
  <2>7. CASE done.round = done.contract.maxRounds
    <3>1. Concluded(done, "degraded") = [NewTurn EXCEPT !.pc = "save", !.text = "degraded", !.session = done.session]
      BY DEF Concluded
    <3>2. Concluded(done, "degraded") = Concluded(t, "degraded")
      BY <3>1, <1>6 DEF Concluded
    <3>3. TurnOk(Concluded(t, "degraded"))
      BY ConcludedIsOk
    <3> QED BY <2>7, <3>2, <3>3, <1>6, <1>7, <1>10
  <2> QED BY <2>6, <2>7
<1> QED
  BY <1>9, <1>10

----------------------------------------------------------------------------

\* A step of the turns: all stay well, and one that is over stays as it is.
TurnsMove ==
    /\ turn' \in [ChatCallers -> Turns]
    /\ \A c \in ChatCallers : TurnOk(turn'[c])
    /\ \A c \in ChatCallers : turn[c].pc = "answered" => turn'[c] = turn[c]

LEMMA OneTurn ==
    ASSUME turn \in [ChatCallers -> Turns], \A c \in ChatCallers : TurnOk(turn[c]),
           NEW c \in ChatCallers, NEW u, TurnOk(u), turn' = [turn EXCEPT ![c] = u],
           turn[c].pc # "answered"
    PROVE  TurnsMove
<1>1. u \in Turns
  BY DEF TurnOk
<1>2. \A d \in ChatCallers : turn'[d] = IF d = c THEN u ELSE turn[d]
  OBVIOUS
<1> QED
  BY <1>1, <1>2 DEF TurnsMove

\* The steps of a turn keep every turn well.
LEMMA ChatStepTurns ==
    ASSUME ChatTypeOK, \A c \in ChatCallers : TurnOk(turn[c]), NEW c \in ChatCallers, ChatStep(c)
    PROVE  TurnsMove
<1>0. turn \in [ChatCallers -> Turns] /\ TurnOk(turn[c]) /\ chatTime \in Nat
  BY DEF ChatTypeOK
<1>1. PICK t \in Turns : t = turn[c]
  BY <1>0
<1>2. TurnOk(t)
  BY <1>0, <1>1
<1>3. ASSUME NEW s \in ChatSessions, OpenSession(c, s) PROVE TurnsMove
  <2>1. PICK pc \in {"refused", "choose"} : pc = IF sessions[s].state = "deleted" THEN "refused" ELSE "choose"
    OBVIOUS
  <2> DEFINE u == [t EXCEPT !.session = s, !.pc = pc]
  <2>2. t.pc = "idle" /\ turn' = [turn EXCEPT ![c] = u]
    BY <1>0, <1>1, <1>3, <2>1 DEF OpenSession
  <2>3. u \in Turns /\ u.pc = pc /\ u.calls = t.calls /\ u.seen = t.seen /\ u.text = t.text /\ u.session = s
    BY DEF Turns
  <2> HIDE DEF u
  <2>4. SeenIsShown(t) /\ t.text = "nothing"
    BY <1>2, <2>2 DEF TurnOk
  <2>5. SeenIsShown(u)
    BY <2>3, <2>4, SameBooks
  <2>6. TurnOk(u)
    BY <2>3, <2>4, <2>5 DEF TurnOk
  <2> QED BY <1>0, <1>1, <2>2, <2>6, OneTurn
<1>4. ASSUME NEW k \in ContractsOf[c], ChooseSkill(c, k) PROVE TurnsMove
  <2> DEFINE u == [t EXCEPT !.pc = "plan", !.contract = k, !.round = 1]
  <2>1. t.pc = "choose" /\ turn' = [turn EXCEPT ![c] = u]
    BY <1>0, <1>1, <1>4 DEF ChooseSkill
  <2>2. k \in SkillContracts
    BY DEF SkillContracts
  <2>3. u \in Turns /\ u.pc = "plan" /\ u.calls = t.calls /\ u.seen = t.seen /\ u.text = t.text /\ u.contract = k /\ u.session = t.session
    BY <2>2 DEF Turns
  <2> HIDE DEF u
  <2>4. SeenIsShown(t) /\ t.text = "nothing" /\ t.session \in ChatSessions
    BY <1>2, <2>1 DEF TurnOk
  <2>5. SeenIsShown(u)
    BY <2>3, <2>4, SameBooks
  <2>6. TurnOk(u)
    BY <2>2, <2>3, <2>4, <2>5 DEF TurnOk
  <2> QED BY <1>0, <1>1, <2>1, <2>6, OneTurn
<1>5. CASE FallbackAnalysis(c)
  <2>1. t.pc = "choose" /\ turn' = [turn EXCEPT ![c] = Concluded(t, "nothing")]
    BY <1>0, <1>1, <1>5 DEF FallbackAnalysis
  <2>2. TurnOk(Concluded(t, "nothing"))
    BY <1>0, <1>2, <2>1, ConcludedIsOk
  <2> QED BY <1>0, <1>1, <2>1, <2>2, OneTurn
<1>6. CASE RunRaises(c)
  <2>1. t.pc \in {"choose", "plan", "call", "wait"} /\ turn' = [turn EXCEPT ![c] = Concluded(t, "degraded")]
    BY <1>0, <1>1, <1>6 DEF RunRaises
  <2>2. TurnOk(Concluded(t, "degraded"))
    BY <1>0, <1>2, <2>1, ConcludedIsOk
  <2> QED BY <1>0, <1>1, <2>1, <2>2, OneTurn
<1>7. ASSUME NEW plan \in PlansOf[c], AskTools(c, plan) PROVE TurnsMove
  <2> DEFINE u == [t EXCEPT !.pc = "call", !.asked = plan]
  <2>1. t.pc = "plan" /\ turn' = [turn EXCEPT ![c] = u]
    BY <1>0, <1>1, <1>7 DEF AskTools
  <2>2. plan \in Seq(STRING) /\ plan # <<>>
    BY ChatAssumption
  <2>3. /\ u \in Turns /\ u.pc = "call" /\ u.asked = plan /\ u.calls = t.calls /\ u.seen = t.seen
        /\ u.text = t.text /\ u.contract = t.contract /\ u.session = t.session
    BY <2>2 DEF Turns
  <2> HIDE DEF u
  <2>4. SeenIsShown(t) /\ t.text = "nothing" /\ t.contract \in SkillContracts /\ t.session \in ChatSessions
    BY <1>2, <2>1 DEF TurnOk
  <2>5. SeenIsShown(u)
    BY <2>3, <2>4, SameBooks
  <2>6. TurnOk(u)
    BY <2>2, <2>3, <2>4, <2>5 DEF TurnOk
  <2> QED BY <1>0, <1>1, <2>1, <2>6, OneTurn
<1>8. ASSUME NEW sections \in BOOLEAN, Answer(c, sections) PROVE TurnsMove
  <2> DEFINE met == ContractMet(t.contract, t.seen, FlagsOf[c], t.round, sections, chatTime)
             u == IF met THEN Concluded(t, "report")
                  ELSE IF t.round = t.contract.maxRounds THEN Concluded(t, "degraded")
                  ELSE [t EXCEPT !.round = @ + 1]
  <2>1. t.pc = "plan" /\ turn' = [turn EXCEPT ![c] = u]
    BY <1>0, <1>1, <1>8 DEF Answer
  <2>2. CASE met
    <3>1. \A v : v.contract = t.contract /\ v.calls = t.calls /\ v.ended = chatTime => Earned(v)
      BY <1>2, <2>1, <2>2, MetIsEarned
    <3>2. TurnOk(Concluded(t, "report"))
      BY <1>0, <1>2, <2>1, <3>1, ConcludedIsOk
    <3> QED BY <2>2, <3>2, <1>0, <1>1, <2>1, OneTurn
  <2>3. CASE ~met /\ t.round = t.contract.maxRounds
    <3>1. TurnOk(Concluded(t, "degraded"))
      BY <1>0, <1>2, <2>1, ConcludedIsOk
    <3> QED BY <2>3, <3>1, <1>0, <1>1, <2>1, OneTurn
  <2>4. CASE ~met /\ t.round # t.contract.maxRounds
    <3>1. PICK next \in Nat : next = t.round + 1
      BY DEF Turns
    <3> DEFINE v == [t EXCEPT !.round = next]
    <3>2. u = v
      BY <2>4, <3>1
    <3>3. /\ v \in Turns /\ v.pc = t.pc /\ v.calls = t.calls /\ v.seen = t.seen
          /\ v.text = t.text /\ v.contract = t.contract /\ v.session = t.session
      BY DEF Turns
    <3> HIDE DEF u, v
    <3>4. SeenIsShown(t) /\ t.text = "nothing" /\ t.contract \in SkillContracts /\ t.session \in ChatSessions
      BY <1>2, <2>1 DEF TurnOk
    <3>5. SeenIsShown(v)
      BY <3>3, <3>4, SameBooks
    <3>6. TurnOk(v)
      BY <2>1, <3>3, <3>4, <3>5 DEF TurnOk
    <3> QED BY <1>0, <1>1, <2>1, <3>2, <3>6, OneTurn
  <2> QED BY <2>2, <2>3, <2>4
<1>9. CASE CallTool(c)
  <2>1. t.pc = "call" /\ t.asked # <<>> /\ t.asked \in Seq(STRING)
    BY <1>1, <1>2, <1>9 DEF CallTool, TurnOk, Turns
  <2>2. PICK tool \in STRING : tool = Head(t.asked)
    BY <2>1, HeadTailProperties
  <2>3. CASE tool \in DOMAIN ResultsOf
    <3> DEFINE u == [t EXCEPT !.pc = "wait"]
    <3>1. turn' = [turn EXCEPT ![c] = u]
      BY <1>0, <1>1, <1>9, <2>2, <2>3 DEF CallTool
    <3>2. /\ u \in Turns /\ u.pc = "wait" /\ u.asked = t.asked /\ u.calls = t.calls /\ u.seen = t.seen
          /\ u.text = t.text /\ u.contract = t.contract /\ u.session = t.session
      BY DEF Turns
    <3> HIDE DEF u
    <3>3. SeenIsShown(t) /\ t.text = "nothing" /\ t.contract \in SkillContracts /\ t.session \in ChatSessions
      BY <1>2, <2>1 DEF TurnOk
    <3>4. SeenIsShown(u)
      BY <3>2, <3>3, SameBooks
    <3>5. TurnOk(u)
      BY <2>1, <3>2, <3>3, <3>4 DEF TurnOk
    <3> QED BY <1>0, <1>1, <2>1, <3>1, <3>5, OneTurn
  <2>4. CASE tool \notin DOMAIN ResultsOf
    <3>1. turn' = [turn EXCEPT ![c] = AfterResult(t, tool, Failure)]
      BY <1>0, <1>1, <1>9, <2>2, <2>4 DEF CallTool
    <3>2. TurnOk(AfterResult(t, tool, Failure))
      BY <1>0, <1>2, <2>1, BlanksAreResults, AfterResultIsOk
    <3> QED BY <1>0, <1>1, <2>1, <3>1, <3>2, OneTurn
  <2> QED BY <2>3, <2>4
<1>10. CASE TimeOutTool(c)
  <2>1. t.pc = "wait" /\ turn' = [turn EXCEPT ![c] = AfterResult(t, Head(t.asked), Failure)]
    BY <1>0, <1>1, <1>10 DEF TimeOutTool
  <2>2. t.asked # <<>> /\ t.asked \in Seq(STRING)
    BY <1>2, <2>1 DEF TurnOk, Turns
  <2>3. PICK tool \in STRING : tool = Head(t.asked)
    BY <2>2, HeadTailProperties
  <2>4. TurnOk(AfterResult(t, tool, Failure))
    BY <1>0, <1>2, <2>1, BlanksAreResults, AfterResultIsOk
  <2> QED BY <1>0, <1>1, <2>1, <2>3, <2>4, OneTurn
<1>11. CASE CountMessages(c)
  <2>1. t.pc = "save" /\ t.session \in ChatSessions
    BY <1>1, <1>2, <1>11 DEF CountMessages, TurnOk
  <2>2. PICK n \in Nat : n = Len(sessions[t.session].messages)
    BY <2>1 DEF ChatTypeOK
  <2>3. PICK u : u = IF sessions[t.session].state = "open" THEN [t EXCEPT !.pc = "insert", !.count = n]
                     ELSE [t EXCEPT !.pc = "lost"]
    OBVIOUS
  <2>4. turn' = [turn EXCEPT ![c] = u]
    BY <1>0, <1>1, <1>11, <2>2, <2>3 DEF CountMessages
  <2>5. /\ u \in Turns /\ u.pc \in {"insert", "lost"} /\ u.calls = t.calls /\ u.text = t.text
        /\ u.contract = t.contract /\ u.ended = t.ended /\ u.session = t.session
    BY <2>3 DEF Turns
  <2>6. u.text = "report" => Earned(u)
    BY <1>2, <2>5, SameReport DEF TurnOk
  <2>7. TurnOk(u)
    BY <2>1, <2>5, <2>6 DEF TurnOk
  <2> QED BY <1>0, <1>1, <2>1, <2>4, <2>7, OneTurn
<1>12. CASE InsertMessages(c)
  <2>1. t.pc = "insert" /\ t.session \in ChatSessions
    BY <1>1, <1>2, <1>12 DEF InsertMessages, TurnOk
  <2>2. PICK pc \in {"answered", "lost"} : turn' = [turn EXCEPT ![c].pc = pc]
    BY <1>12 DEF InsertMessages
  <2> DEFINE u == [t EXCEPT !.pc = pc]
  <2>3. turn' = [turn EXCEPT ![c] = u]
    BY <1>0, <1>1, <2>2
  <2>4. /\ u \in Turns /\ u.pc = pc /\ u.calls = t.calls /\ u.text = t.text
        /\ u.contract = t.contract /\ u.ended = t.ended /\ u.session = t.session
    BY DEF Turns
  <2> HIDE DEF u
  <2>5. u.text = "report" => Earned(u)
    BY <1>2, <2>4, SameReport DEF TurnOk
  <2>6. TurnOk(u)
    BY <2>1, <2>4, <2>5 DEF TurnOk
  <2> QED BY <1>0, <1>1, <2>1, <2>3, <2>6, OneTurn
<1> QED
  BY <1>3, <1>4, <1>5, <1>6, <1>7, <1>8, <1>9, <1>10, <1>11, <1>12 DEF ChatStep

\* A tool that returns moves the turn that waits for it, if any does.
LEMMA FinishTurns ==
    ASSUME ChatTypeOK, \A c \in ChatCallers : TurnOk(turn[c]), NEW job \in working,
           NEW r \in ResultsOf[job.tool] \cup {Failure}, FinishTool(job, r)
    PROVE  TurnsMove
<1>0. turn \in [ChatCallers -> Turns] /\ job \in ToolJobs /\ chatTime \in Nat
  BY DEF ChatTypeOK
<1>1. PICK c \in ChatCallers : c = job.caller
  BY <1>0 DEF ToolJobs
<1>2. PICK t \in Turns : t = turn[c]
  BY <1>0
<1>3. TurnOk(t)
  BY <1>2
<1>4. job.tool \in STRING /\ r \in ToolResults
  BY <1>0, ChatAssumption, BlanksAreResults DEF ToolJobs
<1>5. Limited(r) \in ToolResults
  BY <1>4, BlanksAreResults DEF Limited
<1>6. CASE t.pc = "wait" /\ Job(c) = job
  <2>1. turn' = [turn EXCEPT ![c] = AfterResult(t, job.tool, Limited(r))]
    BY <1>0, <1>1, <1>2, <1>6 DEF FinishTool
  <2>2. TurnOk(AfterResult(t, job.tool, Limited(r)))
    BY <1>0, <1>3, <1>4, <1>5, <1>6, AfterResultIsOk
  <2> QED BY <1>0, <1>2, <1>6, <2>1, <2>2, OneTurn
<1>7. CASE ~(t.pc = "wait" /\ Job(c) = job)
  <2>1. turn' = turn
    BY <1>1, <1>2, <1>7 DEF FinishTool
  <2> QED BY <1>0, <2>1 DEF TurnsMove
<1> QED
  BY <1>6, <1>7

LEMMA TurnsKeep ==
    ASSUME ChatInvariant, [ChatNext]_chatVars
    PROVE  TurnsMove
<1>0. ChatTypeOK /\ (\A c \in ChatCallers : TurnOk(turn[c])) /\ turn \in [ChatCallers -> Turns]
  BY DEF ChatInvariant, ChatTypeOK
<1>1. ASSUME NEW c \in ChatCallers, ChatStep(c) PROVE TurnsMove
  BY <1>0, <1>1, ChatStepTurns
<1>2. ASSUME NEW job \in working, NEW r \in ResultsOf[job.tool] \cup {Failure}, FinishTool(job, r)
      PROVE  TurnsMove
  BY <1>0, <1>2, FinishTurns
<1>3. CASE turn' = turn
  BY <1>0, <1>3 DEF TurnsMove
<1> QED
  BY <1>1, <1>2, <1>3 DEF ChatNext, StartTool, DeleteSession, ChatTick, chatVars

\* What a step does to the sessions, and to the queue of the pool.
SameMessages ==
    \A s \in ChatSessions : sessions'[s].messages = sessions[s].messages

ChatTypeRest ==
    /\ sessions \in [ChatSessions -> [state : {"absent", "open", "deleted"}, messages : Seq(Messages)]]
    /\ waiting \in Seq(ToolJobs) /\ working \subseteq ToolJobs
    /\ chatTime \in Nat

\* Two messages are stored, the question before the answer.
LEMMA InsertedRows ==
    ASSUME ChatTypeOK, NEW c \in ChatCallers, TurnOk(turn[c]), InsertMessages(c),
           sessions' # sessions
    PROVE  \E s \in ChatSessions : \E n \in Nat : \E q, a \in Messages :
               /\ s = turn[c].session /\ turn'[c] = [turn[c] EXCEPT !.pc = "answered"]
               /\ q = Message(c, "user", n, "question")
               /\ a = Message(c, "assistant", n + 1, turn[c].text)
               /\ sessions' = [sessions EXCEPT ![s].messages = sessions[s].messages \o <<q, a>>]
<1>0. turn \in [ChatCallers -> Turns]
  BY DEF ChatTypeOK
<1>1. PICK t \in Turns : t = turn[c]
  BY <1>0
<1>2. t.pc = "insert" /\ t.session \in ChatSessions /\ t.count \in Nat
      /\ t.text \in {"nothing", "report", "degraded"}
  BY <1>1 DEF InsertMessages, TurnOk, Turns
<1>3. PICK n \in Nat : n = t.count
  BY <1>2
<1>4. PICK s \in ChatSessions : s = t.session
  BY <1>2
<1>5. PICK q \in Messages : q = Message(c, "user", n, "question")
  BY DEF Message, Messages
<1>6. PICK a \in Messages : a = Message(c, "assistant", n + 1, t.text)
  <2>1. n + 1 \in Nat
    OBVIOUS
  <2> QED BY <1>2, <2>1 DEF Message, Messages
<1>7. /\ sessions' = [sessions EXCEPT ![s].messages = @ \o <<q, a>>]
      /\ turn' = [turn EXCEPT ![c].pc = "answered"]
  BY <1>1, <1>3, <1>4, <1>5, <1>6 DEF InsertMessages
<1>8. sessions' = [sessions EXCEPT ![s].messages = sessions[s].messages \o <<q, a>>]
  BY <1>7 DEF ChatTypeOK
<1>9. turn'[c] = [turn[c] EXCEPT !.pc = "answered"]
  BY <1>0, <1>7
<1> QED
  BY <1>1, <1>4, <1>5, <1>6, <1>8, <1>9

LEMMA ChatTypeStep ==
    ASSUME ChatInvariant, [ChatNext]_chatVars
    PROVE  ChatTypeOK'
<1> USE DEF ChatInvariant
<1>0. ChatTypeOK /\ ChatTypeRest /\ turn \in [ChatCallers -> Turns]
  BY DEF ChatTypeOK, ChatTypeRest
<1>1. turn' \in [ChatCallers -> Turns]
  BY TurnsKeep DEF TurnsMove
<1>2. ASSUME NEW c \in ChatCallers, NEW s \in ChatSessions, OpenSession(c, s) PROVE ChatTypeRest'
  <2>1. PICK state \in {"absent", "open", "deleted"} :
            state = IF sessions[s].state = "absent" THEN "open" ELSE sessions[s].state
    BY <1>0 DEF ChatTypeRest
  <2>2. sessions' = [sessions EXCEPT ![s].state = state]
    BY <1>0, <1>2, <2>1 DEF OpenSession, ChatTypeRest
  <2> QED BY <1>0, <1>2, <2>2 DEF OpenSession, ChatTypeRest
<1>3. ASSUME NEW c \in ChatCallers, CallTool(c) PROVE ChatTypeRest'
  <2>1. CASE Head(turn[c].asked) \notin DOMAIN ResultsOf
    BY <1>0, <1>3, <2>1 DEF CallTool, ChatTypeRest
  <2>2. CASE Head(turn[c].asked) \in DOMAIN ResultsOf
    <3>1. turn[c].calls \in Seq(ToolCalls)
      BY <1>0 DEF Turns
    <3>2. PICK n \in Nat : n = Len(turn[c].calls)
      BY <3>1
    <3>3. PICK tool \in DOMAIN ResultsOf : tool = Head(turn[c].asked)
      BY <2>2
    <3>4. PICK job \in ToolJobs : job = Job(c)
      <4>1. [caller |-> c, number |-> n, tool |-> tool] \in ToolJobs
        BY DEF ToolJobs
      <4> QED BY <3>2, <3>3, <4>1 DEF Job
    <3>5. waiting' = Append(waiting, job)
      BY <1>3, <2>2, <3>4 DEF CallTool
    <3>6. waiting' \in Seq(ToolJobs)
      BY <1>0, <3>5 DEF ChatTypeRest
    <3> QED BY <1>0, <1>3, <3>6 DEF CallTool, ChatTypeRest
  <2> QED BY <2>1, <2>2
<1>4. ASSUME StartTool PROVE ChatTypeRest'
  <2>1. Head(waiting) \in ToolJobs /\ Tail(waiting) \in Seq(ToolJobs)
    BY <1>0, <1>4, HeadTailProperties DEF StartTool, ChatTypeRest
  <2> QED BY <1>0, <1>4, <2>1 DEF StartTool, ChatTypeRest
<1>5. ASSUME NEW job \in working, NEW r, FinishTool(job, r) PROVE ChatTypeRest'
  BY <1>0, <1>5 DEF FinishTool, ChatTypeRest
<1>6. ASSUME NEW c \in ChatCallers, InsertMessages(c) PROVE ChatTypeRest'
  <2>1. CASE sessions' = sessions
    BY <1>0, <1>6, <2>1 DEF InsertMessages, ChatTypeRest
  <2>2. CASE sessions' # sessions
    <3>1. TurnOk(turn[c])
      OBVIOUS
    <3>2. PICK s \in ChatSessions, n \in Nat, q \in Messages, a \in Messages :
              /\ s = turn[c].session /\ turn'[c] = [turn[c] EXCEPT !.pc = "answered"]
              /\ q = Message(c, "user", n, "question")
              /\ a = Message(c, "assistant", n + 1, turn[c].text)
              /\ sessions' = [sessions EXCEPT ![s].messages = sessions[s].messages \o <<q, a>>]
      BY <1>0, <1>6, <2>2, <3>1, InsertedRows
    <3>3. PICK rows \in Seq(Messages) : sessions' = [sessions EXCEPT ![s].messages = rows]
      <4>1. sessions[s].messages \in Seq(Messages)
        BY <1>0 DEF ChatTypeRest
      <4>2. sessions[s].messages \o <<q, a>> \in Seq(Messages)
        BY <4>1, ConcatProperties
      <4> QED BY <3>2, <4>2
    <3> QED BY <1>0, <1>6, <3>3 DEF InsertMessages, ChatTypeRest
  <2> QED BY <2>1, <2>2
<1>7. ASSUME NEW s \in ChatSessions, DeleteSession(s) PROVE ChatTypeRest'
  <2>1. <<>> \in Seq(Messages)
    OBVIOUS
  <2> QED BY <1>0, <1>7, <2>1 DEF DeleteSession, ChatTypeRest
<1>8. ASSUME ChatTick PROVE ChatTypeRest'
  BY <1>0, <1>8 DEF ChatTick, ChatTypeRest
<1>9. ASSUME UNCHANGED <<sessions, waiting, working, chatTime>> PROVE ChatTypeRest'
  BY <1>0, <1>9 DEF ChatTypeRest
<1>10. ASSUME NEW c \in ChatCallers, ChatStep(c) PROVE ChatTypeRest'
  BY <1>2, <1>3, <1>6, <1>9, <1>10
     DEF ChatStep, ChooseSkill, FallbackAnalysis, RunRaises, AskTools, Answer, TimeOutTool, CountMessages
<1>11. ChatTypeRest'
  BY <1>4, <1>5, <1>7, <1>8, <1>9, <1>10 DEF ChatNext, chatVars
<1> QED
  BY <1>1, <1>11 DEF ChatTypeOK, ChatTypeRest

\* The messages of a session after a step: the same, none, or two more.
LEMMA SessionSteps ==
    ASSUME ChatInvariant, [ChatNext]_chatVars
    PROVE  \/ SameMessages
           \/ \E s \in ChatSessions :
                /\ sessions'[s].messages = <<>>
                /\ \A o \in ChatSessions \ {s} : sessions'[o] = sessions[o]
           \/ \E c \in ChatCallers : InsertMessages(c) /\ sessions' # sessions
<1>0. ChatTypeOK
  BY DEF ChatInvariant
<1>1. ASSUME NEW c \in ChatCallers, NEW s \in ChatSessions, OpenSession(c, s) PROVE SameMessages
  BY <1>0, <1>1 DEF OpenSession, SameMessages, ChatTypeOK
<1>2. ASSUME NEW s \in ChatSessions, DeleteSession(s)
      PROVE  /\ sessions'[s].messages = <<>>
             /\ \A o \in ChatSessions \ {s} : sessions'[o] = sessions[o]
  BY <1>0, <1>2 DEF DeleteSession, ChatTypeOK
<1>3. ASSUME sessions' = sessions PROVE SameMessages
  BY <1>3 DEF SameMessages
<1>4. ASSUME NEW c \in ChatCallers, ChatStep(c)
      PROVE  SameMessages \/ (InsertMessages(c) /\ sessions' # sessions)
  BY <1>1, <1>3, <1>4
     DEF ChatStep, ChooseSkill, FallbackAnalysis, RunRaises, AskTools, Answer, CallTool, TimeOutTool, CountMessages
<1> QED
  BY <1>2, <1>3, <1>4 DEF ChatNext, StartTool, FinishTool, ChatTick, chatVars

LEMMA MessagesStep ==
    ASSUME ChatInvariant, [ChatNext]_chatVars
    PROVE  MessagesAreOfTurns'
<1>0. ChatTypeOK /\ ChatTypeOK' /\ MessagesAreOfTurns /\ TurnsMove
  BY ChatTypeStep, TurnsKeep DEF ChatInvariant
<1> DEFINE Rows(s) == sessions[s].messages
           Founded(T, s, rows, i) ==
              LET m == rows[i] IN
              /\ T[m.caller].pc = "answered" /\ T[m.caller].session = s
              /\ m.role = "assistant" =>
                  /\ m.text = T[m.caller].text
                  /\ \E j \in DOMAIN rows :
                        rows[j].caller = m.caller /\ rows[j].role = "user" /\ rows[j].ordinal < m.ordinal
<1>1. \A s \in ChatSessions : Rows(s) \in Seq(Messages)
  BY <1>0 DEF ChatTypeOK
<1>2. \A s \in ChatSessions : \A i \in DOMAIN Rows(s) :
          Founded(turn, s, Rows(s), i) /\ Rows(s)[i].caller \in ChatCallers
  <2>1. \A s \in ChatSessions : \A i \in DOMAIN Rows(s) : Rows(s)[i] \in Messages
    BY <1>1
  <2>2. \A s \in ChatSessions : \A i \in DOMAIN Rows(s) : Founded(turn, s, Rows(s), i)
    BY <1>0 DEF MessagesAreOfTurns
  <2> QED BY <2>1, <2>2 DEF Messages
<1>3. \A s \in ChatSessions : \A i \in DOMAIN Rows(s) : Founded(turn', s, Rows(s), i)
  BY <1>0, <1>2 DEF TurnsMove
<1>4. CASE SameMessages
  BY <1>3, <1>4 DEF SameMessages, MessagesAreOfTurns
<1>5. ASSUME NEW s \in ChatSessions, sessions'[s].messages = <<>>,
             \A o \in ChatSessions \ {s} : sessions'[o] = sessions[o]
      PROVE  MessagesAreOfTurns'
  <2>1. \A o \in ChatSessions : o # s => sessions'[o].messages = Rows(o)
    BY <1>5
  <2>2. \A i : i \notin DOMAIN sessions'[s].messages
    BY <1>5
  <2> QED BY <1>3, <2>1, <2>2 DEF MessagesAreOfTurns
<1>6. ASSUME NEW c \in ChatCallers, InsertMessages(c), sessions' # sessions
      PROVE  MessagesAreOfTurns'
  <2>1. TurnOk(turn[c])
    BY DEF ChatInvariant
  <2>2. PICK s \in ChatSessions, n \in Nat, q \in Messages, a \in Messages :
            /\ s = turn[c].session /\ turn'[c] = [turn[c] EXCEPT !.pc = "answered"]
            /\ q = Message(c, "user", n, "question")
            /\ a = Message(c, "assistant", n + 1, turn[c].text)
            /\ sessions' = [sessions EXCEPT ![s].messages = sessions[s].messages \o <<q, a>>]
    BY <1>0, <1>6, <2>1, InsertedRows
  <2>3. PICK rows \in Seq(Messages) : rows = Rows(s)
    BY <1>1
  <2>4. PICK more \in Seq(Messages) : more = rows \o <<q, a>>
    <3>1. <<q, a>> \in Seq(Messages)
      OBVIOUS
    <3>2. rows \o <<q, a>> \in Seq(Messages)
      BY <3>1, ConcatProperties
    <3> QED BY <3>2
  <2>5. PICK l \in Nat : l = Len(rows)
    OBVIOUS
  <2>6. /\ DOMAIN rows = 1..l /\ DOMAIN more = 1..(l+2)
        /\ \A i \in 1..l : more[i] = rows[i]
        /\ more[l+1] = q /\ more[l+2] = a
    BY <2>4, <2>5
  <2>7. sessions'[s].messages = more /\ \A o \in ChatSessions : o # s => sessions'[o].messages = Rows(o)
    BY <1>0, <2>2, <2>3, <2>4 DEF ChatTypeOK
  <2>8. turn'[c].pc = "answered" /\ turn'[c].session = s /\ turn'[c].text = turn[c].text
    BY <1>0, <2>2 DEF ChatTypeOK, Turns
  <2>9. q.caller = c /\ q.role = "user" /\ q.ordinal = n
    BY <2>2 DEF Message
  <2>10. a.caller = c /\ a.role = "assistant" /\ a.ordinal = n + 1 /\ a.text = turn[c].text
    BY <2>2 DEF Message
  <2>11. \A i \in DOMAIN rows : Founded(turn', s, rows, i)
    BY <1>3, <2>3
  <2>12. \A i \in 1..l : Founded(turn', s, more, i)
    BY <2>6, <2>11
  <2>13. Founded(turn', s, more, l+1)
    BY <2>6, <2>8, <2>9
  <2>14. Founded(turn', s, more, l+2)
    <3>1. l + 1 \in DOMAIN more /\ n < n + 1
      BY <2>6
    <3> QED BY <3>1, <2>6, <2>8, <2>9, <2>10
  <2>15. \A i \in DOMAIN more : i \in 1..l \/ i = l+1 \/ i = l+2
    BY <2>6
  <2>16. \A i \in DOMAIN more : Founded(turn', s, more, i)
    BY <2>12, <2>13, <2>14, <2>15
  <2>17. ASSUME NEW o \in ChatSessions, o # s
         PROVE  \A i \in DOMAIN sessions'[o].messages : Founded(turn', o, sessions'[o].messages, i)
    BY <1>3, <2>7, <2>17
  <2>18. \A o \in ChatSessions :
            \A i \in DOMAIN sessions'[o].messages : Founded(turn', o, sessions'[o].messages, i)
    BY <2>7, <2>16, <2>17
  <2> QED BY <2>18 DEF MessagesAreOfTurns
<1> QED
  BY <1>4, <1>5, <1>6, SessionSteps

\* Every turn stays well and every message stays that of a turn.
THEOREM ChatInvariance == ChatSpec => []ChatInvariant
<1>1. ChatInit => ChatInvariant
  <2> SUFFICES ASSUME ChatInit PROVE ChatInvariant
    OBVIOUS
  <2>1. turn \in [ChatCallers -> Turns] /\ \A c \in ChatCallers : turn[c] = NewTurn
    BY NewTurnIsOk DEF ChatInit
  <2>2. TurnOk(NewTurn)
    <3>1. NewTurn.pc = "idle" /\ NewTurn.text = "nothing"
      BY DEF NewTurn
    <3> QED BY <3>1, NewTurnIsOk DEF TurnOk
  <2>3. <<>> \in Seq(Messages) /\ <<>> \in Seq(ToolJobs)
    OBVIOUS
  <2>4. ChatTypeOK
    BY <2>1, <2>3 DEF ChatInit, ChatTypeOK
  <2>5. \A s \in ChatSessions : \A i : i \notin DOMAIN sessions[s].messages
    BY DEF ChatInit
  <2> QED BY <2>1, <2>2, <2>4, <2>5 DEF ChatInvariant, MessagesAreOfTurns
<1>2. ChatInvariant /\ [ChatNext]_chatVars => ChatInvariant'
  <2> SUFFICES ASSUME ChatInvariant, [ChatNext]_chatVars PROVE ChatInvariant'
    OBVIOUS
  <2>1. TurnsMove
    BY TurnsKeep
  <2>2. \A c \in ChatCallers : TurnOk(turn'[c])
    BY <2>1 DEF TurnsMove
  <2> QED BY <2>2, ChatTypeStep, MessagesStep DEF ChatInvariant
<1> QED
  BY <1>1, <1>2, PTL DEF ChatSpec

THEOREM StoredReportsEarned == ChatSpec => []StoredReportsAreEarned
<1>1. ChatInvariant => StoredReportsAreEarned
  <2> SUFFICES ASSUME ChatInvariant PROVE StoredReportsAreEarned
    OBVIOUS
  <2>1. \A s \in ChatSessions : \A i \in DOMAIN sessions[s].messages : sessions[s].messages[i].caller \in ChatCallers
    <3>1. \A s \in ChatSessions : sessions[s].messages \in Seq(Messages)
      BY DEF ChatInvariant, ChatTypeOK
    <3>2. \A s \in ChatSessions : \A i \in DOMAIN sessions[s].messages : sessions[s].messages[i] \in Messages
      BY <3>1
    <3> QED BY <3>2 DEF Messages
  <2>2. \A c \in ChatCallers : turn[c].text = "report" => Earned(turn[c])
    BY DEF ChatInvariant, TurnOk
  <2>3. MessagesAreOfTurns
    BY DEF ChatInvariant
  <2> QED BY <2>1, <2>2, <2>3 DEF StoredReportsAreEarned, MessagesAreOfTurns
<1> QED
  BY <1>1, ChatInvariance, PTL

----------------------------------------------------------------------------
(* Formal readiness service.                                               *)

\* Labels of a call in flight.
Busy == {"probe", "store", "test", "look"}

\* What a call that began at the instant at may know of n.
Evidence(n, s, at) ==
    s.reachable => /\ n \in setup.probes
                   /\ s.heard >= at - Ttl
                   /\ at - s.born <= s.age

\* A response as it came in: received since the instant at, its age as said.
Received(s, at) == s.heard >= at /\ s.heard - s.born <= s.age

\* Every entry of the cache is a response as it came in.
CacheOK ==
    \A n \in Components : cache[n] # NoEntry => Received(cache[n].status, cache[n].at)

\* What a call knows at each label.
CallOK(c) ==
    /\ checking[c].at <= now
    /\ checking[c].pc \in Busy => checking[c].next <= Len(Names)
    /\ \A n \in Components : Evidence(n, checking[c].known[n], checking[c].at)
    /\ checking[c].pc \in {"store", "test", "look"} =>
           Evidence(Asked(c), checking[c].got, checking[c].at)
    /\ checking[c].pc = "store" => Received(checking[c].got, checking[c].at)

\* The inductive invariant of the service.
ReadinessInvariant == ReadinessTypeOK /\ CacheOK /\ \A c \in Checkers : CallOK(c)

-----------------------------------------------------------------------------
\* A name in the order of check() is a component.
LEMMA NamesAreComponents ==
    ASSUME NEW i \in 1 .. Len(Names)
    PROVE  Names[i] \in Components
BY ReadinessAssumption DEF Components

\* There is at least one component.
LEMMA LenNames == Len(Names) \in Nat /\ Len(Names) >= 1
BY ReadinessAssumption

\* The component at hand is one of the components while a call is busy.
LEMMA AskedIsComponent ==
    ASSUME ReadinessTypeOK, NEW c \in Checkers, CallOK(c), checking[c].pc \in Busy
    PROVE  /\ checking[c].next \in 1 .. Len(Names)
           /\ Asked(c) \in Components
<1>1. checking[c].next \in 1 .. Len(Names)
  BY LenNames DEF ReadinessTypeOK, Calls, CallOK
<1> QED BY <1>1, NamesAreComponents DEF Asked

\* The status of a missing or failed probe.
LEMMA UnreachableIsStatus == Unreachable \in Status /\ ~Unreachable.reachable
BY DEF Unreachable, Status

\* A call before it begins.
LEMMA IdleIsCall == Idle \in Calls
BY UnreachableIsStatus, LenNames DEF Idle, Calls

\* The record of a call that begins, field by field.
LEMMA CallBegun ==
    ASSUME NEW pc \in {"answered", "probe"}, NEW t \in Nat
    PROVE  LET q == [Idle EXCEPT !.at = t, !.pc = pc] IN
           /\ q \in Calls
           /\ q.pc = pc /\ q.at = t /\ q.next = 1
           /\ q.known = [n \in Components |-> Unreachable]
<1>1. Idle.next = 1 /\ Idle.known = [n \in Components |-> Unreachable]
  BY DEF Idle
<1> QED BY <1>1, IdleIsCall DEF Calls

\* Only c's own record changes.
LEMMA OneCall ==
    ASSUME ReadinessInvariant, NEW c \in Checkers, NEW r \in Calls,
           checking' = [checking EXCEPT ![c] = r],
           UNCHANGED <<setup, now>>,
           cache' \in [Components -> Entry \cup {NoEntry}], CacheOK',
           r.at <= now,
           r.pc \in Busy => r.next <= Len(Names),
           \A n \in Components : Evidence(n, r.known[n], r.at),
           r.pc \in {"store", "test", "look"} => Evidence(Names[r.next], r.got, r.at),
           r.pc = "store" => Received(r.got, r.at)
    PROVE  ReadinessInvariant'
<1>1. ReadinessTypeOK'
  BY DEF ReadinessInvariant, ReadinessTypeOK
<1>2. ASSUME NEW d \in Checkers
      PROVE  CallOK(d)'
  <2>1. CASE d = c
    <3>1. checking'[d] = r
      BY <2>1 DEF ReadinessInvariant, ReadinessTypeOK
    <3> QED BY <3>1, <2>1 DEF CallOK, Evidence, Received, Asked
  <2>2. CASE d # c
    <3>1. checking'[d] = checking[d]
      BY <2>2 DEF ReadinessInvariant, ReadinessTypeOK
    <3>2. CallOK(d)
      BY DEF ReadinessInvariant
    <3> QED BY <3>1, <3>2 DEF CallOK, Evidence, Received, Asked
  <2> QED BY <2>1, <2>2
<1> QED BY <1>1, <1>2 DEF ReadinessInvariant

\* A call that settles the component at hand with evidence goes on in order.
LEMMA SettleKeeps ==
    ASSUME ReadinessInvariant, NEW c \in Checkers, NEW s \in Status,
           checking[c].pc \in Busy, Settle(c, s),
           Evidence(Asked(c), s, checking[c].at),
           UNCHANGED <<setup, now>>,
           cache' \in [Components -> Entry \cup {NoEntry}], CacheOK'
    PROVE  ReadinessInvariant'
<1> DEFINE mine == checking[c]
           r == [mine EXCEPT !.known[Asked(c)] = s, !.got = Unreachable,
                             !.next = @ + 1,
                             !.pc = IF mine.next = Len(Names) THEN "answered" ELSE "probe"]
<1>1. mine \in Calls /\ CallOK(c)
  BY DEF ReadinessInvariant, ReadinessTypeOK
<1>2. mine.next \in 1 .. Len(Names) /\ Asked(c) \in Components
  BY <1>1, AskedIsComponent DEF ReadinessInvariant
<1>3. /\ r \in Calls
      /\ r.at = mine.at
      /\ r.pc \in {"answered", "probe"}
      /\ r.pc = "probe" => r.next <= Len(Names)
      /\ r.known = [mine.known EXCEPT ![Asked(c)] = s]
  <2> DEFINE known == [mine.known EXCEPT ![Asked(c)] = s]
             pc == IF mine.next = Len(Names) THEN "answered" ELSE "probe"
  <2>1. known \in [Components -> Status]
    BY <1>1, <1>2 DEF Calls
  <2>2. mine.next + 1 \in 1 .. Len(Names) + 1 /\ mine.at \in Nat
    BY <1>1, <1>2, LenNames DEF Calls
  <2>3. /\ pc \in {"answered", "probe"}
        /\ pc = "probe" => mine.next + 1 <= Len(Names)
    BY <1>2, LenNames
  <2>4. r = [mine EXCEPT !.known = known, !.got = Unreachable, !.next = @ + 1, !.pc = pc]
    BY <1>1 DEF Calls
  <2> HIDE DEF known, pc, r
  <2>5. r \in Calls
    BY <1>1, <2>1, <2>2, <2>3, <2>4, UnreachableIsStatus DEF Calls
  <2>6. r.known = known /\ r.at = mine.at /\ r.pc = pc /\ r.next = mine.next + 1
    BY <1>1, <2>4 DEF Calls
  <2> QED BY <2>3, <2>5, <2>6 DEF known
<1>4. \A n \in Components : Evidence(n, r.known[n], r.at)
  BY <1>1, <1>2, <1>3 DEF Calls, CallOK, Evidence
<1>5. checking' = [checking EXCEPT ![c] = r]
  BY DEF Settle
<1>6. r.at <= now
  BY <1>1, <1>3 DEF CallOK
<1>7. /\ r.pc \in Busy => r.next <= Len(Names)
      /\ ~(r.pc \in {"store", "test", "look"})
      /\ r.pc # "store"
  BY <1>3 DEF Busy
<1> HIDE DEF r
<1> QED BY <1>3, <1>4, <1>5, <1>6, <1>7, OneCall

-----------------------------------------------------------------------------
\* A new service knows nothing.
LEMMA InitKeeps == ReadinessInit => ReadinessInvariant
<1> SUFFICES ASSUME ReadinessInit PROVE ReadinessInvariant
  OBVIOUS
<1>1. ReadinessTypeOK
  BY IdleIsCall, ReadinessAssumption DEF ReadinessInit, ReadinessTypeOK
<1>2. CacheOK
  BY DEF ReadinessInit, CacheOK
<1>3. ASSUME NEW c \in Checkers PROVE CallOK(c)
  <2>1. checking[c] = Idle /\ now = 0
    BY DEF ReadinessInit
  <2> QED BY <2>1 DEF CallOK, Idle, Unreachable, Evidence, Busy
<1> QED BY <1>1, <1>2, <1>3 DEF ReadinessInvariant

\* Time passes: nothing a call knows is about the present instant.
LEMMA ClockKeeps == ReadinessInvariant /\ Clock => ReadinessInvariant'
<1> SUFFICES ASSUME ReadinessInvariant, Clock PROVE ReadinessInvariant'
  OBVIOUS
<1>1. ReadinessTypeOK'
  BY ReadinessAssumption DEF ReadinessInvariant, ReadinessTypeOK, Clock
<1>2. CacheOK'
  BY DEF ReadinessInvariant, CacheOK, Clock, Received
<1>3. ASSUME NEW c \in Checkers PROVE CallOK(c)'
  <2>1. CallOK(c) /\ checking[c].at \in Nat /\ now \in Nat
    BY DEF ReadinessInvariant, ReadinessTypeOK, Calls
  <2> QED BY <2>1 DEF CallOK, Clock, Evidence, Received, Asked
<1> QED BY <1>1, <1>2, <1>3 DEF ReadinessInvariant

\* A step that leaves the cache alone keeps what is known of it.
LEMMA SameCache ==
    ASSUME ReadinessInvariant, UNCHANGED cache
    PROVE  cache' \in [Components -> Entry \cup {NoEntry}] /\ CacheOK'
BY DEF ReadinessInvariant, ReadinessTypeOK, CacheOK, Received

\* A cached response is evidence for a call that finds it within its time to live:
\* it was received after the call that stored it began.
LEMMA CachedIsEvidence ==
    ASSUME ReadinessInvariant, NEW c \in Checkers, checking[c].pc = "probe",
           Asked(c) \in setup.probes
    PROVE  /\ CachedOrFailed(c) \in Status
           /\ Evidence(Asked(c), CachedOrFailed(c), checking[c].at)
<1> DEFINE entry == cache[Asked(c)]
           at    == checking[c].at
<1>1. Asked(c) \in Components /\ at \in Nat
  BY AskedIsComponent DEF ReadinessInvariant, ReadinessTypeOK, Calls, Busy
<1>2. CASE entry = NoEntry
  BY <1>2, UnreachableIsStatus DEF CachedOrFailed, Evidence
<1>3. CASE entry # NoEntry
  <2> DEFINE s == entry.status
             b == InTtl(at - entry.at)
             d == at - entry.at
             t == [s EXCEPT !.reachable = b, !.age = @ + d]
  <2>1. entry \in Entry /\ Received(entry.status, entry.at)
    BY <1>1, <1>3 DEF ReadinessInvariant, ReadinessTypeOK, CacheOK
  <2>2. /\ s \in Status /\ entry.at \in Nat
        /\ s.heard \in Nat /\ s.born \in Int /\ s.age \in Int
    BY <2>1 DEF Entry, Status
  <2>3. CachedOrFailed(c) = t
    BY <1>3 DEF CachedOrFailed
  <2>4. s.heard >= entry.at /\ s.heard - s.born <= s.age
    BY <2>1 DEF Received
  <2>5. b \in BOOLEAN /\ d \in Int
    BY <1>1, <2>2 DEF InTtl
  <2>6. b => s.heard >= at - Ttl /\ at - s.born <= s.age + d
    <3> HIDE DEF s, at, entry
    <3> QED BY <1>1, <2>2, <2>4, ReadinessAssumption DEF InTtl
  <2> HIDE DEF b, d, s, at, entry
  <2>7. /\ t \in Status
        /\ t.reachable = b /\ t.age = s.age + d /\ t.heard = s.heard /\ t.born = s.born
    <3> DEFINE a == s.age + d
    <3>1. a \in Int
      BY <2>2, <2>5
    <3>2. t = [s EXCEPT !.reachable = b, !.age = a]
      OBVIOUS
    <3> HIDE DEF a, t
    <3>3. t \in Status
      BY <2>2, <2>5, <3>1, <3>2 DEF Status
    <3>4. t.reachable = b /\ t.age = a /\ t.heard = s.heard /\ t.born = s.born
      BY <2>2, <3>2 DEF Status
    <3> QED BY <3>3, <3>4 DEF a
  <2> HIDE DEF t
  <2>8. Evidence(Asked(c), t, at)
    BY <2>6, <2>7 DEF Evidence
  <2> QED BY <2>3, <2>7, <2>8 DEF at
<1> QED BY <1>2, <1>3

\* check() is entered with nothing known.
LEMMA StartKeeps ==
    ASSUME ReadinessInvariant, NEW c \in Checkers, StartCheck(c)
    PROVE  ReadinessInvariant'
<1> DEFINE pc == IF setup.fixture THEN "answered" ELSE "probe"
           r == [Idle EXCEPT !.at = now, !.pc = pc]
<1>1. pc \in {"answered", "probe"} /\ now \in Nat
  BY DEF ReadinessInvariant, ReadinessTypeOK
<1>2. checking' = [checking EXCEPT ![c] = r] /\ UNCHANGED <<setup, now, cache>>
  BY DEF StartCheck
<1>3. /\ r \in Calls
      /\ r.pc = pc /\ r.at = now /\ r.next = 1
      /\ r.known = [n \in Components |-> Unreachable]
  <2> HIDE DEF pc
  <2> QED BY <1>1, CallBegun
<1> HIDE DEF pc, r
<1>4. \A n \in Components : Evidence(n, r.known[n], r.at)
  BY <1>3, UnreachableIsStatus DEF Evidence
<1>5. /\ r.at <= now /\ r.next <= Len(Names)
      /\ ~(r.pc \in {"store", "test", "look"}) /\ r.pc # "store"
  BY <1>1, <1>3, LenNames
<1> QED BY <1>2, <1>3, <1>4, <1>5, SameCache, OneCall

\* The call moves on with the component at hand.
LEMMA StayKeeps ==
    ASSUME ReadinessInvariant, NEW c \in Checkers, NEW s \in Status,
           NEW pc \in {"store", "test", "look"}, checking[c].pc \in Busy,
           checking' = [checking EXCEPT ![c] = [checking[c] EXCEPT !.pc = pc, !.got = s]],
           UNCHANGED <<setup, now, cache>>,
           Evidence(Asked(c), s, checking[c].at),
           pc = "store" => Received(s, checking[c].at)
    PROVE  ReadinessInvariant'
<1> DEFINE mine == checking[c]
           r == [mine EXCEPT !.pc = pc, !.got = s]
<1>1. mine \in Calls /\ CallOK(c)
  BY DEF ReadinessInvariant, ReadinessTypeOK
<1>2. /\ r \in Calls
      /\ r.pc = pc /\ r.at = mine.at /\ r.next = mine.next /\ r.got = s
      /\ r.known = mine.known
  <2> HIDE DEF mine
  <2> QED BY <1>1 DEF Calls
<1>3. mine.next <= Len(Names)
  BY <1>1, AskedIsComponent, LenNames DEF ReadinessInvariant
<1>4. checking' = [checking EXCEPT ![c] = r]
  OBVIOUS
<1> HIDE DEF r
<1>5. /\ r.at <= now /\ r.next <= Len(Names)
      /\ \A n \in Components : Evidence(n, r.known[n], r.at)
  BY <1>1, <1>2, <1>3 DEF CallOK
<1>6. Evidence(Names[r.next], r.got, r.at) /\ (r.pc = "store" => Received(r.got, r.at))
  BY <1>2 DEF Asked
<1> QED BY <1>2, <1>4, <1>5, <1>6, SameCache, OneCall

\* A fresh response is evidence: it is received after the call began.
LEMMA AnswersKeeps ==
    ASSUME ReadinessInvariant, NEW c \in Checkers, ProbeAnswers(c)
    PROVE  ReadinessInvariant'
<1>1. PICK g \in BOOLEAN, a \in Ages :
          checking' = [checking EXCEPT ![c].pc = "store",
              ![c].got = [reachable |-> TRUE, gates |-> g, age |-> a,
                          heard |-> now, born |-> now - a]]
  BY DEF ProbeAnswers
<1> DEFINE s == [reachable |-> TRUE, gates |-> g, age |-> a, heard |-> now, born |-> now - a]
<1>2. a \in Nat /\ now \in Nat /\ checking[c].at \in Nat /\ checking[c].at <= now
  BY ReadinessAssumption DEF ReadinessInvariant, ReadinessTypeOK, Calls, CallOK
<1>3. s \in Status
  BY <1>2 DEF Status
<1>4. Received(s, checking[c].at)
  BY <1>2 DEF Received
<1>5. Evidence(Asked(c), s, checking[c].at)
  BY <1>2, ReadinessAssumption DEF Evidence, ProbeAnswers
<1>6. /\ checking' = [checking EXCEPT ![c] = [checking[c] EXCEPT !.pc = "store", !.got = s]]
      /\ checking[c].pc \in Busy /\ UNCHANGED <<setup, now, cache>>
  BY <1>1 DEF ProbeAnswers, Busy, ReadinessInvariant, ReadinessTypeOK
<1> HIDE DEF s
<1> QED BY <1>3, <1>4, <1>5, <1>6, StayKeeps

\* A response is stored under the start of the call that received it.
LEMMA StoreKeeps ==
    ASSUME ReadinessInvariant, NEW c \in Checkers, Store(c)
    PROVE  ReadinessInvariant'
<1> DEFINE s == checking[c].got
           e == Remembered(c, s)
<1>1. /\ checking[c].pc = "store" /\ checking[c].pc \in Busy
      /\ s \in Status /\ checking[c].at \in Nat
  BY DEF Store, Busy, ReadinessInvariant, ReadinessTypeOK, Calls
<1>2. Received(s, checking[c].at) /\ Evidence(Asked(c), s, checking[c].at)
  BY <1>1 DEF ReadinessInvariant, CallOK
<1>3. Asked(c) \in Components
  BY <1>1, AskedIsComponent DEF ReadinessInvariant
<1>4. e \in Entry \cup {NoEntry} /\ (e # NoEntry => Received(e.status, e.at))
  BY <1>1, <1>2 DEF Remembered, Entry
<1>5. /\ cache' = [cache EXCEPT ![Asked(c)] = e]
      /\ Settle(c, s) /\ UNCHANGED <<setup, now>>
  BY DEF Store
<1> HIDE DEF e, s
<1>6. cache' \in [Components -> Entry \cup {NoEntry}]
  BY <1>3, <1>4, <1>5 DEF ReadinessInvariant, ReadinessTypeOK
<1>7. CacheOK'
  BY <1>3, <1>4, <1>5 DEF ReadinessInvariant, ReadinessTypeOK, CacheOK, Received
<1> QED BY <1>1, <1>2, <1>5, <1>6, <1>7, SettleKeeps

\* A raising probe falls back to the entry, or to a failed status.
LEMMA RaisesKeeps ==
    ASSUME ReadinessInvariant, NEW c \in Checkers, ProbeRaises(c)
    PROVE  ReadinessInvariant'
<1> DEFINE s == CachedOrFailed(c)
<1>1. /\ checking[c].pc = "probe" /\ checking[c].pc \in Busy
      /\ UNCHANGED <<setup, now, cache>>
  BY DEF ProbeRaises, Busy
<1>2. s \in Status /\ Evidence(Asked(c), s, checking[c].at)
  BY <1>1, CachedIsEvidence DEF ProbeRaises
<1>3. CASE s.reachable
  <2>1. checking' = [checking EXCEPT ![c] = [checking[c] EXCEPT !.pc = "test", !.got = s]]
    BY <1>3 DEF ProbeRaises, ReadinessInvariant, ReadinessTypeOK
  <2> HIDE DEF s
  <2> QED BY <1>1, <1>2, <2>1, StayKeeps
<1>4. CASE ~s.reachable
  <2>1. Settle(c, s)
    BY <1>4 DEF ProbeRaises
  <2> HIDE DEF s
  <2> QED BY <1>1, <1>2, <2>1, SameCache, SettleKeeps
<1> QED BY <1>3, <1>4

\* What a call holds while it annotates a cached status.
LEMMA HeldIsEvidence ==
    ASSUME ReadinessInvariant, NEW c \in Checkers, checking[c].pc \in {"test", "look"}
    PROVE  /\ checking[c].pc \in Busy /\ checking[c].got \in Status
           /\ Evidence(Asked(c), checking[c].got, checking[c].at)
BY DEF Busy, ReadinessInvariant, ReadinessTypeOK, Calls, CallOK

\* The unlocked test of the cache does not change what the call holds.
LEMMA TestKeeps ==
    ASSUME ReadinessInvariant, NEW c \in Checkers, TestEntry(c)
    PROVE  ReadinessInvariant'
<1>1. checking[c].pc \in {"test", "look"} /\ UNCHANGED <<setup, now, cache>>
  BY DEF TestEntry
<1>2. CASE cache[Asked(c)] = NoEntry
  <2>1. Settle(c, checking[c].got)
    BY <1>2 DEF TestEntry
  <2> QED BY <1>1, <2>1, HeldIsEvidence, SameCache, SettleKeeps
<1>3. CASE cache[Asked(c)] # NoEntry
  <2> DEFINE mine == checking[c]
             r == [mine EXCEPT !.pc = "look"]
  <2>1. checking' = [checking EXCEPT ![c] = r]
    BY <1>3 DEF TestEntry, ReadinessInvariant, ReadinessTypeOK
  <2>2. mine \in Calls /\ CallOK(c)
    BY DEF ReadinessInvariant, ReadinessTypeOK
  <2>3. /\ r \in Calls
        /\ r.pc = "look" /\ r.at = mine.at /\ r.next = mine.next /\ r.got = mine.got
        /\ r.known = mine.known
    <3> HIDE DEF mine
    <3> QED BY <2>2 DEF Calls
  <2> HIDE DEF r
  <2>4. /\ r.at <= now /\ r.next <= Len(Names)
        /\ \A n \in Components : Evidence(n, r.known[n], r.at)
    BY <1>1, <2>2, <2>3 DEF CallOK, Busy
  <2>5. Evidence(Names[r.next], r.got, r.at) /\ r.pc # "store"
    BY <1>1, <2>3, HeldIsEvidence DEF Asked
  <2> QED BY <1>1, <2>1, <2>3, <2>4, <2>5, SameCache, OneCall
<1> QED BY <1>2, <1>3

\* A call that raises keeps what it knew, and answers nothing.
LEMMA GoneKeeps ==
    ASSUME ReadinessInvariant, NEW c \in Checkers, EntryGone(c)
    PROVE  ReadinessInvariant'
<1> DEFINE mine == checking[c]
           r == [mine EXCEPT !.pc = "raised"]
<1>1. checking' = [checking EXCEPT ![c] = r] /\ UNCHANGED <<setup, now, cache>>
  BY DEF EntryGone, ReadinessInvariant, ReadinessTypeOK
<1>2. mine \in Calls /\ CallOK(c)
  BY DEF ReadinessInvariant, ReadinessTypeOK
<1>3. r \in Calls /\ r.pc = "raised" /\ r.at = mine.at /\ r.known = mine.known
  <2> HIDE DEF mine
  <2> QED BY <1>2 DEF Calls
<1> HIDE DEF r
<1>4. r.at <= now /\ \A n \in Components : Evidence(n, r.known[n], r.at)
  BY <1>2, <1>3 DEF CallOK
<1>5. ~(r.pc \in Busy) /\ ~(r.pc \in {"store", "test", "look"}) /\ r.pc # "store"
  BY <1>3 DEF Busy
<1> QED BY <1>1, <1>3, <1>4, <1>5, SameCache, OneCall

-----------------------------------------------------------------------------
\* One case per action.
LEMMA NextKeeps == ReadinessInvariant /\ [ReadinessNext]_readinessVars => ReadinessInvariant'
<1> SUFFICES ASSUME ReadinessInvariant, [ReadinessNext]_readinessVars
             PROVE  ReadinessInvariant'
  OBVIOUS
<1>1. CASE Clock
  BY <1>1, ClockKeeps
<1>2. ASSUME NEW c \in Checkers, ReadinessStep(c) PROVE ReadinessInvariant'
  <2>1. CASE StartCheck(c)
    BY <2>1, StartKeeps
  <2>2. CASE ProbeMissing(c) \/ ProbeDown(c)
    <3>1. /\ checking[c].pc \in Busy /\ Settle(c, Unreachable)
          /\ UNCHANGED <<setup, now, cache>>
      BY <2>2 DEF ProbeMissing, ProbeDown, Busy
    <3>2. Evidence(Asked(c), Unreachable, checking[c].at)
      BY UnreachableIsStatus DEF Evidence
    <3> QED BY <3>1, <3>2, UnreachableIsStatus, SameCache, SettleKeeps
  <2>3. CASE ProbeAnswers(c)
    BY <2>3, AnswersKeeps
  <2>4. CASE Store(c)
    BY <2>4, StoreKeeps
  <2>5. CASE ProbeRaises(c)
    BY <2>5, RaisesKeeps
  <2>6. CASE TestEntry(c)
    BY <2>6, TestKeeps
  <2>7. CASE LookEntry(c)
    <3>1. /\ checking[c].pc \in {"test", "look"} /\ Settle(c, checking[c].got)
          /\ UNCHANGED <<setup, now, cache>>
      BY <2>7 DEF LookEntry
    <3> QED BY <3>1, HeldIsEvidence, SameCache, SettleKeeps
  <2>8. CASE EntryGone(c)
    BY <2>8, GoneKeeps
  <2> QED BY <1>2, <2>1, <2>2, <2>3, <2>4, <2>5, <2>6, <2>7, <2>8 DEF ReadinessStep
<1>3. CASE UNCHANGED readinessVars
  BY <1>3 DEF readinessVars, ReadinessInvariant, ReadinessTypeOK, CacheOK, CallOK,
              Evidence, Received, Asked
<1> QED BY <1>1, <1>2, <1>3 DEF ReadinessNext

\* The inductive invariant of check(): entries were received after their stamp, and
\* whatever a call holds of a component is evidence for the call's own instant.
THEOREM ReadinessInvariance == ReadinessSpec => []ReadinessInvariant
<1>1. ReadinessInit => ReadinessInvariant
  BY InitKeeps
<1>2. ReadinessInvariant /\ [ReadinessNext]_readinessVars => ReadinessInvariant'
  BY NextKeeps
<1> QED BY <1>1, <1>2, PTL DEF ReadinessSpec

\* The cache and every call keep their types (FormalReadinessService.check).
THEOREM ReadinessTypeCorrect == ReadinessSpec => []ReadinessTypeOK
<1>1. ReadinessInvariant => ReadinessTypeOK
  BY DEF ReadinessInvariant
<1> QED BY <1>1, ReadinessInvariance, PTL

\* A ready answer of FormalReadinessService.check rests, for every component, on a
\* response that passed the gates, was received at most ttl_seconds before the
\* call began, and whose snapshot was fresh at that instant, although responses
\* are stored and removed by other threads meanwhile.
THEOREM ReadyHasEvidence == ReadinessSpec => []ReadyIsEvidenced
<1>1. ReadinessInvariant => ReadyIsEvidenced
  <2> SUFFICES ASSUME ReadinessInvariant, NEW c \in Checkers, Ready(c), ~setup.fixture,
                      NEW n \in Components
               PROVE  LET s == checking[c].known[n] IN
                      /\ n \in setup.probes /\ s.gates
                      /\ s.heard >= checking[c].at - Ttl
                      /\ checking[c].at - s.born <= MaxAge
    BY DEF ReadyIsEvidenced
  <2> DEFINE s == checking[c].known[n]
  <2>1. s.reachable /\ s.gates /\ s.age <= MaxAge
    BY DEF Ready, Valid
  <2>2. Evidence(n, s, checking[c].at)
    BY DEF ReadinessInvariant, CallOK
  <2>3. s \in Status /\ checking[c].at \in Nat
    BY DEF ReadinessInvariant, ReadinessTypeOK, Calls
  <2>4. s.born \in Int /\ s.age \in Int
    BY <2>3 DEF Status
  <2> HIDE DEF s
  <2>5. /\ n \in setup.probes /\ s.heard >= checking[c].at - Ttl
        /\ checking[c].at - s.born <= MaxAge
    BY <2>1, <2>2, <2>3, <2>4, ReadinessAssumption DEF Evidence
  <2> QED BY <2>1, <2>5 DEF s
<1> QED BY <1>1, ReadinessInvariance, PTL

=============================================================================
