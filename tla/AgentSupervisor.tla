-------------------------- MODULE AgentSupervisor --------------------------
(***************************************************************************)
(* Supervisor.run(): a graph of specialist tasks run layer by layer on a   *)
(* thread pool, under a budget the tasks share.                            *)
(*                                                                         *)
(* The main thread reserves a task's budget, submits it, and collects the  *)
(* futures of a layer as they complete.  The specialists run meanwhile.    *)
(* An amount is a function from resources (tool calls, tokens) to numbers. *)
(***************************************************************************)
EXTENDS Totals

CONSTANTS
    Tasks,
    DependsOn,     \* the dependencies of each task
    Resources,
    Limit,         \* max_total_tool_calls, max_total_llm_tokens
    Reservation,   \* tool_budget and token_budget of each task
    Usages,        \* what an artifact can say it used
    MaxParallel,   \* max_parallel_agents
    MaxWriteErrors \* bound on failed repository writes

ASSUME SupervisorAssumption ==
    /\ IsFiniteSet(Tasks) /\ DependsOn \in [Tasks -> SUBSET Tasks]
    /\ \E rank \in [Tasks -> 1 .. Cardinality(Tasks)] :  \* add_task refuses a cycle
           \A t \in Tasks : \A d \in DependsOn[t] : rank[d] < rank[t]
    /\ Limit \in [Resources -> Nat] /\ Reservation \in [Tasks -> [Resources -> Nat]]
    /\ Usages \subseteq [Resources -> Nat]
    /\ MaxParallel \in Nat \ {0} /\ MaxWriteErrors \in Nat

VARIABLES
    main,      \* where run() is, and the tasks of the layer not yet submitted
    task,      \* the future of each task, and what its artifact used
    used,      \* _tool_used and _token_used
    recorded,  \* tasks with an artifact in the shared context
    errors,    \* tasks with an entry in errors
    subtasks,  \* tasks with a subtask row
    agentRun,  \* status of the agent_run row
    slips,     \* tasks whose reservation was given back twice (history)
    writeErrors

supervisorVars ==
    <<main, task, used, recorded, errors, subtasks, agentRun, slips, writeErrors>>

Plus(a, b)  == [r \in Resources |-> a[r] + b[r]]
Minus(a, b) == [r \in Resources |-> a[r] - b[r]]
Fits(a)     == \A r \in Resources : a[r] <= Limit[r]
NoUsage     == [r \in Resources |-> 0]

NotSubmitted == [future |-> "none", usage |-> NoUsage]

\* Mutant: a task whose reservation was refused never lets its dependants go on.
Earlier_CollectedOnly == {t \in Tasks : task[t].future = "collected"}

\* topological_layers: the next layer holds what depends on earlier layers only.
Earlier == {t \in Tasks : task[t].future \in {"collected", "refused"}}

Layer(done) == {t \in Tasks \ done : DependsOn[t] \subseteq done}

SupervisorInit ==
    /\ main = [pc |-> "submit", todo |-> Layer({})]
    /\ task = [t \in Tasks |-> NotSubmitted]
    /\ used = NoUsage
    /\ recorded = {} /\ errors = {} /\ subtasks = {} /\ slips = {}
    /\ agentRun = "RUNNING"
    /\ writeErrors = 0

InFlight == {t \in Tasks : task[t].future \in {"queued", "running", "returned", "raised"}}

\* The layer's next task: ids are random, so their order is any order.
Reserve(t) ==
    /\ main.pc = "submit" /\ t \in main.todo
    /\ main' = [main EXCEPT !.todo = @ \ {t}]
    /\ IF Fits(Plus(used, Reservation[t]))
       THEN /\ used' = Plus(used, Reservation[t])
            /\ task' = [task EXCEPT ![t].future = "queued"]
            /\ UNCHANGED errors
       ELSE /\ task' = [task EXCEPT ![t].future = "refused"]
            /\ errors' = errors \cup {t}
            /\ UNCHANGED used
    /\ UNCHANGED <<recorded, subtasks, agentRun, slips, writeErrors>>

\* A pool thread takes the task up.
RunOne(t) ==
    /\ task[t].future = "queued"
    /\ Cardinality({s \in Tasks : task[s].future = "running"}) < MaxParallel
    /\ task' = [task EXCEPT ![t].future = "running"]
    /\ UNCHANGED <<main, used, recorded, errors, subtasks, agentRun, slips, writeErrors>>

SpecialistReturns(t) ==
    /\ task[t].future = "running"
    /\ \E u \in Usages : task' = [task EXCEPT ![t] = [future |-> "returned", usage |-> u]]
    /\ UNCHANGED <<main, used, recorded, errors, subtasks, agentRun, slips, writeErrors>>

\* The specialist raises, is not registered, or answers for another task.
SpecialistRaises(t) ==
    /\ task[t].future = "running"
    /\ task' = [task EXCEPT ![t].future = "raised"]
    /\ UNCHANGED <<main, used, recorded, errors, subtasks, agentRun, slips, writeErrors>>

\* release_budget never goes below zero.
Released(amount, t) ==
    [r \in Resources |-> LET left == amount[r] - Reservation[t][r]
                         IN  IF left < 0 THEN 0 ELSE left]

\* commit_budget: give the reservation back, then record the artifact, which
\* raises when its real usage does not fit.
Committed(t) == Plus(Minus(used, Reservation[t]), task[t].usage)
CommitFits(t) == Fits(Committed(t))

\* A repository write ends well, or raises.
Writes(outcome) ==
    /\ outcome \in {"written", "error"}
    /\ writeErrors' = writeErrors + (IF outcome = "error" THEN 1 ELSE 0)
    /\ writeErrors' <= MaxWriteErrors

Collected(t) == task' = [task EXCEPT ![t].future = "collected"]

\* The main thread goes on with the layer, or leaves run() when the write of a
\* failed subtask raises as well.
Continue(outcome) ==
    main' = IF outcome = "error" THEN [main EXCEPT !.pc = "raised"] ELSE main

CanCollect(t, how) ==
    /\ main.pc = "submit" /\ main.todo = {} /\ task[t].future = how

CollectArtifact(t) ==
    /\ CanCollect(t, "returned") /\ CommitFits(t)
    /\ Writes("written")
    /\ used' = Committed(t)
    /\ recorded' = recorded \cup {t} /\ subtasks' = subtasks \cup {t}
    /\ Collected(t)
    /\ UNCHANGED <<main, errors, agentRun, slips>>

\* The artifact is recorded but its row is not written: the handler releases
\* the reservation a second time and reports the task as failed.
CollectUnwritten(t) ==
    /\ CanCollect(t, "returned") /\ CommitFits(t)
    /\ writeErrors < MaxWriteErrors
    /\ used' = Released(Committed(t), t)
    /\ recorded' = recorded \cup {t} /\ errors' = errors \cup {t}
    /\ slips' = slips \cup {t}
    /\ Collected(t)
    /\ \/ /\ writeErrors' = writeErrors + 1
          /\ subtasks' = subtasks \cup {t} /\ UNCHANGED main
       \/ /\ writeErrors' = writeErrors + 2 /\ writeErrors' <= MaxWriteErrors
          /\ main' = [main EXCEPT !.pc = "raised"] /\ UNCHANGED subtasks
    /\ UNCHANGED agentRun

\* The artifact used more than is left: commit_budget has given the
\* reservation back, and the handler gives it back again.
CollectOverBudget(t) ==
    /\ CanCollect(t, "returned") /\ ~CommitFits(t)
    /\ used' = Released(Minus(used, Reservation[t]), t)
    /\ errors' = errors \cup {t} /\ slips' = slips \cup {t}
    /\ Collected(t)
    /\ \E o \in {"written", "error"} :
        /\ Writes(o) /\ Continue(o)
        /\ subtasks' = IF o = "written" THEN subtasks \cup {t} ELSE subtasks
    /\ UNCHANGED <<recorded, agentRun>>

\* Mutant: the reservation of a failed specialist is kept.
Release_Forgotten(t) == used

\* The specialist raised: its reservation is given back.
Release(t) == Released(used, t)

CollectFailure(t) ==
    /\ CanCollect(t, "raised")
    /\ used' = Release(t)
    /\ errors' = errors \cup {t}
    /\ Collected(t)
    /\ \E o \in {"written", "error"} :
        /\ Writes(o) /\ Continue(o)
        /\ subtasks' = IF o = "written" THEN subtasks \cup {t} ELSE subtasks
    /\ UNCHANGED <<recorded, agentRun, slips>>

\* All futures of the layer are collected: the pool is left.
NextLayer ==
    /\ main.pc = "submit" /\ main.todo = {} /\ InFlight = {} /\ Earlier # Tasks
    /\ main' = [main EXCEPT !.todo = Layer(Earlier)]
    /\ UNCHANGED <<task, used, recorded, errors, subtasks, agentRun, slips, writeErrors>>

Outcome == IF errors # {} THEN "FAILED" ELSE "SUCCESS"

\* After the last layer: conflicts and the run's status are written.
Finish ==
    /\ main.pc = "submit" /\ main.todo = {} /\ InFlight = {} /\ Earlier = Tasks
    /\ \E o \in {"written", "error"} :
        /\ Writes(o)
        /\ main' = [main EXCEPT !.pc = IF o = "written" THEN "answered" ELSE "raised"]
        /\ agentRun' = IF o = "written" THEN Outcome ELSE agentRun
    /\ UNCHANGED <<task, used, recorded, errors, subtasks, slips>>

PoolStep(t) == RunOne(t) \/ SpecialistReturns(t) \/ SpecialistRaises(t)

MainStep ==
    \/ \E t \in Tasks :
        \/ Reserve(t) \/ CollectArtifact(t) \/ CollectUnwritten(t)
        \/ CollectOverBudget(t) \/ CollectFailure(t)
    \/ NextLayer \/ Finish

SupervisorNext == MainStep \/ \E t \in Tasks : PoolStep(t)

\* Threads run, and specialists return or raise.
SupervisorFairness ==
    /\ WF_supervisorVars(MainStep)
    /\ \A t \in Tasks : WF_supervisorVars(PoolStep(t))

SupervisorSpec ==
    SupervisorInit /\ [][SupervisorNext]_supervisorVars /\ SupervisorFairness

-----------------------------------------------------------------------------
\* What the tasks of S reserved, or used, of a resource.
ReservedBy(S, r) == Total([t \in Tasks |-> Reservation[t][r]], S)
UsedBy(S, r)     == Total([t \in Tasks |-> task[t].usage[r]], S)

\* What the tasks in flight have reserved and the recorded artifacts have used.
Owed(r) == ReservedBy(InFlight, r) + UsedBy(recorded, r)

\* The budget is never exceeded, and what it counts as used is what the tasks in
\* flight have reserved and the recorded artifacts have used, less at most the
\* reservations that were released twice (SharedContext: "Reserve before a
\* specialist starts so parallel work cannot overspend", "without double
\* counting"; Supervisor.run releases again after commit_budget has).
BudgetIsAccounted ==
    \A r \in Resources :
        /\ used[r] <= Limit[r]
        /\ used[r] <= Owed(r)
        /\ used[r] >= Owed(r) - ReservedBy(slips, r)

\* No task is lost: when run() answers, every task left an artifact or an error,
\* every task that ran has its row, and the run is SUCCESS exactly when all
\* artifacts are there and none was reported as failed.
NoTaskIsLost ==
    main.pc = "answered" =>
        /\ Tasks \subseteq recorded \cup errors
        /\ {t \in Tasks : task[t].future = "collected"} \subseteq subtasks
        /\ agentRun = "SUCCESS" <=> recorded = Tasks /\ errors = {}

\* Every task is accounted for: what it cost, and that it was run or refused.
TasksAreAccountedFor == BudgetIsAccounted /\ NoTaskIsLost

\* run() ends, whatever the specialists do and although tasks are refused for want
\* of budget or fail: it answers, or raises because the repository failed
\* (Supervisor.run: the loops over layers and futures).
SupervisorEnds == <>(main.pc # "submit")

=============================================================================
