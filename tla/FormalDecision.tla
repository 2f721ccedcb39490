---------------------------- MODULE FormalDecision ----------------------------
(***************************************************************************)
(* POST /api/v2/decisions: the only route that creates a formal decision.  *)
(* A request is received under an idempotency key and its evidence frozen  *)
(* in one transaction; a second transaction locks the run, calculates from *)
(* the frozen bundle, walks the run to GOVERNED and finalizes it together  *)
(* with its lineage, its snapshot, its authorization and its outbox event. *)
(*                                                                         *)
(* What a transaction wrote is its own until it commits, so the steps of a *)
(* transaction work on the local copies run (the DecisionRun object) and   *)
(* tx (the row it wrote), and the commit is the step that writes the       *)
(* tables.  A rollback only gives the locks back.                          *)
(***************************************************************************)
EXTENDS Naturals

CONSTANTS
    Callers,       \* request handlers, in any number of API processes
    Keys,          \* (portfolio_id, idempotency_key)
    Payloads,      \* request bodies, which their hash tells apart
    Evidence,      \* bundles the evidence gateway may assemble
    Complete,      \* bundles that name every node the formal lineage needs
    Calculations,  \* what the calculation of a bundle may come to
    Fixture,       \* STOCK_AGENT_DETERMINISTIC_FIXTURE or _OFFLINE_MODE is set
    MaxIds,        \* bound on the decisions ever begun
    MaxFaults,     \* bound on crashes, errors and blocked gates
    None

Ids == 1..MaxIds

Actions == {"BUY", "SELL", "HOLD", "INCREASE", "REDUCE", "EXIT", "WATCH"}

\* action     investment_action of the proposal
\* riskVeto   the risk specialist vetoed or failed
\* missing    missing_context() is not empty
\* rejected   another policy rule rejected
\* weight     policy's adjusted weight, 0 or a positive one
\* late       as_of + 1 day has passed when the authorization is issued
AllCalculations ==
    [action : Actions, riskVeto : BOOLEAN, missing : BOOLEAN,
     rejected : BOOLEAN, weight : {0, 1}, late : BOOLEAN]

Responses ==
    [id : Ids, evidence : Evidence, status : {"HOLD", "REJECTED", "APPROVED"},
     eligible : BOOLEAN, governed : BOOLEAN]

ASSUME FormalAssumption ==
    /\ Complete \subseteq Evidence
    /\ Calculations \subseteq AllCalculations
    /\ Fixture \in BOOLEAN /\ MaxIds \in Nat /\ MaxFaults \in Nat
    /\ None \notin Callers /\ None \notin Keys /\ None \notin Payloads
    /\ None \notin Evidence /\ None \notin Calculations /\ None \notin Responses

States == {"RECEIVED", "BUNDLE_FROZEN", "SPECIALISTS_COMPLETED",
           "FORMAL_CALCULATED", "GOVERNED", "FINALIZED"}

\* decision_requests joined with decision_runs; ready is whether
\* readiness_snapshot_json holds the snapshot of the gate.
Rows ==
    [payload : Payloads, id : Ids, state : States, version : Nat,
     bundle : Evidence \cup {None}, ready : BOOLEAN, final : Responses \cup {None}]

ASSUME NoneIsNoRow == None \notin Rows

VARIABLES
    rows,       \* committed request and run of each key
    outbox,     \* decisions whose DecisionFinalized event is committed
    lineage,    \* decisions in decision_lineage
    snapshots,  \* decisions with a v3 snapshot
    inserting,  \* key -> handler whose uncommitted insert holds the unique index
    locked,     \* key -> handler that holds the row lock of its run
    me,         \* local state of each handler
    delivered,  \* [key, payload, response] of every 200 answer
    nextId,     \* uuid4() never repeats
    faults

vars == <<rows, outbox, lineage, snapshots, inserting, locked, me, delivered, nextId, faults>>

tables == <<rows, outbox, lineage, snapshots>>

Labels == {"idle", "gate", "receive", "freeze", "reread", "lock",
           "calculate", "advance", "finalize", "reply"}

Idle == [pc |-> "idle", key |-> None, payload |-> None, run |-> None,
         tx |-> None, calc |-> None, answer |-> None]

Init ==
    /\ rows = [k \in Keys |-> None]
    /\ outbox = {} /\ lineage = {} /\ snapshots = {}
    /\ inserting = [k \in Keys |-> None]
    /\ locked = [k \in Keys |-> None]
    /\ me = [c \in Callers |-> Idle]
    /\ delivered = {} /\ nextId = 1 /\ faults = 0

----------------------------------------------------------------------------
(* The run and its row.  Nothing in the repository moves a run to FAILED or *)
(* PUBLISHED, so the two states are left out.                              *)

Transitions ==
    [s \in States |->
        CASE s = "RECEIVED" -> {"BUNDLE_FROZEN"}
          [] s = "BUNDLE_FROZEN" -> {"SPECIALISTS_COMPLETED"}
          [] s = "SPECIALISTS_COMPLETED" -> {"FORMAL_CALCULATED"}
          [] s = "FORMAL_CALCULATED" -> {"GOVERNED"}
          [] s = "GOVERNED" -> {"FINALIZED"}
          [] s = "FINALIZED" -> {}]

Transition(run, s) == [run EXCEPT !.state = s, !.version = @ + 1]

NewRun(p, id) ==
    [payload |-> p, id |-> id, state |-> "RECEIVED", version |-> 0,
     bundle |-> None, ready |-> FALSE, final |-> None]

\* Reading a run back leaves readiness_snapshot at its default.
FromRow(row) == [row EXCEPT !.ready = FALSE]

\* The row as the handler's transaction sees it: its own write, or the committed.
Seen(c) == IF me[c].tx = None THEN rows[me[c].key] ELSE me[c].tx

\* The compare-and-set of save(): the row still has the version of the run.  It
\* never fails, because the holder of the lock is the only writer: every
\* handler that saves goes on to reply or to an error (RequestsEnd).
Unmoved(c) == Seen(c).version = me[c].run.version

Finished(run) == run.state = "FINALIZED" /\ run.final # None

Own(lock, c) == [k \in Keys |-> IF lock[k] = c THEN None ELSE lock[k]]

\* The session is closed: an open transaction is rolled back and its locks end.
Rollback(c) ==
    /\ inserting' = Own(inserting, c)
    /\ locked' = Own(locked, c)
    /\ UNCHANGED tables

\* The handler answers with an error; a retry starts anew.
Refuse(c) ==
    /\ me' = [me EXCEPT ![c] = Idle]
    /\ Rollback(c)
    /\ UNCHANGED <<delivered, nextId>>

Fault == faults < MaxFaults /\ faults' = faults + 1

----------------------------------------------------------------------------
(* Governance of a calculated proposal, up to the public response.         *)

Passive(x) == x.action \in {"HOLD", "WATCH"}
Reduction(x) == x.action \in {"SELL", "REDUCE", "EXIT"}

\* PolicyEngine.evaluate on the v2 proposal.
PolicyApproved(x) ==
    /\ ~x.riskVeto /\ ~x.rejected
    /\ Passive(x) \/ Reduction(x) \/ x.weight > 0

\* decision_action of final_v2.
Vetoed(x) == x.riskVeto \/ x.missing \/ ~PolicyApproved(x)

TargetWeight(x) == IF Vetoed(x) \/ Passive(x) THEN 0 ELSE x.weight

\* The fixture and offline modes never carry an actionable result.
PublicAction(x) == IF Fixture THEN "HOLD" ELSE x.action

Status(x) ==
    CASE PublicAction(x) \in {"HOLD", "WATCH"} -> "HOLD"
      [] PublicAction(x) \in {"VETO", "REJECT", "REJECTED"} -> "REJECTED"
      [] OTHER -> "APPROVED"

\* Mutant: a decision without a positive weight is accepted.
FinalizerAccepts_NoNotional(x) == PublicAction(x) \in {"BUY", "SELL"} /\ ~x.late

\* FormalDecisionFinalizer.finalize accepts the decision.
FinalizerAccepts(x) ==
    /\ PublicAction(x) \in {"BUY", "SELL"}
    /\ TargetWeight(x) > 0
    /\ ~x.late

Eligible(x) == Status(x) = "APPROVED" /\ PolicyApproved(x) /\ FinalizerAccepts(x)

Formalize(run, x) ==
    [id |-> run.id, evidence |-> run.bundle, status |-> Status(x),
     eligible |-> Eligible(x), governed |-> ~Vetoed(x)]

----------------------------------------------------------------------------
(* First transaction: receive and freeze.                                  *)

Ask(c, k, p) ==
    /\ me[c].pc = "idle"
    /\ me' = [me EXCEPT ![c] = [Idle EXCEPT !.pc = "gate", !.key = k, !.payload = p]]
    /\ UNCHANGED <<tables, inserting, locked, delivered, nextId, faults>>

GateOpen(c) ==
    /\ me[c].pc = "gate"
    /\ me' = [me EXCEPT ![c].pc = "receive"]
    /\ UNCHANGED <<tables, inserting, locked, delivered, nextId, faults>>

\* 503 FORMAL_DECISION_NOT_READY.
GateClosed(c) ==
    /\ me[c].pc = "gate"
    /\ Fault /\ Refuse(c)

\* The insert waits for an uncommitted one of the same key.
ReceiveNew(c) ==
    LET k == me[c].key IN
    /\ me[c].pc = "receive"
    /\ rows[k] = None /\ inserting[k] = None /\ nextId <= MaxIds
    /\ me' = [me EXCEPT ![c].pc = "freeze", ![c].run = NewRun(me[c].payload, nextId),
                        ![c].tx = NewRun(me[c].payload, nextId)]
    /\ inserting' = [inserting EXCEPT ![k] = c]
    /\ nextId' = nextId + 1
    /\ UNCHANGED <<tables, locked, delivered, faults>>

\* Mutant: a known key is answered whatever the body.
ReceiveKnown_AnyPayload(c) ==
    /\ me[c].pc = "receive"
    /\ rows[me[c].key] # None
    /\ me' = [me EXCEPT ![c].pc = "reread", ![c].run = FromRow(rows[me[c].key])]
    /\ UNCHANGED <<tables, inserting, locked, delivered, nextId, faults>>

\* ON CONFLICT DO NOTHING, then the committed request decides.
ReceiveKnown(c) ==
    LET k == me[c].key IN
    /\ me[c].pc = "receive"
    /\ rows[k] # None
    /\ IF rows[k].payload # me[c].payload
       THEN Refuse(c) /\ UNCHANGED faults
       ELSE /\ me' = [me EXCEPT ![c].pc = IF rows[k].state = "RECEIVED" THEN "freeze" ELSE "reread",
                                ![c].run = FromRow(rows[k])]
            /\ UNCHANGED <<tables, inserting, locked, delivered, nextId, faults>>

\* freeze_bundle, the save of its snapshot id and the commit.
Freeze(c, e) ==
    LET k == me[c].key
        staged == Transition([me[c].run EXCEPT !.bundle = e, !.ready = TRUE], "BUNDLE_FROZEN")
    IN
    /\ me[c].pc = "freeze"
    /\ "BUNDLE_FROZEN" \in Transitions[me[c].run.state]
    /\ Unmoved(c)
    /\ rows' = [rows EXCEPT ![k] = staged]
    /\ inserting' = Own(inserting, c)
    /\ me' = [me EXCEPT ![c].pc = "lock", ![c].run = staged, ![c].tx = None]
    /\ UNCHANGED <<outbox, lineage, snapshots, locked, delivered, nextId, faults>>

\* No skill, no evidence, no snapshot id: 422, and the insert is undone.
FreezeFails(c) ==
    /\ me[c].pc = "freeze"
    /\ Fault /\ Refuse(c)

\* The run is read again outside the transaction that found it.
Reread(c) ==
    LET row == rows[me[c].key] IN
    /\ me[c].pc = "reread"
    /\ me' = [me EXCEPT ![c].pc = IF Finished(row) THEN "reply" ELSE "lock",
                        ![c].run = FromRow(row),
                        ![c].answer = IF Finished(row) THEN row.final ELSE None]
    /\ UNCHANGED <<tables, inserting, locked, delivered, nextId, faults>>

----------------------------------------------------------------------------
(* Second transaction: calculate from the frozen bundle and finalize.      *)

\* SELECT ... FOR UPDATE, then the run as it is under the lock.
LockRun(c) ==
    LET k == me[c].key
        row == rows[k]
    IN
    /\ me[c].pc = "lock"
    /\ locked[k] = None
    /\ IF Finished(row)
       THEN /\ me' = [me EXCEPT ![c].pc = "reply", ![c].answer = row.final, ![c].run = FromRow(row)]
            /\ UNCHANGED locked
       ELSE /\ me' = [me EXCEPT ![c].pc = "calculate", ![c].run = FromRow(row)]
            /\ locked' = [locked EXCEPT ![k] = c]
    /\ UNCHANGED <<tables, inserting, delivered, nextId, faults>>

\* decide_from_frozen_bundle; the decision and its snapshot are staged.
Calculate(c, x) ==
    /\ me[c].pc = "calculate"
    /\ me' = [me EXCEPT ![c].pc = "advance", ![c].calc = x]
    /\ UNCHANGED <<tables, inserting, locked, delivered, nextId, faults>>

\* The model, a specialist or a contract check raised.
CalculateFails(c) ==
    /\ me[c].pc = "calculate"
    /\ Fault /\ Refuse(c)

\* One uow.advance: SPECIALISTS_COMPLETED, FORMAL_CALCULATED, GOVERNED.
Advance(c) ==
    LET run == me[c].run IN
    /\ me[c].pc = "advance"
    /\ \E s \in Transitions[run.state] \ {"FINALIZED"} :
          /\ Unmoved(c)
          /\ me' = [me EXCEPT ![c].run = Transition(run, s), ![c].tx = Transition(run, s),
                              ![c].pc = IF s = "GOVERNED" THEN "finalize" ELSE "advance"]
    /\ UNCHANGED <<tables, inserting, locked, delivered, nextId, faults>>

\* Mutant: the event is written before the lineage is checked, and kept.
LineageMissing_OutboxKept(c) ==
    /\ me[c].pc = "finalize"
    /\ me[c].run.bundle \notin Complete
    /\ outbox' = outbox \cup {me[c].run.id}
    /\ me' = [me EXCEPT ![c] = Idle]
    /\ locked' = Own(locked, c)
    /\ UNCHANGED <<rows, lineage, snapshots, inserting, delivered, nextId, faults>>

\* Mutant: missing lineage is calculated again instead of refused.
LineageMissing_Retries(c) ==
    /\ me[c].pc = "finalize"
    /\ me[c].run.bundle \notin Complete
    /\ me' = [me EXCEPT ![c].pc = "calculate", ![c].run = FromRow(rows[me[c].key]),
                        ![c].tx = None, ![c].calc = None]
    /\ UNCHANGED <<tables, inserting, locked, delivered, nextId, faults>>

\* FORMAL_LINEAGE_REQUIRED: everything calculated is rolled back.
LineageMissing(c) ==
    /\ me[c].pc = "finalize"
    /\ me[c].run.bundle \notin Complete
    /\ Refuse(c) /\ UNCHANGED faults

\* Mutant: the answer leaves out the authorization that the run stores.
Finalize_PlainAnswer(c) ==
    LET run == me[c].run
        response == Formalize(run, me[c].calc)
    IN
    /\ me[c].pc = "finalize" /\ run.bundle \in Complete /\ run.state = "GOVERNED" /\ Unmoved(c)
    /\ rows' = [rows EXCEPT ![me[c].key] = Transition([run EXCEPT !.final = response], "FINALIZED")]
    /\ outbox' = outbox \cup {run.id} /\ lineage' = lineage \cup {run.id}
    /\ snapshots' = snapshots \cup {run.id} /\ locked' = Own(locked, c)
    /\ me' = [me EXCEPT ![c].pc = "reply", ![c].answer = [response EXCEPT !.eligible = FALSE], ![c].tx = None]
    /\ UNCHANGED <<inserting, delivered, nextId, faults>>

\* uow.finalize and the commit.
Finalize(c) ==
    LET k == me[c].key
        run == me[c].run
        response == Formalize(run, me[c].calc)
    IN
    /\ me[c].pc = "finalize"
    /\ run.bundle \in Complete
    /\ run.state = "GOVERNED" /\ Unmoved(c)
    /\ rows' = [rows EXCEPT ![k] = Transition([run EXCEPT !.final = response], "FINALIZED")]
    /\ outbox' = outbox \cup {run.id}
    /\ lineage' = lineage \cup {run.id}
    /\ snapshots' = snapshots \cup {run.id}
    /\ locked' = Own(locked, c)
    /\ me' = [me EXCEPT ![c].pc = "reply", ![c].answer = response, ![c].tx = None]
    /\ UNCHANGED <<inserting, delivered, nextId, faults>>

Reply(c) ==
    /\ me[c].pc = "reply"
    /\ delivered' = delivered \cup
          {[key |-> me[c].key, payload |-> me[c].payload, response |-> me[c].answer]}
    /\ me' = [me EXCEPT ![c] = Idle]
    /\ UNCHANGED <<tables, inserting, locked, nextId, faults>>

\* The process dies or the connection is lost; the database rolls back.
Crash(c) ==
    /\ me[c].pc \notin {"idle", "gate"}
    /\ Fault /\ Refuse(c)

----------------------------------------------------------------------------
Step(c) ==
    \/ GateOpen(c) \/ ReceiveNew(c) \/ ReceiveKnown(c)
    \/ \E e \in Evidence : Freeze(c, e)
    \/ Reread(c) \/ LockRun(c)
    \/ \E x \in Calculations : Calculate(c, x)
    \/ Advance(c) \/ LineageMissing(c) \/ Finalize(c) \/ Reply(c)

Failure(c) == GateClosed(c) \/ FreezeFails(c) \/ CalculateFails(c) \/ Crash(c)

Next ==
    \E c \in Callers :
        \/ \E k \in Keys, p \in Payloads : Ask(c, k, p)
        \/ Step(c)
        \/ Failure(c)

Spec == Init /\ [][Next]_vars

\* The database queues the waiters of a unique index entry and of a row lock,
\* so a handler that waits for one gets it; a handler otherwise keeps running.
FairSpec == Spec /\ \A c \in Callers : SF_vars(Step(c))
----------------------------------------------------------------------------
(* Properties.                                                             *)

Locals ==
    [pc : Labels, key : Keys \cup {None}, payload : Payloads \cup {None},
     run : Rows \cup {None}, tx : Rows \cup {None},
     calc : Calculations \cup {None}, answer : Responses \cup {None}]

Answers == [key : Keys, payload : Payloads, response : Responses]

TypeOK ==
    /\ rows \in [Keys -> Rows \cup {None}]
    /\ outbox \subseteq Ids /\ lineage \subseteq Ids /\ snapshots \subseteq Ids
    /\ inserting \in [Keys -> Callers \cup {None}]
    /\ locked \in [Keys -> Callers \cup {None}]
    /\ me \in [Callers -> Locals]
    /\ delivered \subseteq Answers
    /\ nextId \in 1..(MaxIds + 1) /\ faults \in 0..MaxFaults

\* What a transaction commits is all or nothing: a decision is in the outbox, in
\* the lineage table and has its snapshot exactly when its run is FINALIZED,
\* whatever handler crashed or failed in between (uow.finalize and the
\* route's single commit).
AtomicFinalization ==
    /\ \A k \in Keys : rows[k] # None /\ rows[k].state = "FINALIZED" =>
          rows[k].id \in outbox \cap lineage \cap snapshots
    /\ \A id \in outbox \cup lineage \cup snapshots :
          \E k \in Keys : rows[k] # None /\ rows[k].id = id /\ Finished(rows[k])

\* A committed run is frozen or finalized, with the version and the fields that
\* go with it: no reader ever meets a run between two stages, so a retry
\* never resumes from one, and the answer was calculated from the bundle the
\* run was frozen with.
OnlySettledRuns ==
    \A k \in Keys : rows[k] # None =>
        /\ rows[k].bundle # None
        /\ \/ rows[k].state = "BUNDLE_FROZEN" /\ rows[k].version = 1 /\ rows[k].final = None
           \/ /\ rows[k].state = "FINALIZED" /\ rows[k].version = 5
              /\ rows[k].final # None
              /\ rows[k].final.id = rows[k].id
              /\ rows[k].final.evidence = rows[k].bundle

\* A 200 answer goes to the request the key stands for: same body, and the
\* decision that body began (request_hash of get_or_create).
AnswersTheRequest ==
    \A a \in delivered :
        /\ rows[a.key] # None
        /\ rows[a.key].payload = a.payload
        /\ rows[a.key].id = a.response.id

Calculating(c) == me[c].pc \in {"calculate", "advance", "finalize"}

\* Two handlers never calculate the same decision at the same time: the row lock
\* is held from the re-read of the run to the commit or the rollback.
OneCalculator ==
    \A c, d \in Callers :
        Calculating(c) /\ Calculating(d) /\ me[c].key = me[d].key => c = d

\* An authorization to execute is issued only for a decision that risk, the
\* context checks and the policy engine let through, on complete lineage.
\* _formalize_frozen_result does not look at decision_action, so a veto reaches
\* it only as a missing target weight.
AuthorizationIsGoverned ==
    \A k \in Keys : rows[k] # None /\ rows[k].final # None /\ rows[k].final.eligible =>
        rows[k].final.governed /\ rows[k].final.status = "APPROVED" /\ rows[k].bundle \in Complete

\* A committed run never goes away, never goes back and keeps its request, its
\* decision id and its bundle: evidence is frozen once, a finalized run stays.
RunsOnlyMoveForward ==
    [][\A k \in Keys : rows[k] # None =>
          /\ rows'[k] # None
          /\ rows'[k].payload = rows[k].payload /\ rows'[k].id = rows[k].id
          /\ rows'[k].bundle = rows[k].bundle
          /\ rows[k].version <= rows'[k].version
          /\ rows[k].state = "FINALIZED" => rows'[k] = rows[k]]_vars

ResultOf(k) == IF rows[k] = None THEN None ELSE rows[k].final
DeliveredOf(k) == {a.response : a \in {b \in delivered : b.key = k}}

Promise(k) ==
    INSTANCE DurableResult WITH
        Results <- Responses, result <- ResultOf(k), delivered <- DeliveredOf(k)

\* A key has one formal answer, chosen once: every handler that answers, in
\* whatever order the requests, crashes and retries came, gives that one.  Each
\* key implements DurableResult.
OneAnswerPerKey ==
    /\ \A k \in Keys : Promise(k)!Init
    /\ [][\A k \in Keys : [Promise(k)!Next]_<<ResultOf(k), DeliveredOf(k)>>]_vars

\* Every request ends: no handler waits forever for the unique index or the row
\* lock, whoever held it failed or died.
RequestsEnd == \A c \in Callers : (me[c].pc # "idle") ~> (me[c].pc = "idle")

\* The second transaction is one step to everybody else: it commits as a whole,
\* from a settled run, and one handler at a time is inside it.
SettledAtomically == AtomicFinalization /\ OnlySettledRuns /\ OneCalculator

\* What was committed or answered for a key stands: neither its run nor its
\* answer is ever another one afterwards.
DecisionsStand == RunsOnlyMoveForward /\ OneAnswerPerKey

----------------------------------------------------------------------------
(* The inductive invariant behind these.                                   *)

\* The stage of a run in the hands of its calculator.
Stages == {<<"BUNDLE_FROZEN", 1>>, <<"SPECIALISTS_COMPLETED", 2>>, <<"FORMAL_CALCULATED", 3>>}

\* What handler c, with local state l, can count on, given the committed rows and
\* the holders of the two locks.
Knows(c, l, row, ins, lock) ==
    /\ l.pc # "idle" => l.key \in Keys /\ l.payload \in Payloads
    /\ l.pc = "freeze" =>
          /\ ins[l.key] = c /\ row[l.key] = None
          /\ l.run # None /\ l.run.payload = l.payload /\ l.run.state = "RECEIVED"
          /\ l.run.version = 0 /\ l.run.final = None
    /\ l.pc \in {"reread", "lock", "calculate", "advance", "finalize", "reply"} =>
          row[l.key] # None /\ row[l.key].payload = l.payload
    /\ l.pc \in {"calculate", "advance", "finalize"} =>
          /\ lock[l.key] = c /\ row[l.key].state = "BUNDLE_FROZEN"
          /\ l.run # None /\ l.run.payload = l.payload /\ l.run.final = None
          /\ l.run.id = row[l.key].id /\ l.run.bundle = row[l.key].bundle
    /\ l.pc = "calculate" => l.run.state = "BUNDLE_FROZEN" /\ l.run.version = 1
    /\ l.pc = "advance" => l.calc # None /\ <<l.run.state, l.run.version>> \in Stages
    /\ l.pc = "finalize" => l.calc # None /\ l.run.state = "GOVERNED" /\ l.run.version = 4
    /\ l.pc = "reply" => Finished(row[l.key]) /\ l.answer = row[l.key].final

\* Every answer given is the response of a finalized run.
DeliveredOK ==
    \A a \in delivered :
        /\ rows[a.key] # None /\ rows[a.key].payload = a.payload
        /\ Finished(rows[a.key]) /\ rows[a.key].final = a.response

InductiveInvariant ==
    /\ TypeOK /\ AtomicFinalization /\ OnlySettledRuns /\ AuthorizationIsGoverned /\ DeliveredOK
    /\ \A c \in Callers : Knows(c, me[c], rows, inserting, locked)

===============================================================================
