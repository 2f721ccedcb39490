------------------------- MODULE FormalDecisionProofs -------------------------
(***************************************************************************)
(* Safety of formal decisions for any number of handlers, keys, requests,  *)
(* bundles and faults.                                                     *)
(*                                                                         *)
(* The argument: between the insert and its commit the unique index entry  *)
(* belongs to one handler, and between the re-read and the commit the row  *)
(* lock does, so what a handler holds in its DecisionRun is what the       *)
(* committed row says, and each commit takes the row from nothing to       *)
(* frozen or from frozen to finalized.                                     *)
(***************************************************************************)
EXTENDS FormalDecision, TLAPS

\* The invariant in the forms the steps below use.
LEMMA Facts ==
    ASSUME InductiveInvariant
    PROVE  /\ rows \in [Keys -> Rows \cup {None}]
           /\ outbox \subseteq Ids /\ lineage \subseteq Ids /\ snapshots \subseteq Ids
           /\ inserting \in [Keys -> Callers \cup {None}]
           /\ locked \in [Keys -> Callers \cup {None}]
           /\ me \in [Callers -> Locals] /\ delivered \subseteq Answers
           /\ nextId \in 1..(MaxIds + 1) /\ faults \in 0..MaxFaults
           /\ AtomicFinalization /\ OnlySettledRuns /\ AuthorizationIsGoverned /\ DeliveredOK
           /\ \A c \in Callers : Knows(c, me[c], rows, inserting, locked)
  BY DEF InductiveInvariant, TypeOK

\* Committed rows are never lost, nor handed to another request.
Kept ==
    \A k \in Keys : rows[k] # None =>
        /\ rows'[k] # None /\ rows'[k].payload = rows[k].payload
        /\ Finished(rows[k]) => rows'[k] = rows[k]

\* A step of c takes nothing from the handlers that hold a lock.
OthersHold(c) ==
    \A d \in Callers, k \in Keys : d # c =>
        /\ inserting[k] = d /\ rows[k] = None => inserting'[k] = d /\ rows'[k] = rows[k]
        /\ locked[k] = d /\ rows[k] # None => locked'[k] = d /\ rows'[k] = rows[k]

\* What a step may do to the committed run of a key: nothing, freeze it, finalize it.
RowStep(k) ==
    \/ rows'[k] = rows[k]
    \/ rows[k] = None /\ rows'[k] # None /\ rows'[k].final = None
    \/ /\ rows[k] # None /\ rows[k].state = "BUNDLE_FROZEN" /\ rows[k].version = 1
       /\ rows[k].final = None
       /\ rows'[k] # None /\ rows'[k].payload = rows[k].payload /\ rows'[k].id = rows[k].id
       /\ rows'[k].bundle = rows[k].bundle /\ rows'[k].version = 5
       /\ rows'[k].final \in Responses

\* A step of one handler, from what it does to its own state and to the rows.
LEMMA CallerStep ==
    ASSUME InductiveInvariant, NEW c \in Callers, NEW l \in Locals,
           me' = [me EXCEPT ![c] = l],
           rows' \in [Keys -> Rows \cup {None}],
           outbox' \subseteq Ids, lineage' \subseteq Ids, snapshots' \subseteq Ids,
           inserting' \in [Keys -> Callers \cup {None}],
           locked' \in [Keys -> Callers \cup {None}],
           delivered' \subseteq Answers, nextId' \in 1..(MaxIds + 1), faults' \in 0..MaxFaults,
           Kept, OthersHold(c), Knows(c, l, rows', inserting', locked'),
           AtomicFinalization', OnlySettledRuns', AuthorizationIsGoverned', DeliveredOK'
    PROVE  InductiveInvariant'
  <1> USE Facts
  <1>1. TypeOK'
    BY DEF TypeOK
  <1>2. ASSUME NEW d \in Callers PROVE Knows(d, me'[d], rows', inserting', locked')
    <2>1. CASE d = c
      BY <2>1
    <2>2. CASE d # c
      <3>1. me'[d] = me[d] /\ me[d] \in Locals /\ Knows(d, me[d], rows, inserting, locked)
        BY <2>2
      <3>2. me[d].pc = "idle" \/ me[d].key \in Keys
        BY <3>1 DEF Knows
      <3> QED BY <2>2, <3>1, <3>2 DEF Knows, Kept, OthersHold, Finished
    <2> QED BY <2>1, <2>2
  <1> QED BY <1>1, <1>2 DEF InductiveInvariant

\* The same when the tables and the answers stay as they are.
LEMMA LocalStep ==
    ASSUME InductiveInvariant, NEW c \in Callers, NEW l \in Locals,
           me' = [me EXCEPT ![c] = l],
           UNCHANGED tables, UNCHANGED delivered,
           inserting' \in [Keys -> Callers \cup {None}],
           locked' \in [Keys -> Callers \cup {None}],
           nextId' \in 1..(MaxIds + 1), faults' \in 0..MaxFaults,
           OthersHold(c), Knows(c, l, rows, inserting', locked')
    PROVE  InductiveInvariant'
  <1> USE Facts
  <1>1. Kept /\ rows' = rows
    BY DEF Kept, tables
  <1>2. AtomicFinalization' /\ OnlySettledRuns' /\ AuthorizationIsGoverned' /\ DeliveredOK'
    BY DEF tables, AtomicFinalization, OnlySettledRuns, AuthorizationIsGoverned, DeliveredOK, Finished
  <1> HIDE DEF Kept, OthersHold, Knows
  <1> QED BY <1>1, <1>2, CallerStep DEF tables

\* An idle handler knows nothing.
LEMMA IdleOK ==
    Idle \in Locals /\ Idle.pc = "idle" /\ \A c, r, i, l : Knows(c, Idle, r, i, l)
  BY DEF Idle, Locals, Labels, Knows

\* Closing a session takes nothing from the others.
LEMMA RollbackOK ==
    ASSUME InductiveInvariant, NEW c \in Callers, Rollback(c)
    PROVE  /\ inserting' \in [Keys -> Callers \cup {None}]
           /\ locked' \in [Keys -> Callers \cup {None}]
           /\ UNCHANGED tables /\ OthersHold(c)
  <1> USE Facts
  <1>1. inserting' \in [Keys -> Callers \cup {None}] /\ locked' \in [Keys -> Callers \cup {None}]
    BY DEF Rollback, Own
  <1>2. OthersHold(c)
    BY DEF Rollback, Own, tables, OthersHold
  <1> QED BY <1>1, <1>2 DEF Rollback

\* An error answer closes the session and commits nothing.
LEMMA RefuseStep ==
    ASSUME InductiveInvariant, NEW c \in Callers, Refuse(c), faults' \in 0..MaxFaults
    PROVE  InductiveInvariant'
  <1> USE Facts
  <1>1. Rollback(c) /\ me' = [me EXCEPT ![c] = Idle] /\ UNCHANGED <<delivered, nextId>>
    BY DEF Refuse
  <1> QED BY <1>1, RollbackOK, IdleOK, LocalStep

\* Each failing step is a refusal.
LEMMA Failures ==
    ASSUME InductiveInvariant, NEW c \in Callers, Failure(c)
    PROVE  InductiveInvariant'
  <1>1. Refuse(c) /\ Fault
    BY DEF Failure, GateClosed, FreezeFails, CalculateFails, Crash
  <1>2. faults' \in 0..MaxFaults
    BY <1>1, Facts, FormalAssumption DEF Fault
  <1> QED BY <1>1, <1>2, RefuseStep

----------------------------------------------------------------------------
(* First transaction.                                                      *)

\* A request arrives.
LEMMA AskStep ==
    ASSUME InductiveInvariant, NEW c \in Callers, NEW k \in Keys, NEW p \in Payloads, Ask(c, k, p)
    PROVE  InductiveInvariant'
  <1> DEFINE l == [Idle EXCEPT !.pc = "gate", !.key = k, !.payload = p]
  <1>1. l \in Locals /\ l.pc = "gate" /\ l.key = k /\ l.payload = p
    BY DEF Idle, Locals, Labels
  <1>2. me' = [me EXCEPT ![c] = l]
        /\ UNCHANGED <<tables, inserting, locked, delivered, nextId, faults>>
    BY DEF Ask
  <1> HIDE DEF l
  <1>3. Knows(c, l, rows, inserting', locked')
    BY <1>1 DEF Knows
  <1>4. OthersHold(c)
    BY <1>2 DEF OthersHold, tables
  <1> QED BY <1>1, <1>2, <1>3, <1>4, Facts, LocalStep

\* The readiness gate lets the request pass.
LEMMA GateOpenStep ==
    ASSUME InductiveInvariant, NEW c \in Callers, GateOpen(c)
    PROVE  InductiveInvariant'
  <1> USE Facts
  <1> DEFINE l == [me[c] EXCEPT !.pc = "receive"]
  <1>1. l \in Locals /\ l.pc = "receive" /\ l.key = me[c].key /\ l.payload = me[c].payload
    BY DEF Locals, Labels
  <1>2. me' = [me EXCEPT ![c] = l] /\ me[c].pc = "gate"
        /\ UNCHANGED <<tables, inserting, locked, delivered, nextId, faults>>
    BY DEF GateOpen
  <1> HIDE DEF l
  <1>3. Knows(c, l, rows, inserting', locked')
    BY <1>1, <1>2 DEF Knows
  <1>4. OthersHold(c)
    BY <1>2 DEF OthersHold, tables
  <1> QED BY <1>1, <1>2, <1>3, <1>4, LocalStep

\* A new run is a row in its first state.
LEMMA NewRunOK ==
    ASSUME NEW p \in Payloads, NEW id \in Ids
    PROVE  /\ NewRun(p, id) \in Rows /\ NewRun(p, id) # None
           /\ NewRun(p, id).payload = p /\ NewRun(p, id).state = "RECEIVED"
           /\ NewRun(p, id).version = 0 /\ NewRun(p, id).final = None
  <1>1. NewRun(p, id) \in Rows
    BY DEF NewRun, Rows, States
  <1> QED BY <1>1, NoneIsNoRow DEF NewRun

\* The insert takes the index entry of a key without a row.
LEMMA ReceiveNewStep ==
    ASSUME InductiveInvariant, NEW c \in Callers, ReceiveNew(c)
    PROVE  InductiveInvariant'
  <1> USE Facts
  <1> DEFINE k == me[c].key
             run == NewRun(me[c].payload, nextId)
             l == [me[c] EXCEPT !.pc = "freeze", !.run = run, !.tx = run]
  <1>1. /\ me[c].pc = "receive" /\ rows[k] = None /\ inserting[k] = None /\ nextId <= MaxIds
        /\ me' = [me EXCEPT ![c] = l] /\ inserting' = [inserting EXCEPT ![k] = c]
        /\ nextId' = nextId + 1 /\ UNCHANGED <<tables, locked, delivered, faults>>
    BY DEF ReceiveNew
  <1>2. k \in Keys /\ me[c].payload \in Payloads /\ me[c] \in Locals
    BY <1>1 DEF Knows
  <1>3. nextId \in Ids /\ nextId' \in 1..(MaxIds + 1)
    BY <1>1, FormalAssumption DEF Ids
  <1>4. /\ run \in Rows /\ run # None /\ run.payload = me[c].payload /\ run.state = "RECEIVED"
        /\ run.version = 0 /\ run.final = None
    BY <1>2, <1>3, NewRunOK
  <1> HIDE DEF run
  <1>5. /\ l \in Locals /\ l.pc = "freeze" /\ l.key = k /\ l.payload = me[c].payload /\ l.run = run
    BY <1>2, <1>4 DEF Locals, Labels
  <1> HIDE DEF l
  <1>6. inserting'[k] = c /\ inserting' \in [Keys -> Callers \cup {None}]
    BY <1>1, <1>2
  <1>7. Knows(c, l, rows, inserting', locked')
    BY <1>1, <1>2, <1>4, <1>5, <1>6 DEF Knows
  <1>8. None \notin Callers
    BY FormalAssumption
  <1>9. OthersHold(c)
    BY <1>1, <1>2, <1>8 DEF OthersHold, tables
  <1> HIDE DEF k
  <1> QED BY <1>1, <1>3, <1>5, <1>6, <1>7, <1>9, LocalStep

\* A run read back keeps identity, state and version of its row.
LEMMA FromRowOK ==
    ASSUME NEW row \in Rows
    PROVE  /\ FromRow(row) \in Rows /\ FromRow(row) # None
           /\ FromRow(row).payload = row.payload /\ FromRow(row).id = row.id
           /\ FromRow(row).state = row.state /\ FromRow(row).version = row.version
           /\ FromRow(row).bundle = row.bundle /\ FromRow(row).final = row.final
  BY NoneIsNoRow DEF FromRow, Rows

\* The key exists: the transaction ends without a write.
LEMMA ReceiveKnownStep ==
    ASSUME InductiveInvariant, NEW c \in Callers, ReceiveKnown(c)
    PROVE  InductiveInvariant'
  <1> USE Facts
  <1> DEFINE k == me[c].key
             run == FromRow(rows[k])
             l == [me[c] EXCEPT !.pc = "reread", !.run = run]
  <1>1. me[c].pc = "receive" /\ rows[k] # None /\ k \in Keys /\ me[c] \in Locals
    BY DEF ReceiveKnown, Knows
  <1>2. CASE rows[k].payload # me[c].payload
    BY <1>2, RefuseStep DEF ReceiveKnown
  <1>3. CASE rows[k].payload = me[c].payload
    <2>1. rows[k] \in Rows /\ rows[k].state # "RECEIVED"
      BY <1>1 DEF OnlySettledRuns
    <2>2. me' = [me EXCEPT ![c] = l] /\ UNCHANGED <<tables, inserting, locked, delivered, nextId, faults>>
      BY <1>3, <2>1 DEF ReceiveKnown
    <2>3. run \in Rows
      BY <2>1, FromRowOK
    <2> HIDE DEF run
    <2>4. l \in Locals /\ l.pc = "reread" /\ l.key = k /\ l.payload = me[c].payload
      BY <1>1, <2>3 DEF Locals, Labels
    <2> HIDE DEF l
    <2>5. Knows(c, l, rows, inserting', locked')
      BY <1>1, <1>3, <2>4 DEF Knows
    <2>6. OthersHold(c)
      BY <2>2 DEF OthersHold, tables
    <2> QED BY <2>2, <2>4, <2>5, <2>6, LocalStep
  <1> QED BY <1>2, <1>3

\* The handler reads the row another one committed.
LEMMA RereadStep ==
    ASSUME InductiveInvariant, NEW c \in Callers, Reread(c)
    PROVE  InductiveInvariant'
  <1> USE Facts
  <1> DEFINE k == me[c].key
             run == FromRow(rows[k])
             pc == IF Finished(rows[k]) THEN "reply" ELSE "lock"
             answer == IF Finished(rows[k]) THEN rows[k].final ELSE None
             l == [me[c] EXCEPT !.pc = pc, !.run = run, !.answer = answer]
  <1>1. /\ me[c].pc = "reread" /\ me[c] \in Locals /\ k \in Keys /\ me[c].payload \in Payloads
        /\ rows[k] # None /\ rows[k].payload = me[c].payload
    BY DEF Reread, Knows
  <1>2. me' = [me EXCEPT ![c] = l] /\ UNCHANGED <<tables, inserting, locked, delivered, nextId, faults>>
    BY DEF Reread
  <1>3. rows[k] \in Rows /\ run \in Rows /\ answer \in Responses \cup {None}
    BY <1>1, FromRowOK DEF Rows
  <1>4. pc \in {"reply", "lock"} /\ (pc = "reply" => Finished(rows[k]) /\ answer = rows[k].final)
    OBVIOUS
  <1> HIDE DEF run, pc, answer
  <1>5. l \in Locals /\ l.pc = pc /\ l.key = k /\ l.payload = me[c].payload /\ l.answer = answer
    BY <1>1, <1>3, <1>4 DEF Locals, Labels
  <1> HIDE DEF l
  <1>6. Knows(c, l, rows, inserting', locked')
    BY <1>1, <1>4, <1>5 DEF Knows
  <1>7. OthersHold(c)
    BY <1>2 DEF OthersHold, tables
  <1> QED BY <1>2, <1>5, <1>6, <1>7, LocalStep

\* DecisionRun.transition keeps the identity and counts the version.
LEMMA TransitionOK ==
    ASSUME NEW run \in Rows, NEW s \in States
    PROVE  /\ Transition(run, s) \in Rows /\ Transition(run, s) # None
           /\ Transition(run, s).state = s /\ Transition(run, s).version = run.version + 1
           /\ Transition(run, s).payload = run.payload /\ Transition(run, s).id = run.id
           /\ Transition(run, s).bundle = run.bundle /\ Transition(run, s).final = run.final
  <1> DEFINE n == run.version + 1
             new == [run EXCEPT !.state = s, !.version = n]
  <1>1. n \in Nat /\ Transition(run, s) = new
    BY DEF Rows, Transition
  <1> HIDE DEF n
  <1>2. /\ new \in Rows /\ new.state = s /\ new.version = n /\ new.payload = run.payload
        /\ new.id = run.id /\ new.bundle = run.bundle /\ new.final = run.final
    BY <1>1 DEF Rows
  <1> HIDE DEF new
  <1> QED BY <1>1, <1>2, NoneIsNoRow DEF n

\* The commit of a frozen run under its key.
LEMMA FreezeStep ==
    ASSUME InductiveInvariant, NEW c \in Callers, NEW e \in Evidence, Freeze(c, e)
    PROVE  InductiveInvariant' /\ (\A m \in Keys : RowStep(m)) /\ UNCHANGED delivered
  <1> USE Facts
  <1> DEFINE k == me[c].key
             row == Transition([me[c].run EXCEPT !.bundle = e, !.ready = TRUE], "BUNDLE_FROZEN")
             l == [me[c] EXCEPT !.pc = "lock", !.run = row, !.tx = None]
  <1>1. /\ me[c].pc = "freeze" /\ me[c] \in Locals /\ k \in Keys /\ me[c].payload \in Payloads
        /\ inserting[k] = c /\ rows[k] = None
        /\ me[c].run # None /\ me[c].run.payload = me[c].payload
        /\ me[c].run.version = 0 /\ me[c].run.final = None
    BY DEF Freeze, Knows
  <1>2. /\ rows' = [rows EXCEPT ![k] = row] /\ inserting' = Own(inserting, c)
        /\ me' = [me EXCEPT ![c] = l]
        /\ UNCHANGED <<outbox, lineage, snapshots, locked, delivered, nextId, faults>>
    BY DEF Freeze
  <1>3. me[c].run \in Rows /\ e # None
    BY <1>1, FormalAssumption DEF Locals
  <1>4. /\ row \in Rows /\ row.payload = me[c].payload /\ row.state = "BUNDLE_FROZEN"
        /\ row.version = 1 /\ row.bundle = e /\ row.final = None
    <2> DEFINE run == [me[c].run EXCEPT !.bundle = e, !.ready = TRUE]
    <2>1. /\ run \in Rows /\ run.payload = me[c].payload /\ run.version = 0
          /\ run.bundle = e /\ run.final = None
      BY <1>1, <1>3 DEF Rows
    <2> HIDE DEF run
    <2>2. Transition(run, "BUNDLE_FROZEN").version = 1
      BY <2>1 DEF Transition, Rows
    <2> QED BY <2>1, <2>2, TransitionOK DEF States, run
  <1>5. row # None
    BY <1>4, NoneIsNoRow
  <1> HIDE DEF row
  <1>6. l \in Locals /\ l.pc = "lock" /\ l.key = k /\ l.payload = me[c].payload
    BY <1>1, <1>4 DEF Locals, Labels
  <1> HIDE DEF l
  <1>7. /\ rows' \in [Keys -> Rows \cup {None}] /\ rows'[k] = row
        /\ \A m \in Keys : m # k => rows'[m] = rows[m]
    BY <1>1, <1>2, <1>4
  <1>8. inserting' \in [Keys -> Callers \cup {None}]
    BY <1>2 DEF Own
  <1>9. Knows(c, l, rows', inserting', locked')
    BY <1>1, <1>4, <1>5, <1>6, <1>7 DEF Knows
  <1>10. Kept
    BY <1>1, <1>7 DEF Kept
  <1>11. ASSUME NEW d \in Callers, NEW m \in Keys, d # c
         PROVE  /\ inserting[m] = d /\ rows[m] = None => inserting'[m] = d /\ rows'[m] = rows[m]
                /\ locked[m] = d /\ rows[m] # None => locked'[m] = d /\ rows'[m] = rows[m]
    <2>1. CASE m = k
      BY <1>1, <2>1, <1>11
    <2>2. CASE m # k
      BY <1>2, <1>7, <1>11, <2>2 DEF Own
    <2> QED BY <2>1, <2>2
  <1>12. OthersHold(c)
    BY <1>11 DEF OthersHold
  <1>13. OnlySettledRuns'
    BY <1>3, <1>4, <1>7 DEF OnlySettledRuns
  <1>14. AuthorizationIsGoverned'
    BY <1>4, <1>7 DEF AuthorizationIsGoverned
  <1>15. DeliveredOK'
    BY <1>1, <1>2, <1>7 DEF DeliveredOK, Finished, Answers
  <1>16. AtomicFinalization'
    BY <1>1, <1>2, <1>4, <1>7 DEF AtomicFinalization, Finished
  <1>17. \A m \in Keys : RowStep(m)
    BY <1>1, <1>4, <1>5, <1>7 DEF RowStep
  <1> QED BY <1>2, <1>6, <1>7, <1>8, <1>9, <1>10, <1>12, <1>13, <1>14, <1>15, <1>16, <1>17, CallerStep

----------------------------------------------------------------------------
(* Second transaction.                                                     *)

\* SELECT ... FOR UPDATE takes the row lock.
LEMMA LockRunStep ==
    ASSUME InductiveInvariant, NEW c \in Callers, LockRun(c)
    PROVE  InductiveInvariant'
  <1> USE Facts
  <1> DEFINE k == me[c].key
             run == FromRow(rows[k])
  <1>1. /\ me[c].pc = "lock" /\ me[c] \in Locals /\ k \in Keys /\ me[c].payload \in Payloads
        /\ rows[k] # None /\ rows[k].payload = me[c].payload /\ locked[k] = None
        /\ UNCHANGED <<tables, inserting, delivered, nextId, faults>>
    BY DEF LockRun, Knows
  <1>2. /\ rows[k] \in Rows /\ run \in Rows /\ run # None /\ run.payload = me[c].payload
        /\ run.id = rows[k].id /\ run.bundle = rows[k].bundle /\ run.state = rows[k].state
        /\ run.version = rows[k].version /\ run.final = rows[k].final
    BY <1>1, FromRowOK
  <1>3. CASE Finished(rows[k])
    <2> DEFINE l == [me[c] EXCEPT !.pc = "reply", !.answer = rows[k].final, !.run = run]
    <2>1. me' = [me EXCEPT ![c] = l] /\ UNCHANGED locked
      BY <1>3 DEF LockRun
    <2>2. rows[k].final \in Responses \cup {None}
      BY <1>2 DEF Rows
    <2> HIDE DEF run
    <2>3. /\ l \in Locals /\ l.pc = "reply" /\ l.key = k /\ l.payload = me[c].payload
          /\ l.answer = rows[k].final
      BY <1>1, <1>2, <2>2 DEF Locals, Labels
    <2> HIDE DEF l
    <2>4. Knows(c, l, rows, inserting', locked')
      BY <1>1, <1>3, <2>3 DEF Knows
    <2>5. OthersHold(c)
      BY <1>1, <2>1 DEF OthersHold, tables
    <2> QED BY <1>1, <2>1, <2>3, <2>4, <2>5, LocalStep
  <1>4. CASE ~Finished(rows[k])
    <2> DEFINE l == [me[c] EXCEPT !.pc = "calculate", !.run = run]
    <2>1. me' = [me EXCEPT ![c] = l] /\ locked' = [locked EXCEPT ![k] = c]
      BY <1>4 DEF LockRun
    <2>2. rows[k].state = "BUNDLE_FROZEN" /\ rows[k].version = 1 /\ rows[k].final = None
      BY <1>1, <1>4 DEF OnlySettledRuns, Finished
    <2> HIDE DEF run
    <2>3. l \in Locals /\ l.pc = "calculate" /\ l.key = k /\ l.payload = me[c].payload /\ l.run = run
      BY <1>1, <1>2 DEF Locals, Labels
    <2> HIDE DEF l
    <2>4. locked'[k] = c /\ locked' \in [Keys -> Callers \cup {None}]
      BY <1>1, <2>1
    <2>5. Knows(c, l, rows, inserting', locked')
      BY <1>1, <1>2, <2>2, <2>3, <2>4 DEF Knows
    <2>6. None \notin Callers
      BY FormalAssumption
    <2>7. OthersHold(c)
      BY <1>1, <2>1, <2>6 DEF OthersHold, tables
    <2> QED BY <1>1, <2>1, <2>3, <2>4, <2>5, <2>7, LocalStep
  <1> QED BY <1>3, <1>4

\* The calculation changes nothing that is shared.
LEMMA CalculateStep ==
    ASSUME InductiveInvariant, NEW c \in Callers, NEW x \in Calculations, Calculate(c, x)
    PROVE  InductiveInvariant'
  <1> USE Facts
  <1> DEFINE l == [me[c] EXCEPT !.pc = "advance", !.calc = x]
  <1>1. /\ me[c].pc = "calculate" /\ me[c] \in Locals /\ me' = [me EXCEPT ![c] = l]
        /\ UNCHANGED <<tables, inserting, locked, delivered, nextId, faults>>
    BY DEF Calculate
  <1>2. /\ l \in Locals /\ l.pc = "advance" /\ l.key = me[c].key /\ l.payload = me[c].payload
        /\ l.run = me[c].run /\ l.calc = x /\ x # None
    BY <1>1, FormalAssumption DEF Locals, Labels
  <1> HIDE DEF l
  <1>3. Knows(c, l, rows, inserting', locked')
    BY <1>1, <1>2 DEF Knows, Stages
  <1>4. OthersHold(c)
    BY <1>1 DEF OthersHold, tables
  <1> QED BY <1>1, <1>2, <1>3, <1>4, LocalStep

\* The stages follow each other, and GOVERNED is the fourth version.
LEMMA NextStage ==
    ASSUME NEW run \in Rows, <<run.state, run.version>> \in Stages,
           NEW s \in Transitions[run.state] \ {"FINALIZED"}
    PROVE  /\ s \in States
           /\ s = "GOVERNED" => run.version + 1 = 4
           /\ s # "GOVERNED" => <<s, run.version + 1>> \in Stages
  BY DEF Stages, Transitions, States, Rows

\* One transition of the run inside the second transaction.
LEMMA AdvanceStep ==
    ASSUME InductiveInvariant, NEW c \in Callers, Advance(c)
    PROVE  InductiveInvariant'
  <1> USE Facts
  <1> DEFINE k == me[c].key
  <1>1. /\ me[c].pc = "advance" /\ me[c] \in Locals /\ k \in Keys /\ me[c].payload \in Payloads
        /\ me[c].run # None /\ <<me[c].run.state, me[c].run.version>> \in Stages
        /\ UNCHANGED <<tables, inserting, locked, delivered, nextId, faults>>
    BY DEF Advance, Knows
  <1>2. me[c].run \in Rows
    BY <1>1 DEF Locals
  <1>3. PICK s \in Transitions[me[c].run.state] \ {"FINALIZED"} :
            me' = [me EXCEPT ![c].run = Transition(me[c].run, s), ![c].tx = Transition(me[c].run, s),
                             ![c].pc = IF s = "GOVERNED" THEN "finalize" ELSE "advance"]
    BY DEF Advance
  <1> DEFINE run == Transition(me[c].run, s)
             pc == IF s = "GOVERNED" THEN "finalize" ELSE "advance"
             l == [me[c] EXCEPT !.run = run, !.tx = run, !.pc = pc]
  <1>4. me' = [me EXCEPT ![c] = l]
    BY <1>3
  <1>5. /\ s \in States /\ (s = "GOVERNED" => me[c].run.version + 1 = 4)
        /\ (s # "GOVERNED" => <<s, me[c].run.version + 1>> \in Stages)
    BY <1>1, <1>2, NextStage
  <1>6. /\ run \in Rows /\ run # None /\ run.state = s /\ run.version = me[c].run.version + 1
        /\ run.payload = me[c].run.payload /\ run.id = me[c].run.id
        /\ run.bundle = me[c].run.bundle /\ run.final = me[c].run.final
    BY <1>2, <1>5, TransitionOK
  <1>7. pc \in {"finalize", "advance"} /\ (pc = "finalize" <=> s = "GOVERNED")
    OBVIOUS
  <1> HIDE DEF run, pc
  <1>8. /\ l \in Locals /\ l.pc = pc /\ l.key = k /\ l.payload = me[c].payload
        /\ l.run = run /\ l.calc = me[c].calc
    BY <1>1, <1>6, <1>7 DEF Locals, Labels
  <1> HIDE DEF l
  <1>9. Knows(c, l, rows, inserting', locked')
    BY <1>1, <1>5, <1>6, <1>7, <1>8 DEF Knows
  <1>10. OthersHold(c)
    BY <1>1 DEF OthersHold, tables
  <1> QED BY <1>1, <1>4, <1>8, <1>9, <1>10, LocalStep

\* A bundle without full lineage rolls the second transaction back.
LEMMA LineageMissingStep ==
    ASSUME InductiveInvariant, NEW c \in Callers, LineageMissing(c)
    PROVE  InductiveInvariant'
  BY Facts, RefuseStep DEF LineageMissing

\* The answer is the committed response.
LEMMA ReplyStep ==
    ASSUME InductiveInvariant, NEW c \in Callers, Reply(c)
    PROVE  InductiveInvariant'
  <1> USE Facts
  <1> DEFINE k == me[c].key
             a == [key |-> k, payload |-> me[c].payload, response |-> me[c].answer]
  <1>1. /\ me[c].pc = "reply" /\ me[c] \in Locals /\ k \in Keys /\ me[c].payload \in Payloads
        /\ rows[k] # None /\ rows[k].payload = me[c].payload
        /\ Finished(rows[k]) /\ me[c].answer = rows[k].final
    BY DEF Reply, Knows
  <1>2. /\ delivered' = delivered \cup {a} /\ me' = [me EXCEPT ![c] = Idle]
        /\ UNCHANGED <<tables, inserting, locked, nextId, faults>>
    BY DEF Reply
  <1>3. a \in Answers /\ a.key = k /\ a.payload = me[c].payload /\ a.response = rows[k].final
    BY <1>1 DEF Answers, Locals, Finished
  <1> HIDE DEF a
  <1>4. Kept /\ OthersHold(c) /\ rows' = rows
    BY <1>2 DEF Kept, OthersHold, tables
  <1>5. DeliveredOK'
    BY <1>1, <1>2, <1>3, <1>4 DEF DeliveredOK
  <1>6. AtomicFinalization' /\ OnlySettledRuns' /\ AuthorizationIsGoverned'
    BY <1>2 DEF tables, AtomicFinalization, OnlySettledRuns, AuthorizationIsGoverned, Finished
  <1> QED BY <1>2, <1>3, <1>4, <1>5, <1>6, IdleOK, CallerStep DEF tables

\* An authorization needs the policy's approval, a positive target weight, which
\* a veto takes away, and complete lineage.
LEMMA FormalizeOK ==
    ASSUME NEW run \in Rows, run.bundle \in Complete, NEW x \in Calculations
    PROVE  LET r == Formalize(run, x) IN
           /\ r \in Responses /\ r # None /\ r.id = run.id /\ r.evidence = run.bundle
           /\ r.eligible => r.governed /\ r.status = "APPROVED"
  <1>1. x \in AllCalculations /\ run.id \in Ids /\ run.bundle \in Evidence
    BY FormalAssumption DEF Rows
  <1>2. Status(x) \in {"HOLD", "REJECTED", "APPROVED"}
    BY DEF Status
  <1>3. Eligible(x) \in BOOLEAN /\ (~Vetoed(x)) \in BOOLEAN
    BY DEF Eligible, Vetoed
  <1>4. Eligible(x) => ~Vetoed(x) /\ Status(x) = "APPROVED"
    BY <1>1 DEF Eligible, FinalizerAccepts, TargetWeight, AllCalculations
  <1> HIDE DEF Eligible, Vetoed, Status
  <1>5. Formalize(run, x) \in Responses
    BY <1>1, <1>2, <1>3 DEF Formalize, Responses
  <1> QED BY <1>4, <1>5, FormalAssumption DEF Formalize

\* The commit of a finalized run with its lineage, snapshot and event.
LEMMA FinalizeStep ==
    ASSUME InductiveInvariant, NEW c \in Callers, Finalize(c)
    PROVE  InductiveInvariant' /\ (\A m \in Keys : RowStep(m)) /\ UNCHANGED delivered
  <1> USE Facts
  <1> DEFINE k == me[c].key
             run == me[c].run
             response == Formalize(run, me[c].calc)
             staged == [run EXCEPT !.final = response]
             row == Transition(staged, "FINALIZED")
             l == [me[c] EXCEPT !.pc = "reply", !.answer = response, !.tx = None]
  <1>1. /\ me[c].pc = "finalize" /\ me[c] \in Locals /\ k \in Keys /\ me[c].payload \in Payloads
        /\ rows[k] # None /\ rows[k].payload = me[c].payload
        /\ locked[k] = c /\ rows[k].state = "BUNDLE_FROZEN"
        /\ run # None /\ run.payload = me[c].payload /\ run.id = rows[k].id
        /\ run.bundle = rows[k].bundle /\ run.version = 4 /\ me[c].calc # None
    BY DEF Finalize, Knows
  <1>2. /\ run.bundle \in Complete
        /\ rows' = [rows EXCEPT ![k] = row]
        /\ outbox' = outbox \cup {run.id} /\ lineage' = lineage \cup {run.id}
        /\ snapshots' = snapshots \cup {run.id} /\ locked' = Own(locked, c)
        /\ me' = [me EXCEPT ![c] = l] /\ UNCHANGED <<inserting, delivered, nextId, faults>>
    BY DEF Finalize
  <1>3. run \in Rows /\ me[c].calc \in Calculations
    BY <1>1 DEF Locals
  <1>4. /\ response \in Responses /\ response # None /\ response.id = run.id
        /\ response.evidence = run.bundle
        /\ response.eligible => response.governed /\ response.status = "APPROVED"
    BY <1>2, <1>3, FormalizeOK
  <1> HIDE DEF response
  <1>5. /\ staged \in Rows /\ staged.payload = run.payload /\ staged.id = run.id
        /\ staged.version = 4 /\ staged.bundle = run.bundle /\ staged.final = response
    BY <1>1, <1>3, <1>4 DEF Rows
  <1> HIDE DEF staged
  <1>6. /\ row \in Rows /\ row # None /\ row.payload = run.payload /\ row.id = run.id
        /\ row.state = "FINALIZED" /\ row.version = 5 /\ row.bundle = run.bundle
        /\ row.final = response
    BY <1>5, TransitionOK DEF States
  <1> HIDE DEF row
  <1>7. /\ l \in Locals /\ l.pc = "reply" /\ l.key = k /\ l.payload = me[c].payload
        /\ l.answer = response
    BY <1>1, <1>4 DEF Locals, Labels
  <1> HIDE DEF l
  <1>8. /\ rows' \in [Keys -> Rows \cup {None}] /\ rows'[k] = row
        /\ \A m \in Keys : m # k => rows'[m] = rows[m]
    BY <1>1, <1>2, <1>6
  <1>9. /\ locked' \in [Keys -> Callers \cup {None}]
        /\ outbox' \subseteq Ids /\ lineage' \subseteq Ids /\ snapshots' \subseteq Ids
    BY <1>2, <1>3 DEF Own, Rows
  <1>10. Finished(row) /\ ~Finished(rows[k])
    BY <1>1, <1>4, <1>6 DEF Finished
  <1>11. Kept
    BY <1>1, <1>6, <1>8, <1>10 DEF Kept
  <1>12. ASSUME NEW d \in Callers, NEW m \in Keys, d # c
         PROVE  /\ inserting[m] = d /\ rows[m] = None => inserting'[m] = d /\ rows'[m] = rows[m]
                /\ locked[m] = d /\ rows[m] # None => locked'[m] = d /\ rows'[m] = rows[m]
    <2>1. CASE m = k
      BY <1>1, <2>1, <1>12
    <2>2. CASE m # k
      BY <1>2, <1>8, <1>12, <2>2 DEF Own
    <2> QED BY <2>1, <2>2
  <1>13. OthersHold(c)
    BY <1>12 DEF OthersHold
  <1>14. Knows(c, l, rows', inserting', locked')
    BY <1>1, <1>6, <1>7, <1>8, <1>10 DEF Knows
  <1>15. OnlySettledRuns'
    <2>1. row.bundle # None
      BY <1>2, <1>6, FormalAssumption
    <2> QED BY <1>4, <1>6, <1>8, <2>1 DEF OnlySettledRuns
  <1>16. AuthorizationIsGoverned'
    BY <1>2, <1>4, <1>6, <1>8 DEF AuthorizationIsGoverned
  <1>17. DeliveredOK'
    BY <1>2, <1>8, <1>10 DEF DeliveredOK, Answers
  <1>18. AtomicFinalization'
    <2>1. ASSUME NEW m \in Keys, rows'[m] # None, rows'[m].state = "FINALIZED"
          PROVE  rows'[m].id \in outbox' \cap lineage' \cap snapshots'
      BY <1>2, <1>6, <1>8, <2>1 DEF AtomicFinalization
    <2>2. ASSUME NEW id \in outbox' \cup lineage' \cup snapshots'
          PROVE  \E m \in Keys : rows'[m] # None /\ rows'[m].id = id /\ Finished(rows'[m])
      <3>1. CASE id = run.id
        BY <1>1, <1>6, <1>8, <1>10, <3>1
      <3>2. CASE id # run.id
        <4>1. id \in outbox \cup lineage \cup snapshots
          BY <1>2, <3>2
        <4>2. PICK m \in Keys : rows[m] # None /\ rows[m].id = id /\ Finished(rows[m])
          BY <4>1 DEF AtomicFinalization
        <4> QED BY <1>11, <4>2 DEF Kept
      <3> QED BY <3>1, <3>2
    <2> QED BY <2>1, <2>2 DEF AtomicFinalization, Finished
  <1>19. \A m \in Keys : RowStep(m)
    BY <1>1, <1>4, <1>6, <1>8 DEF RowStep, OnlySettledRuns
  <1> QED BY <1>2, <1>7, <1>8, <1>9, <1>11, <1>13, <1>14, <1>15, <1>16, <1>17, <1>18, <1>19, CallerStep

----------------------------------------------------------------------------
(* The specification.                                                      *)

\* Empty tables.
LEMMA InitOK == Init => InductiveInvariant
  <1> SUFFICES ASSUME Init PROVE InductiveInvariant
    OBVIOUS
  <1>1. TypeOK
    BY IdleOK, FormalAssumption DEF Init, TypeOK
  <1>2. AtomicFinalization /\ OnlySettledRuns /\ AuthorizationIsGoverned /\ DeliveredOK
    BY DEF Init, AtomicFinalization, OnlySettledRuns, AuthorizationIsGoverned, DeliveredOK
  <1>3. \A c \in Callers : Knows(c, me[c], rows, inserting, locked)
    BY IdleOK DEF Init
  <1> QED BY <1>1, <1>2, <1>3 DEF InductiveInvariant

\* A step that changes nothing.
LEMMA StutterOK ==
    ASSUME InductiveInvariant, UNCHANGED vars PROVE InductiveInvariant'
  BY DEF vars, InductiveInvariant, TypeOK, AtomicFinalization, OnlySettledRuns,
     AuthorizationIsGoverned, DeliveredOK, Finished

\* One case per action.
LEMMA NextOK == InductiveInvariant /\ [Next]_vars => InductiveInvariant'
  <1> SUFFICES ASSUME InductiveInvariant, [Next]_vars PROVE InductiveInvariant'
    OBVIOUS
  <1>1. CASE UNCHANGED vars
    BY <1>1, StutterOK
  <1>2. ASSUME NEW c \in Callers, Step(c) PROVE InductiveInvariant'
    BY <1>2, GateOpenStep, ReceiveNewStep, ReceiveKnownStep, FreezeStep, RereadStep, LockRunStep,
       CalculateStep, AdvanceStep, LineageMissingStep, FinalizeStep, ReplyStep DEF Step
  <1> QED BY <1>1, <1>2, AskStep, Failures DEF Next

\* The inductive invariant holds in every reachable state.
THEOREM Invariance == Spec => []InductiveInvariant
  BY InitOK, NextOK, PTL DEF Spec

\* The tables, the locks and the handlers' locals keep their types.
THEOREM TypeCorrect == Spec => []TypeOK
  <1>1. InductiveInvariant => TypeOK
    BY DEF InductiveInvariant
  <1> QED BY <1>1, Invariance, PTL

\* A decision is in the outbox, the lineage and the snapshots exactly when its
\* run is FINALIZED.
THEOREM FinalizationIsAtomic == Spec => []AtomicFinalization
  <1>1. InductiveInvariant => AtomicFinalization
    BY DEF InductiveInvariant
  <1> QED BY <1>1, Invariance, PTL

\* A committed run is frozen or finalized, never between.
THEOREM RunsAreSettled == Spec => []OnlySettledRuns
  <1>1. InductiveInvariant => OnlySettledRuns
    BY DEF InductiveInvariant
  <1> QED BY <1>1, Invariance, PTL

\* A 200 answer goes to the request that its key stands for.
THEOREM RightRequest == Spec => []AnswersTheRequest
  <1>1. InductiveInvariant => AnswersTheRequest
    BY Facts DEF DeliveredOK, OnlySettledRuns, AnswersTheRequest, Answers, Finished
  <1> QED BY <1>1, Invariance, PTL

\* No two handlers calculate the same decision at the same time.
THEOREM CalculatorIsAlone == Spec => []OneCalculator
  <1>1. InductiveInvariant => OneCalculator
    <2> SUFFICES ASSUME InductiveInvariant, NEW c \in Callers, NEW d \in Callers,
                        Calculating(c), Calculating(d), me[c].key = me[d].key
                 PROVE  c = d
      BY DEF OneCalculator
    <2>1. locked[me[c].key] = c /\ locked[me[d].key] = d
      BY Facts DEF Knows, Calculating
    <2> QED BY <2>1
  <1> QED BY <1>1, Invariance, PTL

\* An authorization to execute is issued only for a governed decision.
THEOREM GovernedAuthorization == Spec => []AuthorizationIsGoverned
  <1>1. InductiveInvariant => AuthorizationIsGoverned
    BY DEF InductiveInvariant
  <1> QED BY <1>1, Invariance, PTL

----------------------------------------------------------------------------
(* Action properties.                                                      *)

\* A step freezes a run, finalizes one, or gives the answer of a finalized one.
LEMMA StepEffects ==
    ASSUME InductiveInvariant, [Next]_vars
    PROVE  /\ \A k \in Keys : RowStep(k)
           /\ \/ UNCHANGED delivered
              \/ \E a \in Answers :
                    /\ rows[a.key] # None /\ rows[a.key].final # None
                    /\ a.response = rows[a.key].final
                    /\ delivered' = delivered \cup {a} /\ UNCHANGED rows
  <1> USE Facts
  <1>1. CASE UNCHANGED <<rows, delivered>>
    BY <1>1 DEF RowStep
  <1>2. ASSUME NEW c \in Callers, Reply(c)
        PROVE  /\ UNCHANGED rows
               /\ \E a \in Answers :
                    /\ rows[a.key] # None /\ rows[a.key].final # None
                    /\ a.response = rows[a.key].final /\ delivered' = delivered \cup {a}
    <2> DEFINE a == [key |-> me[c].key, payload |-> me[c].payload, response |-> me[c].answer]
    <2>1. /\ me[c].key \in Keys /\ me[c].payload \in Payloads /\ me[c] \in Locals
          /\ rows[me[c].key] # None /\ Finished(rows[me[c].key])
          /\ me[c].answer = rows[me[c].key].final
      BY <1>2 DEF Reply, Knows
    <2>2. a \in Answers /\ a.key = me[c].key /\ a.response = me[c].answer
      BY <2>1 DEF Answers, Locals, Finished
    <2>3. delivered' = delivered \cup {a} /\ UNCHANGED rows
      BY <1>2 DEF Reply, tables
    <2> HIDE DEF a
    <2> QED BY <2>1, <2>2, <2>3 DEF Finished
  <1>3. ASSUME NEW c \in Callers, Refuse(c) PROVE UNCHANGED <<rows, delivered>>
    BY <1>3 DEF Refuse, Rollback, tables
  <1>4. ASSUME NEW c \in Callers, Failure(c) PROVE UNCHANGED <<rows, delivered>>
    BY <1>3, <1>4 DEF Failure, GateClosed, FreezeFails, CalculateFails, Crash
  <1>5. ASSUME NEW c \in Callers,
               \/ \E k \in Keys, p \in Payloads : Ask(c, k, p)
               \/ GateOpen(c) \/ ReceiveNew(c) \/ ReceiveKnown(c) \/ Reread(c) \/ LockRun(c)
               \/ \E x \in Calculations : Calculate(c, x)
               \/ Advance(c) \/ LineageMissing(c)
        PROVE  UNCHANGED <<rows, delivered>>
    BY <1>3, <1>5 DEF Ask, GateOpen, ReceiveNew, ReceiveKnown, Reread, LockRun, Calculate,
       Advance, LineageMissing, tables
  <1>6. CASE UNCHANGED vars
    BY <1>1, <1>6 DEF vars
  <1>7. UNCHANGED rows => \A k \in Keys : RowStep(k)
    BY DEF RowStep
  <1>8. CASE Next
    <2>1. PICK c \in Callers :
            (\E k \in Keys, p \in Payloads : Ask(c, k, p)) \/ Step(c) \/ Failure(c)
      BY <1>8 DEF Next
    <2>2. CASE Reply(c)
      BY <1>2, <1>7, <2>2
    <2>3. CASE \E e \in Evidence : Freeze(c, e)
      BY <2>3, FreezeStep
    <2>4. CASE Finalize(c)
      BY <2>4, FinalizeStep
    <2> QED BY <1>1, <1>4, <1>5, <2>1, <2>2, <2>3, <2>4 DEF Step
  <1> QED BY <1>6, <1>8

\* A committed run never goes back or away, and a finalized one never changes.
THEOREM RunsMoveForward == Spec => RunsOnlyMoveForward
  <1>1. ASSUME InductiveInvariant, [Next]_vars, NEW k \in Keys, rows[k] # None
        PROVE  /\ rows'[k] # None
               /\ rows'[k].payload = rows[k].payload /\ rows'[k].id = rows[k].id
               /\ rows'[k].bundle = rows[k].bundle
               /\ rows[k].version <= rows'[k].version
               /\ rows[k].state = "FINALIZED" => rows'[k] = rows[k]
    <2>1. RowStep(k) /\ rows[k] \in Rows
      BY <1>1, StepEffects, Facts
    <2> QED BY <1>1, <2>1 DEF RowStep, Rows
  <1>2. InductiveInvariant /\ [Next]_vars =>
          [\A k \in Keys : rows[k] # None =>
              /\ rows'[k] # None
              /\ rows'[k].payload = rows[k].payload /\ rows'[k].id = rows[k].id
              /\ rows'[k].bundle = rows[k].bundle
              /\ rows[k].version <= rows'[k].version
              /\ rows[k].state = "FINALIZED" => rows'[k] = rows[k]]_vars
    BY <1>1
  <1> QED BY <1>2, Invariance, PTL DEF Spec, RunsOnlyMoveForward

\* Each key implements DurableResult: one formal answer, chosen once, and no
\* other is ever given.
THEOREM AnswerIsDurable == Spec => OneAnswerPerKey
  <1>1. Init => \A k \in Keys : Promise(k)!Init
    <2>1. ASSUME Init, NEW k \in Keys PROVE ResultOf(k) = None /\ DeliveredOf(k) = {}
      BY <2>1 DEF Init, ResultOf, DeliveredOf
    <2> QED BY <2>1 DEF Promise!Init
  <1>2. ASSUME InductiveInvariant, [Next]_vars, NEW k \in Keys
        PROVE  [Promise(k)!Next]_<<ResultOf(k), DeliveredOf(k)>>
    <2>1. RowStep(k)
      BY <1>2, StepEffects
    <2>2. CASE UNCHANGED delivered
      <3>1. DeliveredOf(k)' = DeliveredOf(k)
        BY <2>2 DEF DeliveredOf
      <3>2. \/ ResultOf(k)' = ResultOf(k)
            \/ ResultOf(k) = None /\ ResultOf(k)' \in Responses
        BY <2>1 DEF RowStep, ResultOf
      <3> QED BY <3>1, <3>2 DEF Promise!Next, Promise!Choose
    <2>3. ASSUME NEW a \in Answers, rows[a.key] # None, rows[a.key].final # None,
                 a.response = rows[a.key].final, delivered' = delivered \cup {a}, UNCHANGED rows
          PROVE  [Promise(k)!Next]_<<ResultOf(k), DeliveredOf(k)>>
      <3>1. ResultOf(k)' = ResultOf(k)
        BY <2>3 DEF ResultOf
      <3>2. CASE a.key = k
        <4>1. ResultOf(k) = a.response /\ ResultOf(k) # None
          BY <2>3, <3>2 DEF ResultOf
        <4>2. DeliveredOf(k)' = {x.response : x \in {y \in delivered' : y.key = k}}
          BY DEF DeliveredOf
        <4>3. {y \in delivered \cup {a} : y.key = k} = {y \in delivered : y.key = k} \cup {a}
          BY <3>2
        <4>4. ASSUME NEW S PROVE {x.response : x \in S \cup {a}} = {x.response : x \in S} \cup {a.response}
          BY Zenon
        <4>5. DeliveredOf(k)' = DeliveredOf(k) \cup {a.response}
          BY <2>3, <4>2, <4>3, <4>4 DEF DeliveredOf
        <4> QED BY <3>1, <4>1, <4>5 DEF Promise!Next, Promise!Deliver
      <3>3. CASE a.key # k
        <4>1. {y \in delivered \cup {a} : y.key = k} = {y \in delivered : y.key = k}
          BY <3>3
        <4>2. DeliveredOf(k)' = {x.response : x \in {y \in delivered' : y.key = k}}
          BY DEF DeliveredOf
        <4>3. DeliveredOf(k)' = DeliveredOf(k)
          BY <2>3, <4>1, <4>2 DEF DeliveredOf
        <4> QED BY <3>1, <4>3
      <3> QED BY <3>2, <3>3
    <2> QED BY <1>2, <2>2, <2>3, StepEffects
  <1>3. InductiveInvariant /\ [Next]_vars =>
          [\A k \in Keys : [Promise(k)!Next]_<<ResultOf(k), DeliveredOf(k)>>]_vars
    BY <1>2
  <1> QED BY <1>1, <1>3, Invariance, PTL DEF Spec, OneAnswerPerKey

\* The second transaction is atomic, starts from a settled run and has one handler
\* inside, for any number of handlers, keys and faults.
THEOREM FinalizationSettles == Spec => []SettledAtomically
  <1>1. AtomicFinalization /\ OnlySettledRuns /\ OneCalculator => SettledAtomically
    BY DEF SettledAtomically
  <1> QED BY <1>1, FinalizationIsAtomic, RunsAreSettled, CalculatorIsAlone, PTL

\* Neither a committed run nor its answer is ever replaced.
THEOREM DecisionStands == Spec => DecisionsStand
  BY RunsMoveForward, AnswerIsDurable DEF DecisionsStand

===============================================================================
