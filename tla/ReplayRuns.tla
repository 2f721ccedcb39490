----------------------------- MODULE ReplayRuns -----------------------------
(***************************************************************************)
(* ReplayRunService.run_exact: one replay identity, its row of             *)
(* decision_replay_runs, and the services (each with its own owner id and  *)
(* its own in-memory copy of the run) whose threads replay it.             *)
(*                                                                         *)
(* A thread holds its service's lock from the look-up to the claim, and    *)
(* not while it calculates.  The calculation is pure, but each one draws   *)
(* the id of the discrepancy it reports, so a result is named by the       *)
(* token of the claim it was calculated under.  Time is the database's.    *)
(***************************************************************************)
EXTENDS Naturals

CONSTANTS
    Services,         \* service objects; a restarted one is another object
    Threads,          \* callers of run_exact
    ServiceOf,        \* the service a thread calls
    ReplayLease,      \* length of the lease (60 s)
    MaxClock,         \* bound on time
    MaxClaims,        \* bound on claims
    NoRun             \* no row, no result, no thread

ASSUME ReplayAssumption ==
    /\ ServiceOf \in [Threads -> Services]
    /\ ReplayLease \in Nat \ {0} /\ MaxClock \in Nat /\ MaxClaims \in Nat
    /\ NoRun \notin Services \cup Threads \cup Nat

VARIABLES
    row,           \* the row of the identity, or NoRun
    cached,         \* _runs of each service
    locked,        \* the thread that holds _lock of each service
    call,          \* where each thread is, and the run it works on
    clock          \* database time

replayVars == <<row, cached, locked, call, clock>>

\* A ReplayRun: its status, holder, fencing token, lease end and result.
Run(status, owner, token, expires, result) ==
    [status |-> status, owner |-> owner, token |-> token, expires |-> expires, result |-> result]

Runs == [status : {"RUNNING", "SUCCEEDED"}, owner : Services, token : Nat,
         expires : Nat, result : Nat \cup {NoRun}]

ASSUME NoRunIsNoRow == NoRun \notin Runs

Labels == {"idle", "claim", "calculate", "persist", "remember",
           "SUCCEEDED", "LEASE_BUSY", "FENCED", "ERROR"}

Resting == [pc |-> "idle", run |-> NoRun]

ReplayInit ==
    /\ row = NoRun
    /\ cached = [s \in Services |-> NoRun]
    /\ locked = [s \in Services |-> NoRun]
    /\ call = [t \in Threads |-> Resting]
    /\ clock = 0

\* What the service knows of the run: its copy, else the stored row.
Prior(s) == IF cached[s] # NoRun THEN cached[s] ELSE row

\* run_exact up to the claim: a finished run is answered from the copy or
\* the row; the lock is kept for the claim of any other.
LookUpRun(t) ==
    LET s == ServiceOf[t] IN
    /\ call[t].pc \in {"idle", "SUCCEEDED", "LEASE_BUSY", "FENCED", "ERROR"}
    /\ locked[s] = NoRun
    /\ cached' = [cached EXCEPT ![s] = Prior(s)]
    /\ IF Prior(s) # NoRun /\ Prior(s).status = "SUCCEEDED"
         THEN /\ call' = [call EXCEPT ![t] = [pc |-> "SUCCEEDED", run |-> Prior(s)]]
              /\ UNCHANGED locked
         ELSE /\ call' = [call EXCEPT ![t] = [pc |-> "claim", run |-> Prior(s)]]
              /\ locked' = [locked EXCEPT ![s] = t]
    /\ UNCHANGED <<row, clock>>

\* The UPDATE of _claim_persistent: an unfinished run whose lease has ended
\* or is the service's own (whichever of its threads took it).
Claimable(s) ==
    /\ row # NoRun
    /\ row.status # "SUCCEEDED"
    /\ row.expires <= clock \/ row.owner = s

\* The row after the UPDATE, or after the INSERT when there is none.
ClaimedRun(s) ==
    Run("RUNNING", s, IF row = NoRun THEN 1 ELSE row.token + 1, clock + ReplayLease, NoRun)

\* _claim_persistent: the claim is the copy from now on; otherwise the
\* caller is told LEASE_BUSY, whatever the row says.
ClaimRun(t) ==
    LET s == ServiceOf[t] IN
    /\ call[t].pc = "claim"
    /\ row # NoRun /\ Claimable(s) => row.token < MaxClaims
    /\ IF row = NoRun \/ Claimable(s)
         THEN /\ row' = ClaimedRun(s)
              /\ cached' = [cached EXCEPT ![s] = ClaimedRun(s)]
              /\ call' = [call EXCEPT ![t] = [pc |-> "calculate", run |-> ClaimedRun(s)]]
         ELSE /\ call' = [call EXCEPT ![t] = [@ EXCEPT !.pc = "LEASE_BUSY"]]
              /\ UNCHANGED <<row, cached>>
    /\ locked' = [locked EXCEPT ![s] = NoRun]
    /\ UNCHANGED clock

\* calculator(snapshot), outside the lock.
RunCalculator(t) ==
    /\ call[t].pc = "calculate"
    /\ call' = [call EXCEPT ![t] = [pc |-> "persist",
                    run |-> [@.run EXCEPT !.status = "SUCCEEDED", !.result = call[t].run.token]]]
    /\ UNCHANGED <<row, cached, locked, clock>>

\* The calculator raises: the lease stays, as does the copy.
CalculatorFails(t) ==
    /\ call[t].pc = "calculate"
    /\ call' = [call EXCEPT ![t] = [@ EXCEPT !.pc = "ERROR"]]
    /\ UNCHANGED <<row, cached, locked, clock>>

\* Mutant: the UPDATE finds the row by its id only.
Fences_Never(run) == FALSE

\* The WHERE of _persist: what makes it refuse a result.
Fences(run) ==
    \/ row.status = "SUCCEEDED"
    \/ row.owner # run.owner \/ row.token # run.token
    \/ row.expires <= clock

\* _persist: the result is stored, or the caller is told it was fenced.
Persist(t) ==
    LET run == call[t].run IN
    /\ call[t].pc = "persist"
    /\ IF Fences(run)
         THEN /\ call' = [call EXCEPT ![t] = [@ EXCEPT !.pc = "FENCED"]]
              /\ UNCHANGED row
         ELSE /\ call' = [call EXCEPT ![t] = [@ EXCEPT !.pc = "remember"]]
              /\ row' = [row EXCEPT !.status = "SUCCEEDED", !.result = run.result]
    /\ UNCHANGED <<cached, locked, clock>>

\* The copy of a stored result, once the lock is free.
Remember(t) ==
    LET s == ServiceOf[t] IN
    /\ call[t].pc = "remember"
    /\ locked[s] = NoRun
    /\ cached' = [cached EXCEPT ![s] = call[t].run]
    /\ call' = [call EXCEPT ![t] = [@ EXCEPT !.pc = "SUCCEEDED"]]
    /\ UNCHANGED <<row, locked, clock>>

Tick ==
    /\ clock < MaxClock
    /\ clock' = clock + 1
    /\ UNCHANGED <<row, cached, locked, call>>

ReplayStep(t) ==
    \/ LookUpRun(t) \/ ClaimRun(t)
    \/ RunCalculator(t) \/ CalculatorFails(t)
    \/ Persist(t) \/ Remember(t)

ReplayNext == Tick \/ \E t \in Threads : ReplayStep(t)

ReplaySpec == ReplayInit /\ [][ReplayNext]_replayVars

----------------------------------------------------------------------------

\* The variables keep their types.
ReplayTypeOK ==
    /\ row \in Runs \cup {NoRun}
    /\ cached \in [Services -> Runs \cup {NoRun}]
    /\ locked \in [Services -> Threads \cup {NoRun}]
    /\ call \in [Threads -> [pc : Labels, run : Runs \cup {NoRun}]]
    /\ clock \in Nat

\* Every thread that is answered SUCCEEDED, whichever service it asked and
\* whether it calculated, read the row or was given the service's copy, is
\* given the one stored result; a second calculation, by a thread that took
\* an expired lease or shared its service's, is never reported.
OneReplayResult ==
    \A t \in Threads : call[t].pc \in {"SUCCEEDED", "remember"} =>
        row # NoRun /\ row.status = "SUCCEEDED" /\ call[t].run.result = row.result

\* A finished run is never claimed again nor its result replaced.
FinishedRunIsFinal ==
    [][row # NoRun /\ row.status = "SUCCEEDED" => row' = row]_replayVars
=============================================================================
