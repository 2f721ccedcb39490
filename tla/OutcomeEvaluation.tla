-------------------------- MODULE OutcomeEvaluation --------------------------
(***************************************************************************)
(* Evaluating the outcome of one decision: the lease row of its snapshot   *)
(* in decision_outcome_runs, the outcome records the quant provider saves, *)
(* and the processes that evaluate - job workers, whose result cache lives *)
(* as long as the process, and API requests, which start with an empty one *)
(* and save the answer again.                                              *)
(*                                                                         *)
(* Each database transaction and each provider call is one action.  Time   *)
(* is the flag lapsed of the row: lease_expires_at has passed.  The lease  *)
(* of a process at work lapses only if it is slower than the lease (a      *)
(* fault); the lease of a process that gave up or died lapses by itself.   *)
(***************************************************************************)
EXTENDS Naturals

CONSTANTS
    Workers,       \* job worker processes
    Requests,      \* API processes handling a refresh
    Owner,         \* owner_id of each; the workers of a host share it
    Windows,       \* (horizon, measured_at) an evaluation may ask for
    Observations,  \* market data the quant service may report for a window
    MaxClaims,     \* no evaluation starts once the lease was claimed so often
    MaxFaults,     \* bound on slow holders, crashes and provider failures
    None

Procs == Workers \cup Requests

ASSUME OutcomeAssumption ==
    /\ MaxClaims \in Nat /\ MaxFaults \in Nat
    /\ Workers \cap Requests = {}

\* A measured outcome; frozen once the service has added the identity of the
\* market data to its attribution.
Outcomes == [window : Windows, seen : Observations, frozen : BOOLEAN]

ASSUME NoneIsNoOutcome ==
    /\ None \notin Outcomes /\ None \notin Windows
    /\ None \notin {Owner[p] : p \in Procs}

VARIABLES
    run,      \* the row of decision_outcome_runs
    saved,    \* the outcome records by their stable id, which names the window
    cache,    \* OutcomeLeaseRepository._results of each process
    me,       \* local state of each evaluation
    answers,  \* <<process, window asked for, outcome answered>>
    refused,  \* <<process, window asked for>> of requests refused on saving
    faults

vars == <<run, saved, cache, me, answers, refused, faults>>

NoRun == [status |-> "NONE", owner |-> None, token |-> 0, lapsed |-> FALSE, result |-> None]

Labels == {"idle", "result", "claim", "lookup", "fetch", "save", "complete", "publish", "dead"}

Idle == [pc |-> "idle", window |-> None, token |-> 0, value |-> None]

Init ==
    /\ run = NoRun
    /\ saved = [w \in Windows |-> None]
    /\ cache = [p \in Procs |-> None]
    /\ me = [p \in Procs |-> Idle]
    /\ answers = {} /\ refused = {} /\ faults = 0

\* What the service returns for a provider's outcome.
Freeze(o) == [o EXCEPT !.frozen = TRUE]

\* An error ends the evaluation; the job is retried, the request answered 4xx/503.
Fail(p) == me' = [me EXCEPT ![p] = Idle]

\* refresh() has its result: a worker stores it with the job, a request goes on
\* to save it.
Return(p, r) ==
    IF p \in Workers
    THEN /\ me' = [me EXCEPT ![p] = Idle]
         /\ answers' = answers \cup {<<p, me[p].window, r>>}
    ELSE /\ me' = [me EXCEPT ![p].pc = "publish", ![p].value = r]
         /\ UNCHANGED answers

----------------------------------------------------------------------------
(* OutcomeWorker.evaluate.                                                 *)

Start(p, w) ==
    /\ me[p].pc = "idle"
    /\ run.status = "RUNNING" => run.token < MaxClaims
    /\ me' = [me EXCEPT ![p].pc = "result", ![p].window = w]
    /\ cache' = IF p \in Requests THEN [cache EXCEPT ![p] = None] ELSE cache
    /\ UNCHANGED <<run, saved, answers, refused, faults>>

\* result(): the cache, else the row.
ReadResult(p) ==
    /\ me[p].pc = "result"
    /\ LET r == IF cache[p] # None THEN cache[p] ELSE run.result
       IN  /\ cache' = [cache EXCEPT ![p] = r]
           /\ IF r # None THEN Return(p, r)
              ELSE me' = [me EXCEPT ![p].pc = "claim"] /\ UNCHANGED answers
    /\ UNCHANGED <<run, saved, refused, faults>>

\* Mutants: only the owner may claim again; a finished run is reopened.
Claimable_OwnerOnly(p) ==
    run.status = "NONE" \/ (run.status = "RUNNING" /\ run.owner = Owner[p])
Claimable_Finished(p) == run.status = "NONE" \/ run.lapsed \/ run.owner = Owner[p]

\* The UPDATE's condition, or no row yet.
Claimable(p) ==
    \/ run.status = "NONE"
    \/ run.status = "RUNNING" /\ (run.lapsed \/ run.owner = Owner[p])

\* Mutant: an owner that renews its own lease keeps the token.
Claimed_SameToken(p) ==
    [run EXCEPT !.status = "RUNNING", !.owner = Owner[p], !.lapsed = FALSE,
                !.token = IF run.owner = Owner[p] THEN @ ELSE @ + 1]

Claimed(p) ==
    [run EXCEPT !.status = "RUNNING", !.owner = Owner[p], !.lapsed = FALSE, !.token = @ + 1]

Claim(p) ==
    /\ me[p].pc = "claim"
    /\ Claimable(p)
    /\ run' = Claimed(p)
    /\ me' = [me EXCEPT ![p].pc = "lookup", ![p].token = Claimed(p).token]
    /\ UNCHANGED <<saved, cache, answers, refused, faults>>

\* OUTCOME_LEASE_BUSY.
Busy(p) ==
    /\ me[p].pc = "claim"
    /\ ~Claimable(p)
    /\ Fail(p)
    /\ UNCHANGED <<run, saved, cache, answers, refused, faults>>

----------------------------------------------------------------------------
(* The calculator: OutcomeService.refresh, then the frozen identity.       *)

\* An outcome already saved under the stable id is returned.
LookUp(p) ==
    /\ me[p].pc = "lookup"
    /\ LET o == saved[me[p].window]
       IN  me' = [me EXCEPT ![p].pc = IF o # None THEN "complete" ELSE "fetch",
                            ![p].value = IF o # None THEN Freeze(o) ELSE None]
    /\ UNCHANGED <<run, saved, cache, answers, refused, faults>>

Fetch(p, seen) ==
    /\ me[p].pc = "fetch"
    /\ me' = [me EXCEPT ![p].pc = "save",
                        ![p].value = [window |-> me[p].window, seen |-> seen, frozen |-> FALSE]]
    /\ UNCHANGED <<run, saved, cache, answers, refused, faults>>

\* No prices yet, a bad response or the service unreachable.
FetchFails(p) ==
    /\ me[p].pc = "fetch"
    /\ faults < MaxFaults
    /\ faults' = faults + 1
    /\ Fail(p)
    /\ UNCHANGED <<run, saved, cache, answers, refused>>

\* Mutant: the later outcome overwrites the earlier one.
Accepts_Overwrite(old, new) == TRUE

\* OutcomeRepository.save under an id: "immutable outcome conflict" otherwise.
Accepts(old, new) == old \in {None, new}

Save(p) ==
    /\ me[p].pc = "save"
    /\ LET o == me[p].value
       IN  IF Accepts(saved[o.window], o)
           THEN /\ saved' = [saved EXCEPT ![o.window] = o]
                /\ me' = [me EXCEPT ![p].pc = "complete", ![p].value = Freeze(o)]
           ELSE Fail(p) /\ UNCHANGED saved
    /\ UNCHANGED <<run, cache, answers, refused, faults>>

----------------------------------------------------------------------------
(* complete().                                                             *)

\* The UPDATE's condition: owner, fencing token and an unexpired lease.
HoldsLease(p) ==
    /\ run.status = "RUNNING" /\ run.owner = Owner[p]
    /\ run.token = me[p].token /\ ~run.lapsed

Complete(p) ==
    /\ me[p].pc = "complete"
    /\ HoldsLease(p)
    /\ run' = [run EXCEPT !.status = "SUCCEEDED", !.result = me[p].value]
    /\ Return(p, me[p].value)
    /\ UNCHANGED <<saved, cache, refused, faults>>

SameResult(p) == run.status = "SUCCEEDED" /\ run.result = me[p].value

\* Another evaluation completed first, with the same result.
CompleteAgain(p) ==
    /\ me[p].pc = "complete"
    /\ ~HoldsLease(p) /\ SameResult(p)
    /\ Return(p, me[p].value)
    /\ UNCHANGED <<run, saved, cache, refused, faults>>

\* OUTCOME_EVENT_PAYLOAD_CONFLICT or OUTCOME_LEASE_FENCED.
CompleteRefused(p) ==
    /\ me[p].pc = "complete"
    /\ ~HoldsLease(p) /\ ~SameResult(p)
    /\ Fail(p)
    /\ UNCHANGED <<run, saved, cache, answers, refused, faults>>

----------------------------------------------------------------------------
(* refresh_decision_outcome_v2 saves what it answers.                      *)

\* The window of the request replaces the one of the result; its id stays.
Published(p) == [me[p].value EXCEPT !.window = me[p].window]

Publish(p) ==
    /\ me[p].pc = "publish"
    /\ LET id == me[p].value.window
       IN  IF Accepts(saved[id], Published(p))
           THEN /\ saved' = [saved EXCEPT ![id] = Published(p)]
                /\ answers' = answers \cup {<<p, me[p].window, Published(p)>>}
                /\ UNCHANGED refused
           ELSE /\ refused' = refused \cup {<<p, me[p].window>>}
                /\ UNCHANGED <<saved, answers>>
    /\ me' = [me EXCEPT ![p] = Idle]
    /\ UNCHANGED <<run, cache, faults>>

----------------------------------------------------------------------------
(* Time and crashes.                                                       *)

Working(p) == me[p].pc \in {"lookup", "fetch", "save", "complete"}

\* Somebody still works under the current token.
Held == \E p \in Procs : Working(p) /\ me[p].token = run.token

Lapse ==
    /\ run.status = "RUNNING" /\ ~run.lapsed
    /\ Held => faults < MaxFaults
    /\ run' = [run EXCEPT !.lapsed = TRUE]
    /\ faults' = IF Held THEN faults + 1 ELSE faults
    /\ UNCHANGED <<saved, cache, me, answers, refused>>

\* A worker comes back under its host name; the process id of an API process
\* does not.
Crash(p) ==
    /\ me[p].pc \notin {"idle", "dead"}
    /\ faults < MaxFaults
    /\ faults' = faults + 1
    /\ me' = [me EXCEPT ![p] = [Idle EXCEPT !.pc = IF p \in Workers THEN "idle" ELSE "dead"]]
    /\ cache' = [cache EXCEPT ![p] = None]
    /\ UNCHANGED <<run, saved, answers, refused>>

\* What an evaluation does once it was started.
Evaluate(p) ==
    \/ ReadResult(p) \/ Claim(p) \/ Busy(p) \/ LookUp(p)
    \/ \E seen \in Observations : Fetch(p, seen)
    \/ Save(p) \/ Complete(p) \/ CompleteAgain(p) \/ CompleteRefused(p) \/ Publish(p)

Next ==
    \/ \E p \in Procs :
          \/ \E w \in Windows : Start(p, w)
          \/ Evaluate(p) \/ FetchFails(p) \/ Crash(p)
    \/ Lapse

Spec == Init /\ [][Next]_vars

\* Processes run, callers without an answer ask again, time passes, and the
\* quant service answers unless it fails.
Fairness ==
    /\ \A p \in Procs : WF_vars(Evaluate(p)) /\ WF_vars(\E w \in Windows : Start(p, w))
    /\ WF_vars(Lapse)

FairSpec == Spec /\ Fairness

----------------------------------------------------------------------------
(* Properties.                                                             *)

Runs == [status : {"NONE", "RUNNING", "SUCCEEDED"}, owner : {Owner[p] : p \in Procs} \cup {None},
         token : Nat, lapsed : BOOLEAN, result : Outcomes \cup {None}]

Locals == [pc : Labels, window : Windows \cup {None}, token : Nat, value : Outcomes \cup {None}]

\* Type invariant.
TypeOK ==
    /\ run \in Runs
    /\ saved \in [Windows -> Outcomes \cup {None}]
    /\ cache \in [Procs -> Outcomes \cup {None}]
    /\ me \in [Procs -> Locals]
    /\ answers \subseteq Procs \X Windows \X Outcomes
    /\ refused \subseteq Procs \X Windows
    /\ faults \in 0 .. MaxFaults

\* "CAS-like lease repository; only one current owner can complete a run": two
\* processes never hold the current token, even when they share the owner id.
OneHolder ==
    \A p, q \in Procs :
        /\ Working(p) /\ me[p].token = run.token
        /\ Working(q) /\ me[q].token = run.token
        => p = q

\* The durable result is the outcome saved for its window: a late or conflicting
\* evaluation never makes the lease row and the outcome table disagree.
ResultIsSavedOutcome ==
    run.result # None => /\ saved[run.result.window] # None
                         /\ Freeze(saved[run.result.window]) = run.result

\* "A retry returns the stored identical result": all answers and all cached
\* results are the durable one, across processes, caches and restarts.
AnswersAreDurable ==
    /\ \A a \in answers : a[3] = run.result
    /\ \A p \in Procs : cache[p] \in {None, run.result}

\* The durable result is never replaced, nor its run reopened.
ResultIsFinal == [][run.result # None => UNCHANGED <<run.result, run.status>>]_run

\* A saved outcome is never overwritten by another observation.
OutcomesImmutable == [][\A w \in Windows : saved[w] # None => saved'[w] = saved[w]]_saved

\* "The persistent lease can recover an expired owner": whoever crashes or stalls,
\* the evaluation ends with a durable result.
EventuallyDurable == <>(run.result # None)

\* Each decision is evaluated at every horizon: an evaluation that succeeds for
\* a window answers with an outcome of that window.
AnswersTheWindowAsked == \A a \in answers : a[2] = a[3].window

\* Lease row, outcome table, caches and answers agree: one holder, one outcome.
OneOutcome == OneHolder /\ ResultIsSavedOutcome /\ AnswersAreDurable

\* What was evaluated stays, in the lease row and in the outcome table.
OutcomesStay == ResultIsFinal /\ OutcomesImmutable

----------------------------------------------------------------------------
(* The inductive invariant behind the safety properties.                   *)

\* A result exists exactly in a finished run.
RunOK ==
    /\ run.status = "SUCCEEDED" <=> run.result # None
    /\ run.status = "NONE" <=> run.token = 0

\* Saved outcomes lie under the id of their window, as the provider saved them.
SavedOK == \A w \in Windows : saved[w] # None => saved[w].window = w /\ ~saved[w].frozen

\* What an evaluation knows.
LocalOK(p) ==
    /\ me[p].pc \notin {"idle", "dead"} => me[p].window \in Windows
    /\ Working(p) => me[p].token \in 1 .. run.token
    /\ me[p].pc = "save" => /\ me[p].value \in Outcomes
                            /\ me[p].value.window = me[p].window /\ ~me[p].value.frozen
    /\ me[p].pc = "complete" => /\ me[p].value \in Outcomes
                                /\ saved[me[p].value.window] # None
                                /\ me[p].value = Freeze(saved[me[p].value.window])
    /\ me[p].pc = "publish" => me[p].value # None /\ me[p].value = run.result

InductiveInvariant ==
    /\ TypeOK /\ RunOK /\ SavedOK
    /\ \A p \in Procs : LocalOK(p)
    /\ OneHolder /\ ResultIsSavedOutcome /\ AnswersAreDurable

----------------------------------------------------------------------------
(* What callers are promised (DurableResult).                              *)

Promise == INSTANCE DurableResult WITH
    Results <- Outcomes,
    result <- run.result,
    delivered <- {a[3] : a \in answers}

\* Lease, calculator and cache together implement it.
ImplementsPromise == Promise!Spec

=============================================================================
