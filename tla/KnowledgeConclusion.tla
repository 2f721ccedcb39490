------------------------- MODULE KnowledgeConclusion -------------------------
(***************************************************************************)
(* One durable knowledge-conclusion run (one idempotency key) and the API  *)
(* requests that work on it at the same time.                              *)
(*                                                                         *)
(* Every repository call of the code is one transaction, hence one action; *)
(* what a request remembers between two calls (the row it read, the seal   *)
(* digest it expects, the model response in its hands) is its local state  *)
(* me[w], and is lost when the process crashes.  Hashes are injective: the *)
(* digest of a sealed response is the response itself and the absent-seal  *)
(* sentinel is the empty chain.                                            *)
(***************************************************************************)
EXTENDS Naturals, Sequences

CONSTANTS
    Workers,          \* requests (threads or processes) served concurrently
    Requests,         \* raw caller requests that share the idempotency key
    Bundles,          \* bundles the Content service may answer with
    Concludable,      \* bundles from which fallback_conclusion makes a conclusion
    SnapshotOf,       \* content_snapshot_id of every request and bundle
    Responses,        \* structured JSON values a model may return
    Valid,            \* those that parse, select and ground in the bundle
    Instants,         \* wall-clock readings used as created_at
    FallbackEnabled,  \* KNOWLEDGE_CONCLUSION_FALLBACK_ENABLED
    MaxCrashes,       \* bound on process crashes
    None

ASSUME ConclusionAssumption ==
    /\ Valid \subseteq Responses
    /\ Concludable \subseteq Bundles
    /\ FallbackEnabled \in BOOLEAN
    /\ MaxCrashes \in Nat
    /\ None \notin Requests \cup Bundles \cup Responses

VARIABLES
    run,        \* the knowledge_conclusion_run row
    citations,  \* results whose citation rows were inserted
    audits,     \* knowledge_conclusion_replay_audit rows, as a set
    me,         \* local state of each request
    answered,   \* <<request, conclusion>> pairs returned with 200 or 201
    crashes     \* crashes so far

vars == <<run, citations, audits, me, answered, crashes>>

RunStates == {"ABSENT", "RECEIVED", "BUNDLE_REQUESTED", "BUNDLE_FROZEN",
              "SYNTHESIZING", "VALIDATING", "SUCCEEDED"}

Attempts == [kind : {"PRIMARY", "REPAIR"}, resp : Responses, from : Nat]

Results == [mode : {"MODEL", "FALLBACK"}, resp : Responses \cup {None},
            bundle : Bundles, created_at : Instants]

ASSUME NoneIsNoResult == None \notin Results

Runs == [state : RunStates, version : Nat, request : Requests \cup {None},
         bundle : Bundles \cup {None}, sealed : Seq(Attempts),
         result : Results \cup {None}]

NoRun == [state |-> "ABSENT", version |-> 0, request |-> None,
          bundle |-> None, sealed |-> <<>>, result |-> None]

\* Where a request stands: the repository or provider call it makes next.
Labels == {"idle", "requestRead", "requestSave", "createBundle", "freezeRead",
           "freezeSave", "conclude", "beginRead", "beginSave", "callPrimary",
           "sealRead", "sealSave", "validateRead", "validateSave", "boundRead",
           "repairRead", "callRepair", "repairBound", "fallbackRead",
           "fallbackAudit", "commitRead", "commitSave"}

\* Why a request fell back.
Reasons == {"none", "MODEL_UNAVAILABLE", "MODEL_REPAIR_FAILED",
            "SEALED_RESPONSE_INVALID", "SEALED_RESPONSE_MISSING"}

Locals == [pc : Labels, req : Requests \cup {None}, snap : Runs,
           dig : Seq(Attempts),
           hand : Bundles \cup Attempts \cup Results \cup {None},
           path : {"MODEL", "FALLBACK"}, reason : Reasons]

Idle == [pc |-> "idle", req |-> None, snap |-> NoRun, dig |-> <<>>,
         hand |-> None, path |-> "MODEL", reason |-> "none"]

Init ==
    /\ run = NoRun
    /\ citations = {}
    /\ audits = {}
    /\ me = [w \in Workers |-> Idle]
    /\ answered = {}
    /\ crashes = 0

----------------------------------------------------------------------------
(* Domain: the state machine of a run and the binding of sealed attempts.  *)

\* Edges of _TRANSITIONS (no code path ever asks for FAILED).
Transitions == {<<"RECEIVED", "BUNDLE_REQUESTED">>,
                <<"BUNDLE_REQUESTED", "BUNDLE_FROZEN">>,
                <<"BUNDLE_FROZEN", "SYNTHESIZING">>,
                <<"SYNTHESIZING", "VALIDATING">>,
                <<"VALIDATING", "SUCCEEDED">>}

Transition(r, target) == [r EXCEPT !.state = target, !.version = @ + 1]

\* Row versions at which a chain of sealed attempts is accepted.
AllowedVersions(r) ==
    LET count == Len(r.sealed)
        saved == r.sealed[count].from + 1
    IN  IF count = 1
        THEN CASE r.state = "SYNTHESIZING" -> {saved}
               [] r.state = "VALIDATING" -> {saved, saved + 1}
               [] r.state = "SUCCEEDED" -> {saved + 1, saved + 2}
               [] OTHER -> {}
        ELSE CASE r.state = "VALIDATING" -> {saved}
               [] r.state = "SUCCEEDED" -> {saved + 1}
               [] OTHER -> {}

\* _validate_attempt_binding on every attempt: identities are those of the
\* run itself, so what can differ is the version the latest was sealed from.
Bound(r) == r.sealed # <<>> => r.version \in AllowedVersions(r)

WellFormed(chain) ==
    \/ chain = <<>>
    \/ Len(chain) = 1 /\ chain[1].kind = "PRIMARY"
    \/ Len(chain) = 2 /\ chain[1].kind = "PRIMARY" /\ chain[2].kind = "REPAIR"

Latest(chain) == chain[Len(chain)]

\* The chain decodes and its latest attempt gives a grounded conclusion.
Usable(r) ==
    /\ r.sealed # <<>> /\ Bound(r) /\ WellFormed(r.sealed)
    /\ Latest(r.sealed).resp \in Valid

\* reconstruct_sealed_model_conclusion gives back the committed result.
Reconstructs(r) ==
    /\ r.sealed # <<>> /\ Bound(r) /\ WellFormed(r.sealed)
    /\ Latest(r.sealed).resp \in Valid
    /\ Latest(r.sealed).resp = r.result.resp

----------------------------------------------------------------------------
(* Steps of a request.                                                     *)

Continue(w, local) == me' = [me EXCEPT ![w] = local]

\* The request ends with an error response (4xx, 5xx) or an exception.
Fail(w) == Continue(w, Idle)

Answer(w, result) ==
    /\ answered' = answered \cup {<<me[w].req, result>>}
    /\ Continue(w, Idle)

Audit(mode, reason) == audits' = audits \cup {<<mode, reason>>}

\* _reject_concurrent_replacement: audit, then raise.
RejectConcurrent(w) ==
    /\ Audit("SEALED_RESPONSE_CONCURRENT_REPLACEMENT", "none")
    /\ Fail(w)

ToFallback(local, chain, why) ==
    [local EXCEPT !.pc = "fallbackRead", !.dig = chain, !.path = "FALLBACK",
                  !.hand = None, !.snap = NoRun, !.reason = why]

ToValidation(local, chain) ==
    [local EXCEPT !.pc = "validateRead", !.dig = chain, !.hand = None,
                  !.snap = NoRun]

\* Mutant: an unusable repair ends the request instead of falling back.
AfterInvalidOutput_NoFallback(local) ==
    IF Len(local.dig) = 1
    THEN [local EXCEPT !.pc = "repairRead", !.snap = NoRun]
    ELSE Idle

\* ModelOutputInvalid or GroundingError from _validate_and_commit: one repair
\* if the chain has a single attempt, the deterministic fallback otherwise.
AfterInvalidOutput(local) ==
    IF Len(local.dig) = 1
    THEN [local EXCEPT !.pc = "repairRead", !.snap = NoRun]
    ELSE ToFallback(local, local.dig, "MODEL_REPAIR_FAILED")

\* Mutant: the raw request hash of the stored run is not compared.
SameRequest_Unchecked(row, q) == TRUE

\* Otherwise the key conflicts: IDEMPOTENCY_KEY_CONFLICT.
SameRequest(row, q) == row.request = q

\* INSERT ... ON CONFLICT(idempotency_key) DO NOTHING, then SELECT.
Reserve(w, q) ==
    /\ me[w].pc = "idle"
    /\ LET row == IF run.state = "ABSENT"
                  THEN [NoRun EXCEPT !.state = "RECEIVED", !.request = q]
                  ELSE run
           caller == [Idle EXCEPT !.req = q]
       IN  /\ SameRequest(row, q)
           /\ run' = row
           /\ IF row.result # None
              THEN /\ answered' = answered \cup {<<q, row.result>>}
                   /\ UNCHANGED me
              ELSE /\ Continue(w, [caller EXCEPT !.pc =
                          IF row.bundle = None THEN "requestRead" ELSE "conclude"])
                   /\ UNCHANGED answered
    /\ UNCHANGED <<citations, audits, crashes>>

RequestBundleRead(w) ==
    /\ me[w].pc = "requestRead"
    /\ Continue(w, IF run.state = "RECEIVED"
                   THEN [me[w] EXCEPT !.pc = "requestSave", !.snap = run]
                   ELSE [me[w] EXCEPT !.pc = "createBundle"])
    /\ UNCHANGED <<run, citations, audits, answered, crashes>>

\* The Content service answers with a bundle that passes the validator, or
\* the call (or the validation) fails and the request ends.
CreateBundle(w, b) ==
    /\ me[w].pc = "createBundle"
    /\ Continue(w, [me[w] EXCEPT !.pc = "freezeRead", !.hand = b])
    /\ UNCHANGED <<run, citations, audits, answered, crashes>>

CreateBundleFails(w) ==
    /\ me[w].pc = "createBundle"
    /\ Fail(w)
    /\ UNCHANGED <<run, citations, audits, answered, crashes>>

FreezeBundleRead(w) ==
    /\ me[w].pc = "freezeRead"
    /\ IF SnapshotOf[me[w].hand] # SnapshotOf[run.request]
       THEN Fail(w)                                  \* BUNDLE_SNAPSHOT_MISMATCH
       ELSE IF run.bundle = None
       THEN Continue(w, [me[w] EXCEPT !.pc = "freezeSave", !.snap = run])
       ELSE IF run.bundle = me[w].hand
       THEN Continue(w, [me[w] EXCEPT !.pc = "conclude", !.hand = None])
       ELSE Fail(w)                                  \* BUNDLE_ALREADY_FROZEN
    /\ UNCHANGED <<run, citations, audits, answered, crashes>>

\* Fallback disabled and the model reports itself unavailable: 503.
ModelGate(w) ==
    /\ me[w].pc = "conclude"
    /\ ~FallbackEnabled
    /\ Fail(w)
    /\ UNCHANGED <<run, citations, audits, answered, crashes>>

\* What conclude() does with a row r it has just read or written.
Dispatch(w, r) ==
    LET me0 == [me[w] EXCEPT !.snap = r, !.hand = None]
    IN  IF r.state \notin {"SYNTHESIZING", "VALIDATING"}
        THEN Fail(w) /\ UNCHANGED audits             \* SYNTHESIS_NOT_EXPECTED
        ELSE IF ~Bound(r)
        THEN Audit("SEALED_RESPONSE_REJECTED", "none") /\ Fail(w)
        ELSE /\ UNCHANGED audits
             /\ Continue(w,
                  IF ~WellFormed(r.sealed)
                  THEN ToFallback(me0, r.sealed, "SEALED_RESPONSE_INVALID")
                  ELSE IF r.sealed # <<>> THEN ToValidation(me0, r.sealed)
                  ELSE IF r.state = "SYNTHESIZING"
                  THEN [me0 EXCEPT !.pc = "callPrimary"]
                  ELSE ToFallback(me0, <<>>, "SEALED_RESPONSE_MISSING"))

Conclude(w) ==
    /\ me[w].pc = "conclude"
    /\ IF run.result # None
       THEN Answer(w, run.result) /\ UNCHANGED audits
       ELSE /\ UNCHANGED answered
            /\ IF run.state = "BUNDLE_FROZEN"
               THEN /\ Continue(w, [me[w] EXCEPT !.pc = "beginRead"])
                    /\ UNCHANGED audits
               ELSE Dispatch(w, run)
    /\ UNCHANGED <<run, citations, crashes>>

BeginSynthesisRead(w) ==
    /\ me[w].pc = "beginRead"
    /\ IF run.state \in {"SYNTHESIZING", "VALIDATING", "SUCCEEDED"}
       THEN Dispatch(w, run)
       ELSE /\ Continue(w, [me[w] EXCEPT !.pc = "beginSave", !.snap = run])
            /\ UNCHANGED audits
    /\ UNCHANGED <<run, citations, answered, crashes>>

Sealable(w, kind, r) ==
    [me[w] EXCEPT !.pc = "sealRead", !.snap = NoRun,
        !.hand = [kind |-> kind, resp |-> r, from |-> me[w].snap.version]]

CallPrimary(w) ==
    /\ me[w].pc = "callPrimary"
    /\ \E r \in Responses : Continue(w, Sealable(w, "PRIMARY", r))
    /\ UNCHANGED <<run, citations, audits, answered, crashes>>

CallRepair(w) ==
    /\ me[w].pc = "callRepair"
    /\ \E r \in Responses : Continue(w, Sealable(w, "REPAIR", r))
    /\ UNCHANGED <<run, citations, audits, answered, crashes>>

\* StructuredModelUnavailable: audited, and the fallback is bound to the
\* chain the decision was taken on.
ModelUnavailable(w) ==
    /\ me[w].pc \in {"callPrimary", "callRepair"}
    /\ Audit("MODEL_FALLBACK", "MODEL_UNAVAILABLE")
    /\ Continue(w, ToFallback(me[w], me[w].snap.sealed,
                              IF me[w].pc = "callPrimary"
                              THEN "MODEL_UNAVAILABLE" ELSE "MODEL_REPAIR_FAILED"))
    /\ UNCHANGED <<run, citations, answered, crashes>>

SealAttemptRead(w) ==
    /\ me[w].pc = "sealRead"
    /\ IF run.state \in {"SYNTHESIZING", "VALIDATING"} /\ Len(run.sealed) < 2
       THEN Continue(w, [me[w] EXCEPT !.pc = "sealSave", !.snap = run])
       ELSE Fail(w)        \* MODEL_ATTEMPT_NOT_EXPECTED, MODEL_REPAIR_LIMIT_EXCEEDED
    /\ UNCHANGED <<run, citations, audits, answered, crashes>>

\* begin_validation, called by _validate_and_commit and by _fallback.
BeginValidationRead(w) ==
    /\ me[w].pc = "validateRead"
    /\ IF run.state = "SYNTHESIZING"
       THEN /\ Continue(w, [me[w] EXCEPT !.pc = "validateSave", !.snap = run])
            /\ UNCHANGED audits
       ELSE IF run.state = "VALIDATING"
       THEN IF run.sealed # me[w].dig
            THEN IF me[w].path = "MODEL" THEN RejectConcurrent(w)
                 ELSE Fail(w) /\ UNCHANGED audits
            ELSE /\ Continue(w, [me[w] EXCEPT !.snap = run, !.pc =
                        IF me[w].path = "MODEL" THEN "boundRead" ELSE "fallbackAudit"])
                 /\ UNCHANGED audits
       ELSE /\ IF me[w].path = "MODEL"                \* VALIDATION_NOT_EXPECTED
               THEN Continue(w, AfterInvalidOutput(me[w]))
               ELSE Fail(w)
            /\ UNCHANGED audits
    /\ UNCHANGED <<run, citations, answered, crashes>>

\* _current_bound_attempts inside _validate_and_commit, then the conclusion is
\* built from the latest attempt of the row just read.
BoundRead(w) ==
    /\ me[w].pc = "boundRead"
    /\ IF run.sealed # me[w].dig THEN RejectConcurrent(w)
       ELSE /\ UNCHANGED audits
            /\ IF Usable(run)
               THEN \E t \in Instants :
                      Continue(w, [me[w] EXCEPT !.pc = "commitRead",
                        !.hand = [mode |-> "MODEL", resp |-> Latest(run.sealed).resp,
                                  bundle |-> run.bundle, created_at |-> t]])
               ELSE Continue(w, AfterInvalidOutput(me[w]))
    /\ UNCHANGED <<run, citations, answered, crashes>>

\* Re-read and bind the primary seal immediately before invoking a repair.
RepairRead(w) ==
    /\ me[w].pc = "repairRead"
    /\ IF run.sealed # me[w].dig THEN RejectConcurrent(w)
       ELSE /\ UNCHANGED audits
            /\ IF Bound(run) /\ WellFormed(run.sealed)
               THEN Continue(w, [me[w] EXCEPT !.pc = "callRepair", !.snap = run])
               ELSE Fail(w)
    /\ UNCHANGED <<run, citations, answered, crashes>>

\* Decode the repair that was just persisted, never the value in memory.
RepairBound(w) ==
    /\ me[w].pc = "repairBound"
    /\ IF run.sealed # me[w].dig THEN RejectConcurrent(w)
       ELSE IF ~Bound(run)
       THEN Audit("SEALED_RESPONSE_REJECTED", "none") /\ Fail(w)
       ELSE /\ UNCHANGED audits
            /\ Continue(w, IF WellFormed(run.sealed)
                           THEN ToValidation(me[w], run.sealed)
                           ELSE ToFallback(me[w], run.sealed, "MODEL_REPAIR_FAILED"))
    /\ UNCHANGED <<run, citations, answered, crashes>>

FallbackRead(w) ==
    /\ me[w].pc = "fallbackRead"
    /\ IF run.sealed # me[w].dig THEN RejectConcurrent(w) /\ UNCHANGED answered
       ELSE /\ UNCHANGED audits
            /\ IF run.result # None THEN Answer(w, run.result)
               ELSE /\ UNCHANGED answered
                    /\ IF run.state \in {"SYNTHESIZING", "VALIDATING"}
                       THEN Continue(w, [me[w] EXCEPT !.snap = run, !.pc =
                              IF run.state = "SYNTHESIZING"
                              THEN "validateRead" ELSE "fallbackAudit"])
                       ELSE Fail(w)                  \* FALLBACK_NOT_EXPECTED
    /\ UNCHANGED <<run, citations, crashes>>

AuditFallback(w) == Audit("MODEL_FALLBACK_INPUT", me[w].reason)

\* The deterministic result is built and its inputs are audited before commit.
FallbackAudit(w) ==
    /\ me[w].pc = "fallbackAudit"
    /\ me[w].snap.bundle \in Concludable
    /\ AuditFallback(w)
    /\ \E t \in Instants :
          Continue(w, [me[w] EXCEPT !.pc = "commitRead",
            !.hand = [mode |-> "FALLBACK", resp |-> None,
                      bundle |-> me[w].snap.bundle, created_at |-> t]])
    /\ UNCHANGED <<run, citations, answered, crashes>>

\* The bundle holds no evidence that can be cited: fallback_conclusion raises,
\* nothing is audited, and the row stays VALIDATING.
FallbackRaises(w) ==
    /\ me[w].pc = "fallbackAudit"
    /\ me[w].snap.bundle \notin Concludable
    /\ Fail(w)
    /\ UNCHANGED <<run, citations, audits, answered, crashes>>

CommitRead(w) ==
    /\ me[w].pc = "commitRead"
    /\ IF run.state = "SUCCEEDED" THEN Answer(w, run.result)
       ELSE /\ IF run.state = "VALIDATING" /\ me[w].hand.bundle = run.bundle
               THEN Continue(w, [me[w] EXCEPT !.pc = "commitSave", !.snap = run])
               ELSE Fail(w)    \* GROUNDED_RESULT_NOT_EXPECTED, RESULT_FROZEN_BUNDLE_MISMATCH
            /\ UNCHANGED answered
    /\ UNCHANGED <<run, citations, audits, crashes>>

----------------------------------------------------------------------------
(* Compare-and-swap writes of the repository.                              *)

\* Mutants: only one half of the compare-and-swap.
CasHolds_NoVersion(w, expected) == run.sealed = expected
CasHolds_NoSeal(w, expected) == run.version = me[w].snap.version

\* UPDATE ... WHERE version=:expected_version, after the locked digest compare.
CasHolds(w, expected) ==
    /\ run.sealed = expected
    /\ run.version = me[w].snap.version

\* The row save() writes: every column of the staged run but the result's.
Saved(staged) == [staged EXCEPT !.result = run.result]

ExpectedSeal(w) ==
    IF \/ me[w].pc = "validateSave"
       \/ me[w].pc = "sealSave" /\ me[w].hand.kind = "REPAIR"
    THEN me[w].dig
    ELSE me[w].snap.sealed

RequestBundleSave(w) ==
    /\ me[w].pc = "requestSave"
    /\ CasHolds(w, ExpectedSeal(w))
    /\ run' = Saved(Transition(me[w].snap, "BUNDLE_REQUESTED"))
    /\ Continue(w, [me[w] EXCEPT !.pc = "createBundle", !.snap = NoRun])
    /\ UNCHANGED <<citations, audits, answered, crashes>>

FreezeBundleSave(w) ==
    /\ me[w].pc = "freezeSave"
    /\ CasHolds(w, ExpectedSeal(w))
    /\ run' = Saved(Transition([me[w].snap EXCEPT !.bundle = me[w].hand], "BUNDLE_FROZEN"))
    /\ Continue(w, [me[w] EXCEPT !.pc = "conclude", !.snap = NoRun, !.hand = None])
    /\ UNCHANGED <<citations, audits, answered, crashes>>

BeginSynthesisSave(w) ==
    /\ me[w].pc = "beginSave"
    /\ CasHolds(w, ExpectedSeal(w))
    /\ LET new == Saved(Transition(me[w].snap, "SYNTHESIZING"))
       IN  run' = new /\ Dispatch(w, new)
    /\ UNCHANGED <<citations, answered, crashes>>

BeginValidationSave(w) ==
    /\ me[w].pc = "validateSave"
    /\ CasHolds(w, ExpectedSeal(w))
    /\ LET new == Saved(Transition(me[w].snap, "VALIDATING"))
       IN  /\ run' = new
           /\ Continue(w, [me[w] EXCEPT !.snap = new, !.pc =
                  IF me[w].path = "MODEL" THEN "boundRead" ELSE "fallbackAudit"])
    /\ UNCHANGED <<citations, audits, answered, crashes>>

\* Append the attempt, keep the state, bump the version.
SealedRow(r, attempt) == [r EXCEPT !.sealed = Append(@, attempt), !.version = @ + 1]

\* seal_model_attempt.
\* A primary is decoded again at once (a chain that does not bind raises); a
\* repair is decoded by the next read.
SealAttemptSave(w) ==
    /\ me[w].pc = "sealSave"
    /\ CasHolds(w, ExpectedSeal(w))
    /\ LET new == SealedRow(me[w].snap, me[w].hand)
       IN  /\ run' = Saved(new)
           /\ Continue(w,
                IF me[w].hand.kind = "REPAIR"
                THEN [ToValidation(me[w], new.sealed) EXCEPT !.pc = "repairBound"]
                ELSE IF Bound(new) /\ WellFormed(new.sealed)
                THEN ToValidation(me[w], new.sealed)
                ELSE Idle)
    /\ UNCHANGED <<citations, audits, answered, crashes>>

\* KnowledgeConclusionFenced from save(): the synthesis paths audit the
\* concurrent replacement, the others let the exception end the request.
Fenced(w) ==
    /\ me[w].pc \in {"requestSave", "freezeSave", "beginSave", "validateSave", "sealSave"}
    /\ ~CasHolds(w, ExpectedSeal(w))
    /\ IF \/ me[w].pc = "validateSave" /\ me[w].path = "MODEL"
          \/ me[w].pc = "sealSave" /\ me[w].hand.kind = "REPAIR"
       THEN RejectConcurrent(w)
       ELSE Fail(w) /\ UNCHANGED audits
    /\ UNCHANGED <<run, citations, answered, crashes>>

\* Mutant: the UPDATE compares neither the version, the state nor the seal.
CommitAllowed_Always(w) == TRUE

\* UPDATE ... WHERE version=:expected_version AND state='VALIDATING'.
CommitAllowed(w) == CasHolds(w, me[w].dig) /\ run.state = "VALIDATING"

CommittedRow(result) == [Transition(run, "SUCCEEDED") EXCEPT !.result = result]

Cited(result) == citations \cup {result}

\* commit_result: result, state and citations in one transaction.
CommitResult(w) ==
    /\ me[w].pc = "commitSave"
    /\ CommitAllowed(w)
    /\ run' = CommittedRow(me[w].hand)
    /\ citations' = Cited(me[w].hand)
    /\ Answer(w, me[w].hand)
    /\ UNCHANGED <<audits, crashes>>

\* The UPDATE matched no row: a succeeded run answers with what it has.
CommitLost(w) ==
    /\ me[w].pc = "commitSave"
    /\ ~CommitAllowed(w)
    /\ IF run.sealed = me[w].dig /\ run.state = "SUCCEEDED"
       THEN Answer(w, run.result) /\ UNCHANGED audits
       ELSE RejectConcurrent(w) /\ UNCHANGED answered
    /\ UNCHANGED <<run, citations, crashes>>

----------------------------------------------------------------------------
(* Crashes and replay.                                                     *)

Crash(w) ==
    /\ me[w].pc # "idle"
    /\ crashes < MaxCrashes
    /\ crashes' = crashes + 1
    /\ Fail(w)
    /\ UNCHANGED <<run, citations, audits, answered>>

\* POST .../replay: every mode leaves an audit row.
Replay(mode) ==
    /\ run.bundle # None
    /\ mode # "RECOMPUTE_MODEL" => run.result # None
    /\ LET valid == \/ mode # "RECOMPUTE_DETERMINISTIC"
                    \/ run.result.mode = "FALLBACK"
                    \/ Reconstructs(run) /\ citations = {run.result}
       IN  Audit(mode, IF valid THEN "valid" ELSE "SEALED_MODEL_REPLAY_INVALID")
    /\ UNCHANGED <<run, citations, me, answered, crashes>>

ReplayModes == {"VERIFY_HASH", "RECOMPUTE_DETERMINISTIC", "RECOMPUTE_MODEL"}

\* Everything a request does once it has a run, except a failing dependency.
Proceed(w) ==
    \/ RequestBundleRead(w) \/ RequestBundleSave(w)
    \/ (\E b \in Bundles : CreateBundle(w, b)) \/ FreezeBundleRead(w) \/ FreezeBundleSave(w)
    \/ Conclude(w) \/ BeginSynthesisRead(w) \/ BeginSynthesisSave(w)
    \/ CallPrimary(w) \/ CallRepair(w)
    \/ SealAttemptRead(w) \/ SealAttemptSave(w)
    \/ BeginValidationRead(w) \/ BeginValidationSave(w)
    \/ BoundRead(w) \/ RepairRead(w) \/ RepairBound(w)
    \/ FallbackRead(w) \/ FallbackAudit(w) \/ FallbackRaises(w)
    \/ CommitRead(w) \/ CommitResult(w) \/ CommitLost(w) \/ Fenced(w)

Next ==
    \/ \E w \in Workers :
          \/ \E q \in Requests : Reserve(w, q)
          \/ Proceed(w)
          \/ CreateBundleFails(w) \/ ModelGate(w) \/ ModelUnavailable(w)
          \/ Crash(w)
    \/ \E mode \in ReplayModes : Replay(mode)

Spec == Init /\ [][Next]_vars

\* The content service eventually answers with a bundle of the frozen request.
UsableBundle(w) ==
    \E b \in Bundles : CreateBundle(w, b) /\ SnapshotOf[b] = SnapshotOf[run.request]

\* Requests run, callers retry until they are answered, and a content service
\* that is asked again and again eventually answers.
Fairness ==
    \A w \in Workers :
        /\ WF_vars(Proceed(w))
        /\ WF_vars(\E q \in Requests : Reserve(w, q))
        /\ SF_vars(UsableBundle(w))

FairSpec == Spec /\ Fairness

----------------------------------------------------------------------------
(* Properties.                                                             *)

\* Type invariant.
TypeOK ==
    /\ run \in Runs
    /\ citations \subseteq Results
    /\ me \in [Workers -> Locals]
    /\ answered \subseteq Requests \X Results
    /\ crashes \in 0 .. MaxCrashes

\* "Exactly-once result effect": however many requests race on the key, crash
\* and retry, all that are answered get the committed conclusion of the raw
\* request that reserved the key (reserve, commit_result, commit_grounded).
OneConclusionPerKey ==
    \A a \in answered : /\ run.state = "SUCCEEDED"
                        /\ a = <<run.request, run.result>>

\* A stale writer never undoes history: no save, seal or second commit changes a
\* row that has a result; the bundle a run froze and the request it answers
\* are never replaced, whichever request wins the freeze_bundle race; and a
\* concurrent seal only appends to what another request has sealed and may be
\* validating.
HistoryIsKept ==
    [][/\ run.result = None
       /\ run.bundle # None => run'.bundle = run.bundle
       /\ run.request # None => run'.request = run.request
       /\ Len(run.sealed) <= Len(run'.sealed)
       /\ \A i \in 1 .. Len(run.sealed) : run'.sealed[i] = run.sealed[i]]_run

\* The row version counts exactly the transitions and seals that happened:
\* what the version windows of _validate_attempt_binding rely on.
StateRank == [s \in RunStates |->
    CASE s = "BUNDLE_REQUESTED" -> 1 [] s = "BUNDLE_FROZEN" -> 2
      [] s = "SYNTHESIZING" -> 3 [] s = "VALIDATING" -> 4
      [] s = "SUCCEEDED" -> 5 [] OTHER -> 0]
VersionCountsEffects == run.version = StateRank[run.state] + Len(run.sealed)

\* A MODEL conclusion can be rebuilt from its seal: the chain binds at the version
\* of the succeeded row and its latest attempt is the one that was committed.
ModelResultReplayable ==
    run.result.mode = "MODEL" => Reconstructs(run)

\* A fallback has its reason and its inputs in the audit log, which
\* _deterministic_replay_inputs needs.
FallbackInputsAudited ==
    run.result.mode = "FALLBACK" => \E a \in audits : a[1] = "MODEL_FALLBACK_INPUT"

\* What was committed can always be replayed and is cited, even when requests
\* crash in between: its seal or its audited inputs are there, and citation
\* rows exist exactly for it (replay, reconstruct_sealed_model_conclusion).
ResultIsAccountedFor ==
    /\ run.result # None => ModelResultReplayable /\ FallbackInputsAudited
    /\ citations = IF run.result = None THEN {} ELSE {run.result}

\* A fallback is never committed over a sealed response that is usable,
\* although one request may fall back while another seals.
UsableSealNotDiscarded ==
    run.result.mode = "FALLBACK" =>
        ~ (/\ run.sealed # <<>> /\ Bound(run) /\ WellFormed(run.sealed)
           /\ Latest(run.sealed).resp \in Valid)

\* A repair is sealed only after a primary that could not be used.
RepairOnlyOfUnusablePrimary ==
    \A i \in 1 .. Len(run.sealed) :
        run.sealed[i].kind = "REPAIR" => i = 2 /\ run.sealed[1].resp \notin Valid

\* Seals decide results: "a response whose seal was copied or rebound must not
\* produce any result effect at all", so nothing is committed on a chain that
\* is not a primary and at most one repair, a usable seal is not discarded, and
\* no primary is repaired without need.
SealsDecide ==
    /\ run.result # None => WellFormed(run.sealed) /\ UsableSealNotDiscarded
    /\ RepairOnlyOfUnusablePrimary

\* The result effect happens once: one conclusion, at a version that counts every
\* transition and seal that led to it.
EffectsHappenOnce == OneConclusionPerKey /\ VersionCountsEffects

\* A committed conclusion stands on its seals: it can be replayed, it is cited,
\* and the chain decides it.
ResultStandsOnSeals == ResultIsAccountedFor /\ SealsDecide

\* Two requests sealed a primary each: a chain that no version window admits.
TwoPrimaries(r) == Len(r.sealed) = 2 /\ r.sealed[2].kind = "PRIMARY"

\* A key that callers keep asking for has its bundle frozen.  If the fallback is
\* enabled and can make a conclusion of that bundle, the run is then concluded,
\* however badly the model answers, wherever requests crash and whoever races,
\* unless two requests both sealed a primary (conclude, _resume_sealed,
\* _fallback, freeze_bundle).
EventuallyConcluded ==
    /\ <>(run.bundle # None)
    /\ FallbackEnabled /\ run.bundle \in Concludable
         ~> run.state = "SUCCEEDED" \/ TwoPrimaries(run)

----------------------------------------------------------------------------
(* The inductive invariant behind the safety properties.                   *)

SaveLabels == {"requestSave", "freezeSave", "beginSave", "validateSave",
               "sealSave", "commitSave"}
FreezeLabels == {"createBundle", "freezeRead", "freezeSave"}
EarlyLabels == {"idle", "requestRead", "requestSave"} \cup FreezeLabels

\* The row is one the transitions can produce.
RunOK(r) ==
    /\ r.state = "ABSENT" <=> r.request = None
    /\ r.state = "ABSENT" => r = NoRun
    /\ r.state \in {"ABSENT", "RECEIVED", "BUNDLE_REQUESTED"} <=> r.bundle = None
    /\ r.state = "SUCCEEDED" <=> r.result # None
    /\ r.state \in {"SYNTHESIZING", "VALIDATING", "SUCCEEDED"} \/ r.sealed = <<>>
    /\ r.version = StateRank[r.state] + Len(r.sealed)

\* A row read earlier is an older version of the row or the row itself.
Fresh(snap, r) ==
    /\ snap.version <= r.version
    /\ snap.version = r.version => snap = r

\* What a request knows of row r at each of its labels.
LocalOK(l, r) ==
    /\ l.pc # "idle" => r.state # "ABSENT" /\ l.req = r.request
    /\ l.pc \in FreezeLabels => r.state \notin {"ABSENT", "RECEIVED"}
    /\ l.pc \notin EarlyLabels => r.bundle # None
    /\ l.pc \in SaveLabels => Fresh(l.snap, r)
    /\ l.pc = "requestSave" => l.snap.state = "RECEIVED"
    /\ l.pc = "freezeSave" => l.snap.state = "BUNDLE_REQUESTED"
    /\ l.pc = "beginSave" => l.snap.state = "BUNDLE_FROZEN"
    /\ l.pc = "validateSave" => l.snap.state = "SYNTHESIZING"
    /\ l.pc = "sealSave" => l.snap.state \in {"SYNTHESIZING", "VALIDATING"}
    /\ l.pc = "fallbackAudit" => l.snap.bundle # None
    /\ l.pc \in {"freezeRead", "freezeSave"} => l.hand \in Bundles
    /\ l.pc \in {"sealRead", "sealSave"} => l.hand \in Attempts
    /\ l.pc \in {"commitRead", "commitSave"} => l.hand \in Results

InductiveInvariant ==
    /\ TypeOK
    /\ RunOK(run)
    /\ \A w \in Workers : LocalOK(me[w], run)
    /\ OneConclusionPerKey

----------------------------------------------------------------------------
(* The inductive invariant behind what a committed conclusion stands on.   *)

\* A chain that decodes, and one that gives no conclusion.
Sound(chain) == chain # <<>> /\ WellFormed(chain)
Unusable(chain) == chain = <<>> \/ (Sound(chain) /\ Latest(chain).resp \notin Valid)

LateStates == {"VALIDATING", "SUCCEEDED"}
DecidingLabels == {"fallbackRead", "fallbackAudit", "validateRead", "validateSave",
                   "commitRead", "commitSave"}

\* What was sealed, from which version of the row, and what was made of it.
SealsOK(r) ==
    /\ Len(r.sealed) <= 2
    /\ Len(r.sealed) >= 1 => r.sealed[1].kind = "PRIMARY" /\ r.sealed[1].from = 3
    /\ Len(r.sealed) = 2 =>
        \/ /\ r.sealed[2].kind = "PRIMARY" /\ r.sealed[2].from = 3
           /\ r.state # "SUCCEEDED"
        \/ /\ r.sealed[2].kind = "REPAIR" /\ r.sealed[2].from = 5
           /\ r.sealed[1].resp \notin Valid /\ r.state \in LateStates
    /\ r.result # None =>
        IF r.result.mode = "MODEL"
        THEN /\ Sound(r.sealed) /\ Latest(r.sealed).resp \in Valid
             /\ Latest(r.sealed).resp = r.result.resp
        ELSE Unusable(r.sealed)

\* What a request knows of its chain, unless row r has its conclusion.
NotUsed(chain, r) == r.state = "SUCCEEDED" \/ Unusable(chain)
Repairable(chain, r) == Sound(chain) /\ Len(chain) = 1 /\ NotUsed(chain, r)

SealKnown(l, r) ==
    /\ l.pc \notin DecidingLabels => l.path = "MODEL"
    /\ l.pc \in {"fallbackRead", "fallbackAudit"} => l.path = "FALLBACK"
    /\ l.pc \in {"boundRead", "repairRead", "callRepair", "repairBound"} => r.state \in LateStates
    /\ l.pc = "validateRead" => r.state \in {"SYNTHESIZING"} \cup LateStates
    /\ l.pc = "callPrimary" => l.snap.sealed = <<>> /\ l.snap.version = 3
    /\ l.pc \in {"repairRead", "callRepair"} => Repairable(l.dig, r)
    /\ l.pc = "callRepair" =>
          l.snap.sealed = l.dig /\ (r.state = "SUCCEEDED" \/ l.snap.version = 5)
    /\ l.pc \in {"sealRead", "sealSave"} =>
          IF l.hand.kind = "PRIMARY" THEN l.hand.from = 3
          ELSE /\ r.state \in LateStates /\ Repairable(l.dig, r)
               /\ r.state = "SUCCEEDED" \/ l.hand.from = 5
    /\ l.pc = "sealSave" => Len(l.snap.sealed) < 2
    /\ /\ l.pc \in {"validateRead", "validateSave", "boundRead", "repairBound"}
       /\ l.path = "MODEL"
       => Sound(l.dig)
    /\ l.path = "FALLBACK" => NotUsed(l.dig, r)
    /\ l.pc \in {"commitRead", "commitSave"} =>
          IF l.hand.mode = "MODEL"
          THEN Sound(l.dig) /\ Latest(l.dig).resp \in Valid /\ l.hand.resp = Latest(l.dig).resp
          ELSE l.path = "FALLBACK"

InputsAudited == \E a \in audits : a[1] = "MODEL_FALLBACK_INPUT"

\* A fallback that is about to be committed has its inputs in the log.
AuditKnown(l) ==
    l.pc \in {"commitRead", "commitSave"} /\ l.hand.mode = "FALLBACK" => InputsAudited

\* The inductive invariant behind ResultStandsOnSeals.
SealInvariant ==
    /\ InductiveInvariant
    /\ SealsOK(run)
    /\ \A w \in Workers : SealKnown(me[w], run) /\ AuditKnown(me[w])
    /\ run.result # None => FallbackInputsAudited
    /\ citations = IF run.result = None THEN {} ELSE {run.result}

----------------------------------------------------------------------------
(* What callers of one key are promised (DurableResult).                   *)

Promise == INSTANCE DurableResult WITH
    result <- run.result,
    delivered <- {a[2] : a \in answered}

\* The run service, the synthesis service and the router implement it.
ImplementsPromise == Promise!Spec

=============================================================================
