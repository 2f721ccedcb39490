---------------------- MODULE KnowledgeConclusionProofs ----------------------
(***************************************************************************)
(* Safety of the knowledge-conclusion run for any number of requests,      *)
(* bundles, responses and crashes.                                         *)
(*                                                                         *)
(* The argument: every save compares the row version, every save bumps it, *)
(* so a request whose row is stale cannot write (Fresh); the states and    *)
(* inputs of the row therefore only move forward (Advances), which keeps   *)
(* true what every other request knows (LocalOK).                          *)
(*                                                                         *)
(* What a committed conclusion stands on needs one more invariant          *)
(* (SealInvariant): which attempts were sealed from which row version, and *)
(* what a request may still do with the chain it holds.  A request that    *)
(* falls back holds a chain that gives no conclusion, unless another has   *)
(* committed one; the seal comparison of the commit does the rest.         *)
(***************************************************************************)
EXTENDS KnowledgeConclusion, TLAPS

\* How a write may change the row.
Advances(r, new) ==
    /\ new.version > r.version
    /\ new.state # "ABSENT" /\ new.request = r.request
    /\ r.state \notin {"ABSENT", "RECEIVED"} => new.state # "RECEIVED"
    /\ r.bundle # None => new.bundle = r.bundle

\* What a request knows survives every write of another request: its snapshot
\* becomes strictly older, and frozen inputs stay.
LEMMA LocalStable ==
    ASSUME NEW r \in Runs, NEW new \in Runs, NEW l \in Locals,
           Advances(r, new), LocalOK(l, r)
    PROVE  LocalOK(l, new)
  BY DEF Runs, Locals, Advances, LocalOK, Fresh, FreezeLabels, EarlyLabels

\* A request that has ended knows nothing.
LEMMA IdleOK ==
    ASSUME NEW r
    PROVE  Idle \in Locals /\ LocalOK(Idle, r)
  <1>1. NoRun \in Runs
    BY DEF NoRun, Runs, RunStates
  <1>2. Idle \in Locals
    BY <1>1 DEF Idle, Locals, Labels, Reasons
  <1>3. LocalOK(Idle, r)
    BY DEF Idle, LocalOK, FreezeLabels, EarlyLabels, SaveLabels
  <1> QED BY <1>2, <1>3

\* A step of request w that leaves the row alone keeps the invariant if w's
\* new local state is accounted for.
LEMMA ReadStep ==
    ASSUME InductiveInvariant, NEW w \in Workers, NEW l \in Locals,
           LocalOK(l, run), Continue(w, l),
           run' = run, citations' = citations, crashes' \in 0 .. MaxCrashes,
           answered' = answered
    PROVE  InductiveInvariant'
  <1>1. TypeOK'
    BY DEF InductiveInvariant, TypeOK, Continue
  <1>2. \A v \in Workers : LocalOK(me'[v], run')
    <2> TAKE v \in Workers
    <2>1. me'[v] = IF v = w THEN l ELSE me[v]
      BY DEF InductiveInvariant, TypeOK, Continue
    <2> QED BY <2>1 DEF InductiveInvariant
  <1>3. RunOK(run)' /\ OneConclusionPerKey'
    BY DEF InductiveInvariant, OneConclusionPerKey, RunOK
  <1> QED BY <1>1, <1>2, <1>3 DEF InductiveInvariant

\* The same for a write that advances an unfinished row.
LEMMA WriteStep ==
    ASSUME InductiveInvariant, NEW w \in Workers, NEW l \in Locals,
           NEW new \in Runs, run' = new, Advances(run, new), RunOK(new),
           LocalOK(l, new), Continue(w, l),
           citations' \subseteq Results, crashes' = crashes,
           answered' \subseteq {<<new.request, new.result>>},
           answered' # {} => new.state = "SUCCEEDED"
    PROVE  InductiveInvariant'
  <1>1. answered' \subseteq Requests \X Results
    BY DEF InductiveInvariant, TypeOK, Runs, RunOK
  <1>2. TypeOK'
    BY <1>1 DEF InductiveInvariant, TypeOK, Continue
  <1>3. \A v \in Workers : LocalOK(me'[v], run')
    <2> TAKE v \in Workers
    <2>1. me'[v] = IF v = w THEN l ELSE me[v]
      BY DEF InductiveInvariant, TypeOK, Continue
    <2>2. LocalOK(me[v], new)
      BY LocalStable DEF InductiveInvariant, TypeOK
    <2> QED BY <2>1, <2>2
  <1>4. RunOK(run)'
    BY DEF RunOK
  <1>5. OneConclusionPerKey'
    BY DEF OneConclusionPerKey
  <1> QED BY <1>2, <1>3, <1>4, <1>5 DEF InductiveInvariant

\* The local states a request may move to, once typed, at an unchanged row.
LEMMA FailStep ==
    ASSUME InductiveInvariant, NEW w \in Workers, Fail(w),
           run' = run, citations' = citations, crashes' \in 0 .. MaxCrashes,
           answered' = answered
    PROVE  InductiveInvariant'
  BY IdleOK, ReadStep DEF Fail

\* A request answers with the conclusion of a succeeded row.
LEMMA AnswerStep ==
    ASSUME InductiveInvariant, NEW w \in Workers, me[w].pc # "idle",
           run.result # None, Answer(w, run.result),
           run' = run, citations' = citations, crashes' = crashes
    PROVE  InductiveInvariant'
  <1>1. /\ run.request \in Requests /\ run.result \in Results
        /\ run.state = "SUCCEEDED" /\ me[w].req = run.request
    BY DEF InductiveInvariant, TypeOK, Runs, RunOK, LocalOK, Locals
  <1>2. TypeOK' /\ OneConclusionPerKey'
    BY <1>1, IdleOK DEF InductiveInvariant, TypeOK, Answer, Continue, OneConclusionPerKey
  <1>3. \A v \in Workers : LocalOK(me'[v], run')
    <2> TAKE v \in Workers
    <2>1. me'[v] = IF v = w THEN Idle ELSE me[v]
      BY DEF InductiveInvariant, TypeOK, Answer, Continue
    <2> QED BY <2>1, IdleOK DEF InductiveInvariant
  <1>4. RunOK(run)'
    BY DEF InductiveInvariant, RunOK
  <1> QED BY <1>2, <1>3, <1>4 DEF InductiveInvariant

\* conclude() moves a request to a label that fits the row it looked at.
LEMMA DispatchLocals ==
    ASSUME InductiveInvariant, NEW w \in Workers, NEW r \in Runs,
           me[w].pc # "idle", r.bundle # None, r.state # "ABSENT",
           me[w].req = r.request, Dispatch(w, r)
    PROVE  \E l \in Locals : LocalOK(l, r) /\ Continue(w, l)
  <1>1. me[w] \in Locals
    BY DEF InductiveInvariant, TypeOK
  <1> DEFINE me0 == [me[w] EXCEPT !.snap = r, !.hand = None]
             lp == [me0 EXCEPT !.pc = "callPrimary"]
             lv == ToValidation(me0, r.sealed)
             li == ToFallback(me0, r.sealed, "SEALED_RESPONSE_INVALID")
             lm == ToFallback(me0, <<>>, "SEALED_RESPONSE_MISSING")
  <1>2. r.sealed \in Seq(Attempts) /\ <<>> \in Seq(Attempts) /\ NoRun \in Runs
    BY IdleOK DEF Runs, Idle, Locals, NoRun, RunStates
  <1>3. me0 \in Locals /\ me0.req = r.request
    BY <1>1 DEF Locals
  <1>7. \E l \in {lp, lv, li, lm, Idle} : Continue(w, l)
    BY DEF Dispatch, Fail
  <1> HIDE DEF me0
  <1>4. lp \in Locals /\ lv \in Locals /\ li \in Locals /\ lm \in Locals
    <2>1. lp \in Locals
      BY <1>3 DEF Locals, Labels
    <2>2. lv \in Locals
      BY <1>2, <1>3 DEF Locals, Labels, ToValidation
    <2>3. li \in Locals
      BY <1>2, <1>3 DEF Locals, Labels, Reasons, ToFallback
    <2>4. lm \in Locals
      BY <1>2, <1>3 DEF Locals, Labels, Reasons, ToFallback
    <2> QED BY <2>1, <2>2, <2>3, <2>4
  <1>5. /\ lp.pc = "callPrimary" /\ lv.pc = "validateRead"
        /\ li.pc = "fallbackRead" /\ lm.pc = "fallbackRead"
        /\ lp.req = r.request /\ lv.req = r.request
        /\ li.req = r.request /\ lm.req = r.request
    BY <1>3 DEF Locals, ToFallback, ToValidation
  <1>6. \A l \in {lp, lv, li, lm} : LocalOK(l, r)
    BY <1>5 DEF LocalOK, FreezeLabels, EarlyLabels, SaveLabels
  <1> QED BY <1>4, <1>6, <1>7, IdleOK

\* Facts about a request and the row, used by every action below.
LEMMA Facts ==
    ASSUME InductiveInvariant, NEW w \in Workers
    PROVE  /\ me[w] \in Locals /\ LocalOK(me[w], run)
           /\ run \in Runs /\ RunOK(run) /\ crashes \in 0 .. MaxCrashes
           /\ NoRun \in Runs /\ <<>> \in Seq(Attempts)
  BY IdleOK DEF InductiveInvariant, TypeOK, NoRun, Runs, RunStates

\* After an unusable output: a repair or the fallback, with the digest kept.
LEMMA AfterInvalidOutputLocals ==
    ASSUME InductiveInvariant, NEW w \in Workers, me[w].pc \notin EarlyLabels
    PROVE  /\ AfterInvalidOutput(me[w]) \in Locals
           /\ LocalOK(AfterInvalidOutput(me[w]), run)
  <1> DEFINE lr == [me[w] EXCEPT !.pc = "repairRead", !.snap = NoRun]
             lf == ToFallback(me[w], me[w].dig, "MODEL_REPAIR_FAILED")
  <1>1. lr \in Locals /\ lr.pc = "repairRead" /\ lr.req = me[w].req
    BY Facts DEF Locals, Labels
  <1>2. lf \in Locals /\ lf.pc = "fallbackRead" /\ lf.req = me[w].req
    BY Facts DEF Locals, Labels, ToFallback, Reasons
  <1>3. me[w].pc # "idle" /\ run.bundle # None /\ run.state # "ABSENT"
        /\ me[w].req = run.request
    BY Facts DEF LocalOK, EarlyLabels
  <1>4. LocalOK(lr, run) /\ LocalOK(lf, run)
    <2> HIDE DEF lr, lf
    <2> QED BY <1>1, <1>2, <1>3 DEF LocalOK, FreezeLabels, EarlyLabels, SaveLabels
  <1>5. AfterInvalidOutput(me[w]) \in {lr, lf}
    BY DEF AfterInvalidOutput
  <1> QED BY <1>1, <1>2, <1>4, <1>5

\* Requests that look at the row, before and at conclude().
LEMMA EarlyReads ==
    ASSUME InductiveInvariant, NEW w \in Workers,
           \/ RequestBundleRead(w) \/ (\E b \in Bundles : CreateBundle(w, b))
           \/ CreateBundleFails(w) \/ FreezeBundleRead(w) \/ ModelGate(w)
           \/ Conclude(w) \/ BeginSynthesisRead(w)
    PROVE  InductiveInvariant'
  <1> USE Facts
  <1>1. CASE RequestBundleRead(w)
    <2> DEFINE ls == [me[w] EXCEPT !.pc = "requestSave", !.snap = run]
               lc == [me[w] EXCEPT !.pc = "createBundle"]
    <2>1. ls \in Locals /\ lc \in Locals
      BY DEF Locals, Labels
    <2>2. run.state = "RECEIVED" => LocalOK(ls, run)
      <3>1. ls.pc = "requestSave" /\ ls.snap = run /\ ls.req = run.request
        BY <1>1 DEF RequestBundleRead, LocalOK, Locals
      <3>2. run.version \in Nat
        BY DEF Runs
      <3> HIDE DEF ls
      <3> QED BY <3>1, <3>2 DEF LocalOK, Fresh, FreezeLabels, EarlyLabels, SaveLabels
    <2>3. run.state # "RECEIVED" => LocalOK(lc, run)
      BY <1>1 DEF RequestBundleRead, LocalOK, FreezeLabels, EarlyLabels, SaveLabels, Locals
    <2> QED BY <1>1, <2>1, <2>2, <2>3, ReadStep DEF RequestBundleRead
  <1>2. CASE \E b \in Bundles : CreateBundle(w, b)
    <2> PICK b \in Bundles : CreateBundle(w, b)
      BY <1>2
    <2> DEFINE l == [me[w] EXCEPT !.pc = "freezeRead", !.hand = b]
    <2>1. l \in Locals
      BY DEF Locals, Labels
    <2>2. LocalOK(l, run)
      BY DEF CreateBundle, LocalOK, FreezeLabels, EarlyLabels, SaveLabels, Locals
    <2> QED BY <2>1, <2>2, ReadStep DEF CreateBundle
  <1>3. CASE CreateBundleFails(w)
    BY <1>3, FailStep DEF CreateBundleFails
  <1>4. CASE FreezeBundleRead(w)
    <2> DEFINE ls == [me[w] EXCEPT !.pc = "freezeSave", !.snap = run]
               lc == [me[w] EXCEPT !.pc = "conclude", !.hand = None]
    <2>1. ls \in Locals /\ lc \in Locals
      BY DEF Locals, Labels
    <2>2. run.bundle = None => LocalOK(ls, run)
      BY <1>4 DEF FreezeBundleRead, LocalOK, RunOK, Runs, RunStates, Fresh,
                  FreezeLabels, EarlyLabels, SaveLabels, Locals
    <2>3. run.bundle # None => LocalOK(lc, run)
      BY <1>4 DEF FreezeBundleRead, LocalOK, FreezeLabels, EarlyLabels, SaveLabels, Locals
    <2>4. \/ Fail(w)
          \/ run.bundle = None /\ Continue(w, ls)
          \/ run.bundle # None /\ Continue(w, lc)
      BY <1>4 DEF FreezeBundleRead
    <2> QED BY <1>4, <2>1, <2>2, <2>3, <2>4, ReadStep, FailStep DEF FreezeBundleRead
  <1>5. CASE ModelGate(w)
    BY <1>5, FailStep DEF ModelGate
  <1>6. CASE Conclude(w)
    <2>1. CASE run.result # None
      BY <1>6, <2>1, AnswerStep DEF Conclude
    <2>2. CASE run.result = None /\ run.state = "BUNDLE_FROZEN"
      <3> DEFINE l == [me[w] EXCEPT !.pc = "beginRead"]
      <3>1. l \in Locals
        BY DEF Locals, Labels
      <3>2. LocalOK(l, run)
        BY <1>6 DEF Conclude, LocalOK, FreezeLabels, EarlyLabels, SaveLabels, Locals
      <3> QED BY <1>6, <2>2, <3>1, <3>2, ReadStep DEF Conclude
    <2>3. CASE run.result = None /\ run.state # "BUNDLE_FROZEN"
      <3>1. run.bundle # None /\ run.state # "ABSENT" /\ me[w].req = run.request
        BY <1>6 DEF Conclude, LocalOK, EarlyLabels, FreezeLabels
      <3> QED BY <1>6, <2>3, <3>1, DispatchLocals, ReadStep DEF Conclude
    <2> QED BY <2>1, <2>2, <2>3
  <1>7. CASE BeginSynthesisRead(w)
    <2>1. run.bundle # None /\ run.state # "ABSENT" /\ me[w].req = run.request
      BY <1>7 DEF BeginSynthesisRead, LocalOK, EarlyLabels, FreezeLabels
    <2>2. CASE run.state \in {"SYNTHESIZING", "VALIDATING", "SUCCEEDED"}
      BY <1>7, <2>1, <2>2, DispatchLocals, ReadStep DEF BeginSynthesisRead
    <2>3. CASE run.state \notin {"SYNTHESIZING", "VALIDATING", "SUCCEEDED"}
      <3> DEFINE l == [me[w] EXCEPT !.pc = "beginSave", !.snap = run]
      <3>1. l \in Locals
        BY DEF Locals, Labels
      <3>2. LocalOK(l, run)
        BY <1>7, <2>1, <2>3 DEF BeginSynthesisRead, LocalOK, RunOK, Runs, RunStates,
               Fresh, FreezeLabels, EarlyLabels, SaveLabels, Locals
      <3> QED BY <1>7, <2>3, <3>1, <3>2, ReadStep DEF BeginSynthesisRead
    <2> QED BY <2>2, <2>3
  <1> QED BY <1>1, <1>2, <1>3, <1>4, <1>5, <1>6, <1>7

\* Model calls and their sealing up to the write.
LEMMA ModelReads ==
    ASSUME InductiveInvariant, NEW w \in Workers,
           \/ CallPrimary(w) \/ CallRepair(w) \/ ModelUnavailable(w)
           \/ SealAttemptRead(w) \/ RepairRead(w) \/ RepairBound(w)
    PROVE  InductiveInvariant'
  <1> USE Facts
  <1>0. /\ me[w].pc \notin EarlyLabels /\ me[w].pc # "idle"
        /\ run.bundle # None /\ run.state # "ABSENT" /\ me[w].req = run.request
    BY DEF CallPrimary, CallRepair, ModelUnavailable, SealAttemptRead, RepairRead,
           RepairBound, LocalOK, EarlyLabels, FreezeLabels
  <1>1. ASSUME NEW kind \in {"PRIMARY", "REPAIR"}, NEW r \in Responses
        PROVE  Sealable(w, kind, r) \in Locals /\ LocalOK(Sealable(w, kind, r), run)
    <2> DEFINE a == [kind |-> kind, resp |-> r, from |-> me[w].snap.version]
               l == [me[w] EXCEPT !.pc = "sealRead", !.snap = NoRun, !.hand = a]
    <2>1. a \in Attempts
      BY DEF Attempts, Locals, Runs
    <2> HIDE DEF a
    <2>2. l \in Locals
      BY <2>1 DEF Locals, Labels
    <2>3. l.pc = "sealRead" /\ l.hand = a /\ l.req = run.request
      BY <1>0 DEF Locals
    <2>4. LocalOK(l, run)
      <3> HIDE DEF l
      <3> QED BY <1>0, <2>1, <2>3 DEF LocalOK, FreezeLabels, EarlyLabels, SaveLabels
    <2> QED BY <2>2, <2>4 DEF Sealable, a
  <1>2. CASE CallPrimary(w)
    BY <1>1, <1>2, ReadStep DEF CallPrimary
  <1>3. CASE CallRepair(w)
    BY <1>1, <1>3, ReadStep DEF CallRepair
  <1>4. CASE ModelUnavailable(w)
    <2> DEFINE why == IF me[w].pc = "callPrimary" THEN "MODEL_UNAVAILABLE" ELSE "MODEL_REPAIR_FAILED"
               l == ToFallback(me[w], me[w].snap.sealed, why)
    <2>1. why \in Reasons /\ me[w].snap.sealed \in Seq(Attempts)
      BY DEF Reasons, Locals, Runs
    <2> HIDE DEF why
    <2>2. l \in Locals /\ l.pc = "fallbackRead" /\ l.req = run.request
      BY <1>0, <2>1 DEF ToFallback, Locals, Labels
    <2>3. LocalOK(l, run)
      <3> HIDE DEF l
      <3> QED BY <1>0, <2>2 DEF LocalOK, FreezeLabels, EarlyLabels, SaveLabels
    <2> QED BY <1>4, <2>2, <2>3, ReadStep DEF ModelUnavailable, why
  <1>5. CASE SealAttemptRead(w)
    <2> DEFINE l == [me[w] EXCEPT !.pc = "sealSave", !.snap = run]
    <2>1. l \in Locals /\ l.pc = "sealSave" /\ l.req = run.request /\ l.snap = run
          /\ l.hand = me[w].hand
      BY <1>0 DEF Locals, Labels
    <2>2. me[w].hand \in Attempts /\ run.version \in Nat
      BY <1>5 DEF SealAttemptRead, LocalOK, Runs
    <2>3. run.state \in {"SYNTHESIZING", "VALIDATING"} => LocalOK(l, run)
      <3> HIDE DEF l
      <3> QED BY <1>0, <2>1, <2>2 DEF LocalOK, Fresh, FreezeLabels, EarlyLabels, SaveLabels
    <2> QED BY <1>5, <2>1, <2>3, ReadStep, FailStep DEF SealAttemptRead
  <1>6. CASE RepairRead(w)
    <2> DEFINE l == [me[w] EXCEPT !.pc = "callRepair", !.snap = run]
    <2>1. l \in Locals /\ l.pc = "callRepair" /\ l.req = run.request
      BY <1>0 DEF Locals, Labels
    <2>2. LocalOK(l, run)
      <3> HIDE DEF l
      <3> QED BY <1>0, <2>1 DEF LocalOK, FreezeLabels, EarlyLabels, SaveLabels
    <2>3. Fail(w) \/ Continue(w, l)
      BY <1>6 DEF RepairRead, RejectConcurrent
    <2> QED BY <1>6, <2>1, <2>2, <2>3, ReadStep, FailStep DEF RepairRead
  <1>7. CASE RepairBound(w)
    <2> DEFINE lv == ToValidation(me[w], run.sealed)
               lf == ToFallback(me[w], run.sealed, "MODEL_REPAIR_FAILED")
    <2>0. run.sealed \in Seq(Attempts)
      BY DEF Runs
    <2>1. lv \in Locals /\ lv.pc = "validateRead" /\ lv.req = run.request
      BY <1>0, <2>0 DEF Locals, Labels, ToValidation
    <2>2. lf \in Locals /\ lf.pc = "fallbackRead" /\ lf.req = run.request
      BY <1>0, <2>0 DEF Locals, Labels, Reasons, ToFallback
    <2>3. LocalOK(lv, run) /\ LocalOK(lf, run)
      <3> HIDE DEF lv, lf
      <3> QED BY <1>0, <2>1, <2>2 DEF LocalOK, FreezeLabels, EarlyLabels, SaveLabels
    <2>4. Fail(w) \/ Continue(w, lv) \/ Continue(w, lf)
      BY <1>7 DEF RepairBound, RejectConcurrent
    <2> QED BY <1>7, <2>1, <2>2, <2>3, <2>4, ReadStep, FailStep DEF RepairBound
  <1> QED BY <1>2, <1>3, <1>4, <1>5, <1>6, <1>7

\* Validation, fallback and the read before the commit.
LEMMA ValidationReads ==
    ASSUME InductiveInvariant, NEW w \in Workers,
           \/ BeginValidationRead(w) \/ BoundRead(w) \/ FallbackRead(w)
           \/ FallbackAudit(w) \/ FallbackRaises(w) \/ CommitRead(w)
    PROVE  InductiveInvariant'
  <1> USE Facts
  <1>0. /\ me[w].pc \notin EarlyLabels /\ me[w].pc # "idle"
        /\ run.bundle # None /\ run.state # "ABSENT" /\ me[w].req = run.request
        /\ run.bundle \in Bundles /\ run.version \in Nat
    BY DEF BeginValidationRead, BoundRead, FallbackRead, FallbackAudit, FallbackRaises,
         CommitRead,
           LocalOK, EarlyLabels, FreezeLabels, Runs
  <1>1. ASSUME NEW label \in {"boundRead", "fallbackAudit", "validateRead"}
        PROVE  LET l == [me[w] EXCEPT !.snap = run, !.pc = label]
               IN  l \in Locals /\ LocalOK(l, run)
    <2> DEFINE l == [me[w] EXCEPT !.snap = run, !.pc = label]
    <2>1. l \in Locals /\ l.pc = label /\ l.req = run.request /\ l.snap = run
      BY <1>0 DEF Locals, Labels
    <2>2. LocalOK(l, run)
      <3> HIDE DEF l
      <3> QED BY <1>0, <2>1 DEF LocalOK, FreezeLabels, EarlyLabels, SaveLabels
    <2> QED BY <2>1, <2>2
  <1>2. CASE BeginValidationRead(w)
    <2> DEFINE l == [me[w] EXCEPT !.pc = "validateSave", !.snap = run]
    <2>1. l \in Locals /\ l.pc = "validateSave" /\ l.req = run.request /\ l.snap = run
      BY <1>0 DEF Locals, Labels
    <2>2. run.state = "SYNTHESIZING" => LocalOK(l, run)
      <3> HIDE DEF l
      <3> QED BY <1>0, <2>1 DEF LocalOK, Fresh, FreezeLabels, EarlyLabels, SaveLabels
    <2>3. \/ Fail(w)
          \/ run.state = "SYNTHESIZING" /\ Continue(w, l)
          \/ \E label \in {"boundRead", "fallbackAudit"} :
                Continue(w, [me[w] EXCEPT !.snap = run, !.pc = label])
          \/ Continue(w, AfterInvalidOutput(me[w]))
      BY <1>2 DEF BeginValidationRead, RejectConcurrent
    <2> QED BY <1>0, <1>1, <1>2, <2>1, <2>2, <2>3, ReadStep, FailStep,
               AfterInvalidOutputLocals DEF BeginValidationRead
  <1>3. ASSUME NEW mode \in {"MODEL", "FALLBACK"}, NEW resp \in Responses \cup {None},
               NEW b \in Bundles, NEW t \in Instants
        PROVE  LET l == [me[w] EXCEPT !.pc = "commitRead",
                          !.hand = [mode |-> mode, resp |-> resp,
                                    bundle |-> b, created_at |-> t]]
               IN  l \in Locals /\ LocalOK(l, run)
    <2> DEFINE h == [mode |-> mode, resp |-> resp, bundle |-> b, created_at |-> t]
               l == [me[w] EXCEPT !.pc = "commitRead", !.hand = h]
    <2>1. h \in Results
      BY DEF Results
    <2> HIDE DEF h
    <2>2. l \in Locals /\ l.pc = "commitRead" /\ l.req = run.request /\ l.hand = h
      BY <1>0, <2>1 DEF Locals, Labels
    <2>3. LocalOK(l, run)
      <3> HIDE DEF l
      <3> QED BY <1>0, <2>1, <2>2 DEF LocalOK, FreezeLabels, EarlyLabels, SaveLabels
    <2> QED BY <2>2, <2>3 DEF h
  <1>4. CASE BoundRead(w)
    <2>1. CASE run.sealed # me[w].dig
      BY <1>4, <2>1, FailStep, Facts DEF BoundRead, RejectConcurrent
    <2>2. CASE run.sealed = me[w].dig /\ Usable(run)
      <3>1. Latest(run.sealed).resp \in Responses
        BY <2>2, ConclusionAssumption DEF Usable
      <3> QED BY <1>0, <1>3, <1>4, <2>2, <3>1, ReadStep DEF BoundRead
    <2>3. CASE run.sealed = me[w].dig /\ ~Usable(run)
      BY <1>0, <1>4, <2>3, ReadStep, AfterInvalidOutputLocals DEF BoundRead
    <2> QED BY <2>1, <2>2, <2>3
  <1>5. CASE FallbackRead(w)
    <2>1. CASE run.sealed = me[w].dig /\ run.result # None
      BY <1>0, <1>5, <2>1, AnswerStep DEF FallbackRead
    <2>2. CASE ~(run.sealed = me[w].dig /\ run.result # None)
      <3>1. /\ answered' = answered
            /\ \/ Fail(w)
               \/ \E label \in {"validateRead", "fallbackAudit"} :
                     Continue(w, [me[w] EXCEPT !.snap = run, !.pc = label])
        BY <1>5, <2>2 DEF FallbackRead, RejectConcurrent
      <3> QED BY <1>1, <1>5, <3>1, ReadStep, FailStep DEF FallbackRead
    <2> QED BY <2>1, <2>2
  <1>6. CASE FallbackAudit(w)
    <2>1. me[w].snap.bundle \in Bundles
      BY <1>6 DEF FallbackAudit, LocalOK, Locals, Runs
    <2> QED BY <1>3, <1>6, <2>1, ReadStep DEF FallbackAudit
  <1>8. CASE FallbackRaises(w)
    BY <1>8, FailStep DEF FallbackRaises
  <1>7. CASE CommitRead(w)
    <2>1. CASE run.state = "SUCCEEDED"
      BY <1>0, <1>7, <2>1, AnswerStep DEF CommitRead, RunOK
    <2>2. CASE run.state # "SUCCEEDED"
      <3> DEFINE l == [me[w] EXCEPT !.pc = "commitSave", !.snap = run]
      <3>1. l \in Locals /\ l.pc = "commitSave" /\ l.req = run.request /\ l.snap = run
            /\ l.hand = me[w].hand
        BY <1>0 DEF Locals, Labels
      <3>2. me[w].hand \in Results
        BY <1>7 DEF CommitRead, LocalOK
      <3>3. LocalOK(l, run)
        <4> HIDE DEF l
        <4> QED BY <1>0, <3>1, <3>2 DEF LocalOK, Fresh, FreezeLabels, EarlyLabels, SaveLabels
      <3> QED BY <1>7, <2>2, <3>1, <3>3, ReadStep, FailStep DEF CommitRead
    <2> QED BY <2>1, <2>2
  <1> QED BY <1>2, <1>4, <1>5, <1>6, <1>7, <1>8

\* A compare-and-swap that succeeds was staged from the row as it is now.
LEMMA CasGivesRow ==
    ASSUME InductiveInvariant, NEW w \in Workers, me[w].pc \in SaveLabels,
           NEW e, CasHolds(w, e)
    PROVE  me[w].snap = run
  BY Facts DEF CasHolds, LocalOK, Fresh

\* No one was answered before the run succeeded.
LEMMA NotAnswered ==
    ASSUME InductiveInvariant, run.state # "SUCCEEDED"
    PROVE  answered = {}
  BY DEF InductiveInvariant, OneConclusionPerKey

\* What Transition does to a row in a given state.
LEMMA TransitionOK ==
    ASSUME NEW r \in Runs, RunOK(r), NEW target,
           \/ <<r.state, target>> \in {<<"RECEIVED", "BUNDLE_REQUESTED">>,
                <<"BUNDLE_FROZEN", "SYNTHESIZING">>, <<"SYNTHESIZING", "VALIDATING">>}
    PROVE  LET new == [Transition(r, target) EXCEPT !.result = r.result]
           IN  new \in Runs /\ RunOK(new) /\ Advances(r, new)
  <1> DEFINE new == [Transition(r, target) EXCEPT !.result = r.result]
  <1>0. target \in RunStates /\ r.version + 1 \in Nat
    BY DEF Runs, RunStates
  <1>1. new \in Runs
    BY <1>0 DEF Transition, Runs
  <1>2. /\ new.state = target /\ new.version = r.version + 1 /\ new.request = r.request
        /\ new.bundle = r.bundle /\ new.sealed = r.sealed /\ new.result = r.result
    BY DEF Transition, Runs
  <1> HIDE DEF new
  <1>3. r.version \in Nat /\ Len(r.sealed) \in Nat
    BY DEF Runs
  <1>4. RunOK(new)
    BY <1>2, <1>3 DEF RunOK, StateRank, RunStates
  <1>5. Advances(r, new)
    BY <1>2, <1>3 DEF Advances, RunOK
  <1> QED BY <1>1, <1>4, <1>5 DEF new

\* The state transitions that keep every input of the run.
LEMMA TransitionSaves ==
    ASSUME InductiveInvariant, NEW w \in Workers,
           RequestBundleSave(w) \/ BeginSynthesisSave(w) \/ BeginValidationSave(w)
    PROVE  InductiveInvariant'
  <1> USE Facts
  <1>0. /\ me[w].snap = run /\ me[w].req = run.request /\ me[w].pc # "idle"
        /\ run.state # "ABSENT" /\ run.state # "SUCCEEDED" /\ answered = {}
    BY CasGivesRow, NotAnswered DEF RequestBundleSave, BeginSynthesisSave,
       BeginValidationSave, SaveLabels, LocalOK
  <1>1. CASE RequestBundleSave(w)
    <2> DEFINE new == Saved(Transition(me[w].snap, "BUNDLE_REQUESTED"))
               l == [me[w] EXCEPT !.pc = "createBundle", !.snap = NoRun]
    <2>1. run.state = "RECEIVED"
      BY <1>0, <1>1 DEF RequestBundleSave, LocalOK
    <2>2. new \in Runs /\ RunOK(new) /\ Advances(run, new)
      BY <1>0, <2>1, TransitionOK DEF Saved
    <2>3. l \in Locals /\ l.pc = "createBundle" /\ l.req = run.request
      BY <1>0 DEF Locals, Labels
    <2>4. new.state = "BUNDLE_REQUESTED"
      BY <1>0 DEF Saved, Transition, Runs
    <2>5. LocalOK(l, new)
      <3> HIDE DEF l, new
      <3> QED BY <2>2, <2>3, <2>4 DEF LocalOK, Advances, FreezeLabels, EarlyLabels, SaveLabels
    <2> QED BY <1>0, <1>1, <2>2, <2>3, <2>5, WriteStep
            DEF RequestBundleSave, InductiveInvariant, TypeOK
  <1>2. CASE BeginSynthesisSave(w)
    <2> DEFINE new == Saved(Transition(me[w].snap, "SYNTHESIZING"))
    <2>1. run.state = "BUNDLE_FROZEN" /\ run.bundle # None
      BY <1>0, <1>2 DEF BeginSynthesisSave, LocalOK, EarlyLabels, FreezeLabels
    <2>2. new \in Runs /\ RunOK(new) /\ Advances(run, new)
      BY <1>0, <2>1, TransitionOK DEF Saved
    <2>3. new.bundle # None /\ new.state # "ABSENT" /\ me[w].req = new.request
      BY <1>0, <2>1, <2>2 DEF Advances
    <2>4. \E l \in Locals : LocalOK(l, new) /\ Continue(w, l)
      <3> HIDE DEF new
      <3>1. Dispatch(w, new)
        BY <1>2 DEF BeginSynthesisSave, new
      <3> QED BY <1>0, <2>2, <2>3, <3>1, DispatchLocals
    <2> QED BY <1>0, <1>2, <2>2, <2>4, WriteStep
            DEF BeginSynthesisSave, InductiveInvariant, TypeOK
  <1>3. CASE BeginValidationSave(w)
    <2> DEFINE new == Saved(Transition(me[w].snap, "VALIDATING"))
               label == IF me[w].path = "MODEL" THEN "boundRead" ELSE "fallbackAudit"
               l == [me[w] EXCEPT !.snap = new, !.pc = label]
    <2>1. run.state = "SYNTHESIZING" /\ run.bundle # None
      BY <1>0, <1>3 DEF BeginValidationSave, LocalOK, EarlyLabels, FreezeLabels
    <2>2. new \in Runs /\ RunOK(new) /\ Advances(run, new)
      BY <1>0, <2>1, TransitionOK DEF Saved
    <2>3. label \in {"boundRead", "fallbackAudit"}
      OBVIOUS
    <2>4. run' = new /\ Continue(w, l)
      BY <1>3 DEF BeginValidationSave
    <2> HIDE DEF new, label
    <2>5. l \in Locals /\ l.pc = label /\ l.req = run.request /\ l.snap = new
      BY <1>0, <2>2, <2>3 DEF Locals, Labels
    <2>6. LocalOK(l, new)
      <3> HIDE DEF l
      <3> QED BY <2>1, <2>2, <2>3, <2>5
              DEF LocalOK, Advances, FreezeLabels, EarlyLabels, SaveLabels
    <2> QED BY <1>0, <1>3, <2>2, <2>4, <2>5, <2>6, WriteStep
            DEF BeginValidationSave, InductiveInvariant, TypeOK
  <1> QED BY <1>1, <1>2, <1>3

\* Freezing a bundle: the only step that sets one.
LEMMA FreezeSave ==
    ASSUME InductiveInvariant, NEW w \in Workers, FreezeBundleSave(w)
    PROVE  InductiveInvariant'
  <1> USE Facts
  <1>0. /\ me[w].snap = run /\ me[w].req = run.request
        /\ run.state = "BUNDLE_REQUESTED" /\ me[w].hand \in Bundles /\ answered = {}
    BY CasGivesRow, NotAnswered DEF FreezeBundleSave, SaveLabels, LocalOK
  <1> DEFINE new == Saved(Transition([me[w].snap EXCEPT !.bundle = me[w].hand], "BUNDLE_FROZEN"))
             l == [me[w] EXCEPT !.pc = "conclude", !.snap = NoRun, !.hand = None]
  <1>1. /\ new.state = "BUNDLE_FROZEN" /\ new.version = run.version + 1
        /\ new.request = run.request /\ new.bundle = me[w].hand
        /\ new.sealed = run.sealed /\ new.result = run.result
    BY <1>0 DEF Saved, Transition, Runs
  <1>2. new \in Runs
    <2>1. run.version + 1 \in Nat /\ "BUNDLE_FROZEN" \in RunStates
      BY DEF Runs, RunStates
    <2> QED BY <1>0, <2>1 DEF Saved, Transition, Runs
  <1>3. l \in Locals /\ l.pc = "conclude" /\ l.req = run.request
    BY <1>0 DEF Locals, Labels
  <1>4. run' = new /\ Continue(w, l)
    BY DEF FreezeBundleSave
  <1> HIDE DEF new, l
  <1>5. /\ run.version \in Nat /\ Len(run.sealed) \in Nat
        /\ me[w].hand # None /\ run.bundle = None
    BY <1>0, ConclusionAssumption DEF Runs, RunOK
  <1>6. RunOK(new)
    BY <1>0, <1>1, <1>5 DEF RunOK, StateRank, RunStates
  <1>7. Advances(run, new)
    BY <1>0, <1>1, <1>5 DEF Advances
  <1>8. LocalOK(l, new)
    BY <1>1, <1>3, <1>5 DEF LocalOK, FreezeLabels, EarlyLabels, SaveLabels
  <1> QED BY <1>0, <1>2, <1>3, <1>4, <1>6, <1>7, <1>8, WriteStep
          DEF FreezeBundleSave, InductiveInvariant, TypeOK

\* Sealing an attempt: the chain and the version grow together.
LEMMA SealSave ==
    ASSUME InductiveInvariant, NEW w \in Workers, SealAttemptSave(w)
    PROVE  InductiveInvariant'
  <1> USE Facts
  <1>0. /\ me[w].snap = run /\ me[w].req = run.request /\ run.bundle # None
        /\ run.state \in {"SYNTHESIZING", "VALIDATING"}
        /\ me[w].hand \in Attempts /\ answered = {}
    BY CasGivesRow, NotAnswered DEF SealAttemptSave, SaveLabels, LocalOK, EarlyLabels, FreezeLabels
  <1> DEFINE row == SealedRow(me[w].snap, me[w].hand)
             new == Saved(row)
             lv == ToValidation(me[w], row.sealed)
             lr == [lv EXCEPT !.pc = "repairBound"]
  <1>1. run.sealed \in Seq(Attempts) /\ run.version \in Nat /\ Len(run.sealed) \in Nat
    BY DEF Runs
  <1>2. /\ Append(run.sealed, me[w].hand) \in Seq(Attempts)
        /\ Len(Append(run.sealed, me[w].hand)) = Len(run.sealed) + 1
        /\ run.version + 1 \in Nat
    BY <1>0, <1>1
  <1>3. /\ new.state = run.state /\ new.version = run.version + 1
        /\ new.request = run.request /\ new.bundle = run.bundle
        /\ new.sealed = Append(run.sealed, me[w].hand) /\ new.result = run.result
        /\ row.sealed = Append(run.sealed, me[w].hand)
    BY <1>0 DEF Saved, SealedRow, Runs
  <1>4. new \in Runs
    BY <1>0, <1>2 DEF Saved, SealedRow, Runs
  <1>5. run' = new /\ (Continue(w, lv) \/ Continue(w, lr) \/ Continue(w, Idle))
    BY DEF SealAttemptSave
  <1> HIDE DEF row, new
  <1>6. lv \in Locals /\ lv.pc = "validateRead" /\ lv.req = run.request
    BY <1>0, <1>2, <1>3 DEF Locals, Labels, ToValidation
  <1> HIDE DEF lv
  <1>7. lr \in Locals /\ lr.pc = "repairBound" /\ lr.req = run.request
    BY <1>6 DEF Locals, Labels
  <1> HIDE DEF lr
  <1>8. RunOK(new)
    <2>1. StateRank[run.state] \in Nat
      BY <1>0 DEF StateRank, RunStates
    <2>2. new.version = StateRank[new.state] + Len(new.sealed)
      <3>1. Len(new.sealed) = Len(run.sealed) + 1
        BY <1>2, <1>3
      <3>2. run.version = StateRank[run.state] + Len(run.sealed)
        BY DEF RunOK
      <3> QED BY <1>1, <1>3, <2>1, <3>1, <3>2
    <2> QED BY <1>0, <1>3, <2>2 DEF RunOK
  <1>9. Advances(run, new)
    BY <1>0, <1>1, <1>3 DEF Advances
  <1>10. LocalOK(lv, new) /\ LocalOK(lr, new)
    BY <1>0, <1>3, <1>6, <1>7 DEF LocalOK, FreezeLabels, EarlyLabels, SaveLabels
  <1>11. /\ citations' \subseteq Results /\ crashes' = crashes /\ answered' = {}
    BY <1>0 DEF SealAttemptSave, InductiveInvariant, TypeOK
  <1> QED BY <1>4, <1>5, <1>6, <1>7, <1>8, <1>9, <1>10, <1>11, WriteStep, IdleOK

\* The commit: result, state and answer in one step.
LEMMA Commit ==
    ASSUME InductiveInvariant, NEW w \in Workers, CommitResult(w)
    PROVE  InductiveInvariant'
  <1> USE Facts
  <1>0. /\ me[w].req = run.request /\ run.bundle # None /\ run.state = "VALIDATING"
        /\ me[w].hand \in Results /\ answered = {}
    BY NotAnswered DEF CommitResult, CommitAllowed, LocalOK, EarlyLabels, FreezeLabels
  <1> DEFINE new == CommittedRow(me[w].hand)
  <1>1. run.version \in Nat /\ run.version + 1 \in Nat /\ "SUCCEEDED" \in RunStates
    BY DEF Runs, RunStates
  <1>2. /\ new.state = "SUCCEEDED" /\ new.version = run.version + 1
        /\ new.request = run.request /\ new.bundle = run.bundle
        /\ new.sealed = run.sealed /\ new.result = me[w].hand
    BY DEF CommittedRow, Transition, Runs
  <1>3. new \in Runs
    BY <1>0, <1>1 DEF CommittedRow, Transition, Runs
  <1>4. run' = new /\ Continue(w, Idle) /\ answered' = {<<run.request, me[w].hand>>}
    BY <1>0 DEF CommitResult, Answer
  <1> HIDE DEF new
  <1>5. RunOK(new)
    <2>1. me[w].hand # None /\ Len(run.sealed) \in Nat
      BY <1>0, NoneIsNoResult DEF Runs
    <2>2. new.version = StateRank[new.state] + Len(new.sealed)
      BY <1>0, <1>1, <1>2, <2>1 DEF RunOK, StateRank, RunStates
    <2> QED BY <1>0, <1>2, <2>1, <2>2 DEF RunOK
  <1>6. Advances(run, new)
    BY <1>0, <1>1, <1>2 DEF Advances
  <1>7. citations' \subseteq Results /\ crashes' = crashes
    BY <1>0 DEF CommitResult, Cited, InductiveInvariant, TypeOK
  <1>8. LocalOK(Idle, new) /\ Idle \in Locals
    BY IdleOK
  <1> QED BY <1>2, <1>3, <1>4, <1>5, <1>6, <1>7, <1>8, WriteStep

\* Writes that lost the race, and crashes: the request ends or answers.
LEMMA LostWrites ==
    ASSUME InductiveInvariant, NEW w \in Workers,
           Fenced(w) \/ CommitLost(w) \/ Crash(w)
    PROVE  InductiveInvariant'
  <1> USE Facts
  <1>1. CASE Fenced(w)
    <2>1. Fail(w)
      BY <1>1 DEF Fenced, RejectConcurrent
    <2> QED BY <1>1, <2>1, FailStep DEF Fenced
  <1>2. CASE CommitLost(w)
    <2>1. CASE run.sealed = me[w].dig /\ run.state = "SUCCEEDED"
      BY <1>2, <2>1, AnswerStep DEF CommitLost, RunOK
    <2>2. CASE ~(run.sealed = me[w].dig /\ run.state = "SUCCEEDED")
      BY <1>2, <2>2, FailStep DEF CommitLost, RejectConcurrent
    <2> QED BY <2>1, <2>2
  <1>3. CASE Crash(w)
    <2>1. crashes' \in 0 .. MaxCrashes
      BY <1>3, ConclusionAssumption DEF Crash
    <2> QED BY <1>3, <2>1, FailStep DEF Crash
  <1> QED BY <1>1, <1>2, <1>3

\* Reserving the key: the row is inserted, or the caller joins the existing
\* run, or gets its conclusion.
LEMMA Reservation ==
    ASSUME InductiveInvariant, NEW w \in Workers, NEW q \in Requests, Reserve(w, q)
    PROVE  InductiveInvariant'
  <1> USE Facts
  <1> DEFINE fresh == [NoRun EXCEPT !.state = "RECEIVED", !.request = q]
             label == IF run'.bundle = None THEN "requestRead" ELSE "conclude"
             l == [[Idle EXCEPT !.req = q] EXCEPT !.pc = label]
  <1>1. label \in {"requestRead", "conclude"} /\ (label = "conclude" => run'.bundle # None)
    OBVIOUS
  <1>2. run'.result = None => Continue(w, l) /\ answered' = answered
    BY DEF Reserve
  <1>3. run'.request = q /\ citations' = citations /\ crashes' = crashes
    BY DEF Reserve, SameRequest
  <1>8. run.state # "ABSENT" => run' = run
    BY DEF Reserve
  <1>9. run.state = "ABSENT" => run' = fresh
    BY DEF Reserve
  <1>10. run'.result # None => answered' = answered \cup {<<q, run'.result>>} /\ me' = me
    BY DEF Reserve
  <1> HIDE DEF label
  <1>4. l \in Locals /\ l.pc = label /\ l.req = q
    BY <1>1, IdleOK DEF Idle, Locals, Labels
  <1> HIDE DEF l
  <1>5. run'.state # "ABSENT" => LocalOK(l, run')
    BY <1>1, <1>3, <1>4 DEF LocalOK, FreezeLabels, EarlyLabels, SaveLabels
  <1>6. CASE run.state = "ABSENT"
    <2>1. /\ fresh.state = "RECEIVED" /\ fresh.version = 0 /\ fresh.request = q
          /\ fresh.bundle = None /\ fresh.sealed = <<>> /\ fresh.result = None
      BY DEF NoRun
    <2>2. fresh \in Runs
      BY DEF NoRun, Runs, RunStates
    <2> HIDE DEF fresh
    <2>3. q # None
      BY ConclusionAssumption
    <2>4. RunOK(fresh)
      BY <2>1, <2>3 DEF RunOK, StateRank, RunStates
    <2>5. answered = {}
      BY <1>6, NotAnswered
    <2>6. \A v \in Workers : me[v].pc = "idle"
      BY <1>6 DEF InductiveInvariant, LocalOK
    <2>7. Continue(w, l) /\ answered' = {} /\ LocalOK(l, run')
      BY <1>2, <1>5, <1>6, <1>9, <2>1, <2>5
    <2>8. \A v \in Workers : LocalOK(me'[v], run')
      <3> TAKE v \in Workers
      <3>1. me'[v] = IF v = w THEN l ELSE me[v]
        BY <2>7 DEF InductiveInvariant, TypeOK, Continue
      <3>2. LocalOK(me[v], run')
        BY <2>6 DEF LocalOK, FreezeLabels, EarlyLabels, SaveLabels
      <3> QED BY <2>7, <3>1, <3>2
    <2>9. TypeOK'
      BY <1>3, <1>4, <1>6, <1>9, <2>2, <2>7 DEF InductiveInvariant, TypeOK, Continue
    <2>10. RunOK(run)' /\ OneConclusionPerKey'
      BY <1>6, <1>9, <2>4, <2>7 DEF RunOK, OneConclusionPerKey
    <2> QED BY <2>8, <2>9, <2>10 DEF InductiveInvariant
  <1>7. CASE run.state # "ABSENT"
    <2>1. CASE run.result = None
      BY <1>2, <1>3, <1>4, <1>5, <1>7, <1>8, <2>1, ReadStep
    <2>2. CASE run.result # None
      <3>1. /\ run.result \in Results /\ run.state = "SUCCEEDED"
            /\ answered' = answered \cup {<<run.request, run.result>>}
            /\ run' = run /\ me' = me /\ run.request \in Requests
        BY <1>3, <1>7, <1>8, <1>10, <2>2 DEF RunOK, Runs
      <3>2. TypeOK' /\ OneConclusionPerKey'
        BY <1>3, <3>1 DEF InductiveInvariant, TypeOK, OneConclusionPerKey
      <3>3. RunOK(run)' /\ \A v \in Workers : LocalOK(me'[v], run')
        BY <3>1 DEF InductiveInvariant, RunOK
      <3> QED BY <3>2, <3>3 DEF InductiveInvariant
    <2> QED BY <2>1, <2>2
  <1> QED BY <1>6, <1>7

\* Init establishes the invariant.
LEMMA InitOK == Init => InductiveInvariant
  <1> SUFFICES ASSUME Init PROVE InductiveInvariant
    OBVIOUS
  <1>1. NoRun \in Runs
    BY DEF NoRun, Runs, RunStates
  <1>2. RunOK(NoRun)
    BY ConclusionAssumption DEF RunOK, NoRun, StateRank, RunStates
  <1> QED BY <1>1, <1>2, IdleOK, ConclusionAssumption
          DEF Init, InductiveInvariant, TypeOK, OneConclusionPerKey

\* Every step keeps it.
LEMMA NextOK == InductiveInvariant /\ [Next]_vars => InductiveInvariant'
  <1> SUFFICES ASSUME InductiveInvariant, [Next]_vars PROVE InductiveInvariant'
    OBVIOUS
  <1>1. CASE UNCHANGED vars
    BY <1>1 DEF vars, InductiveInvariant, TypeOK, RunOK, OneConclusionPerKey
  <1>2. CASE \E mode \in ReplayModes : Replay(mode)
    BY <1>2 DEF Replay, InductiveInvariant, TypeOK, RunOK, OneConclusionPerKey
  <1>3. ASSUME NEW w \in Workers,
               \/ \E q \in Requests : Reserve(w, q)
               \/ Proceed(w)
               \/ CreateBundleFails(w) \/ ModelGate(w) \/ ModelUnavailable(w)
               \/ Crash(w)
        PROVE  InductiveInvariant'
    BY <1>3, Reservation, EarlyReads, ModelReads, ValidationReads, TransitionSaves,
       FreezeSave, SealSave, Commit, LostWrites DEF Proceed
  <1> QED BY <1>1, <1>2, <1>3 DEF Next

\* What one step may do to the row: nothing, or a write to a run that has no
\* result yet, which keeps frozen inputs and appends to the seals.
RowEffect(r, new) ==
    \/ new = r
    \/ /\ r.result = None
       /\ r.bundle # None => new.bundle = r.bundle
       /\ r.request # None => new.request = r.request
       /\ \/ new.sealed = r.sealed
          \/ \E a \in Attempts : new.sealed = Append(r.sealed, a)

\* What one step may do to the result and to the answers: nothing, choose the
\* conclusion and deliver it, or deliver the one there is.
ResultEffect ==
    \/ run'.result = run.result /\ answered' = answered
    \/ /\ run.result = None /\ run'.result \in Results
       /\ \E q \in Requests : answered' = answered \cup {<<q, run'.result>>}
    \/ /\ run.result # None /\ run'.result = run.result
       /\ \E q \in Requests : answered' = answered \cup {<<q, run.result>>}

\* Requests are answered in their own name.
LEMMA AnswerEffect ==
    ASSUME InductiveInvariant, NEW w \in Workers, me[w].pc # "idle",
           run.result # None, Answer(w, run.result), run' = run
    PROVE  ResultEffect
  <1>1. me[w].req \in Requests
    BY Facts DEF LocalOK, RunOK, Runs
  <1> QED BY <1>1 DEF ResultEffect, Answer

\* The compare-and-swap writes of a request.
LEMMA WriteEffects ==
    ASSUME InductiveInvariant, NEW w \in Workers,
           \/ RequestBundleSave(w) \/ FreezeBundleSave(w) \/ BeginSynthesisSave(w)
           \/ BeginValidationSave(w) \/ SealAttemptSave(w)
    PROVE  RowEffect(run, run') /\ ResultEffect
  <1> USE Facts
  <1>1. /\ me[w].snap = run /\ run.state # "SUCCEEDED" /\ run.result = None
        /\ answered' = answered
        /\ me[w].pc = "freezeSave" => run.bundle = None
        /\ me[w].pc = "sealSave" => me[w].hand \in Attempts
    <2>1. me[w].snap = run
      BY CasGivesRow DEF RequestBundleSave, FreezeBundleSave, BeginSynthesisSave,
         BeginValidationSave, SealAttemptSave, SaveLabels
    <2>2. /\ me[w].pc \in {"requestSave", "freezeSave", "beginSave", "validateSave", "sealSave"}
          /\ answered' = answered
      BY DEF RequestBundleSave, FreezeBundleSave, BeginSynthesisSave,
         BeginValidationSave, SealAttemptSave
    <2> QED BY <2>1, <2>2 DEF LocalOK, RunOK
  <1>2. CASE FreezeBundleSave(w)
    <2>1. /\ run'.request = run.request /\ run'.sealed = run.sealed
          /\ run'.result = run.result /\ run.bundle = None
      BY <1>1, <1>2 DEF FreezeBundleSave, Saved, Transition, Runs
    <2> QED BY <1>1, <2>1 DEF RowEffect, ResultEffect
  <1>3. CASE SealAttemptSave(w)
    <2>1. /\ run'.request = run.request /\ run'.bundle = run.bundle
          /\ run'.sealed = Append(run.sealed, me[w].hand)
          /\ run'.result = run.result /\ me[w].hand \in Attempts
      BY <1>1, <1>3 DEF SealAttemptSave, Saved, SealedRow, Runs
    <2> QED BY <1>1, <2>1 DEF RowEffect, ResultEffect
  <1>4. CASE RequestBundleSave(w) \/ BeginSynthesisSave(w) \/ BeginValidationSave(w)
    <2>1. /\ run'.request = run.request /\ run'.bundle = run.bundle
          /\ run'.sealed = run.sealed /\ run'.result = run.result
      BY <1>1, <1>4 DEF RequestBundleSave, BeginSynthesisSave, BeginValidationSave,
         Saved, Transition, Runs
    <2> QED BY <1>1, <2>1 DEF RowEffect, ResultEffect
  <1> QED BY <1>2, <1>3, <1>4

\* Every step of the specification.
LEMMA StepEffects ==
    ASSUME InductiveInvariant, [Next]_vars
    PROVE  RowEffect(run, run') /\ ResultEffect
  <1> USE Facts
  <1>1. CASE UNCHANGED vars \/ \E mode \in ReplayModes : Replay(mode)
    BY <1>1 DEF vars, Replay, RowEffect, ResultEffect
  <1>2. ASSUME NEW w \in Workers, NEW q \in Requests, Reserve(w, q)
        PROVE  RowEffect(run, run') /\ ResultEffect
    <2>1. CASE run.state = "ABSENT"
      <3>1. /\ run = NoRun /\ run' = [NoRun EXCEPT !.state = "RECEIVED", !.request = q]
        BY <1>2, <2>1 DEF Reserve, RunOK, InductiveInvariant
      <3>2. /\ run'.result = None /\ run.result = None /\ run.request = None
            /\ run'.sealed = run.sealed /\ run.bundle = None
        BY <3>1 DEF NoRun
      <3>3. answered' = answered
        BY <1>2, <3>2 DEF Reserve
      <3> QED BY <3>2, <3>3 DEF RowEffect, ResultEffect
    <2>2. CASE run.state # "ABSENT"
      BY <1>2, <2>2 DEF Reserve, RowEffect, ResultEffect
    <2> QED BY <2>1, <2>2
  <1>3. ASSUME NEW w \in Workers, CommitResult(w)
        PROVE  RowEffect(run, run') /\ ResultEffect
    <2>1. /\ run'.request = run.request /\ run'.bundle = run.bundle
          /\ run'.sealed = run.sealed /\ run'.result = me[w].hand
      BY <1>3 DEF CommitResult, CommittedRow, Transition, InductiveInvariant, TypeOK, Runs
    <2>2. /\ run.result = None /\ me[w].hand \in Results /\ me[w].req \in Requests
      BY <1>3 DEF CommitResult, CommitAllowed, LocalOK, RunOK, Runs
    <2>3. answered' = answered \cup {<<me[w].req, me[w].hand>>}
      BY <1>3 DEF CommitResult, Answer
    <2> QED BY <2>1, <2>2, <2>3 DEF RowEffect, ResultEffect
  <1>4. ASSUME NEW w \in Workers, Conclude(w) \/ FallbackRead(w) \/ CommitRead(w) \/ CommitLost(w)
        PROVE  RowEffect(run, run') /\ ResultEffect
    <2>1. run' = run /\ me[w].pc # "idle"
      BY <1>4 DEF Conclude, FallbackRead, CommitRead, CommitLost
    <2>2. \/ answered' = answered
          \/ run.result # None /\ Answer(w, run.result)
      BY <1>4 DEF Conclude, FallbackRead, CommitRead, CommitLost, RunOK
    <2> QED BY <2>1, <2>2, AnswerEffect DEF RowEffect, ResultEffect
  <1>5. ASSUME NEW w \in Workers,
               \/ RequestBundleRead(w) \/ (\E b \in Bundles : CreateBundle(w, b))
               \/ FreezeBundleRead(w) \/ BeginSynthesisRead(w)
               \/ CallPrimary(w) \/ CallRepair(w) \/ SealAttemptRead(w)
               \/ BeginValidationRead(w) \/ BoundRead(w) \/ RepairRead(w) \/ RepairBound(w)
               \/ FallbackAudit(w) \/ FallbackRaises(w) \/ Fenced(w)
               \/ CreateBundleFails(w) \/ ModelGate(w) \/ ModelUnavailable(w) \/ Crash(w)
        PROVE  RowEffect(run, run') /\ ResultEffect
    <2>1. run' = run /\ answered' = answered
      BY <1>5 DEF RequestBundleRead, CreateBundle, FreezeBundleRead, BeginSynthesisRead,
         CallPrimary, CallRepair, SealAttemptRead, BeginValidationRead, BoundRead,
         RepairRead, RepairBound, FallbackAudit, FallbackRaises, Fenced, CreateBundleFails,
         ModelGate, ModelUnavailable, Crash
    <2> QED BY <2>1 DEF RowEffect, ResultEffect
  <1> QED BY <1>1, <1>2, <1>3, <1>4, <1>5, WriteEffects DEF Next, Proceed

----------------------------------------------------------------------------
(* Theorems of the specification.                                          *)

\* The row, the requests and what they know stay consistent (run service,
\* synthesis service, repository).
THEOREM Invariance == Spec => []InductiveInvariant
  BY InitOK, NextOK, PTL DEF Spec

\* Every column and every local of a request keeps its type.
THEOREM TypeCorrect == Spec => []TypeOK
  <1>1. InductiveInvariant => TypeOK
    BY DEF InductiveInvariant
  <1> QED BY <1>1, Invariance, PTL

\* All callers that are answered get the one committed conclusion, for any
\* number of requests, responses and crashes.
THEOREM OneConclusion == Spec => []OneConclusionPerKey
  <1>1. InductiveInvariant => OneConclusionPerKey
    BY DEF InductiveInvariant
  <1> QED BY <1>1, Invariance, PTL

\* The version counts transitions and seals, which is what the version windows
\* of _validate_attempt_binding presuppose.
THEOREM VersionsCount == Spec => []VersionCountsEffects
  <1>1. InductiveInvariant => VersionCountsEffects
    BY DEF InductiveInvariant, RunOK, VersionCountsEffects
  <1> QED BY <1>1, Invariance, PTL

\* No stale writer changes a committed run, replaces a frozen bundle or a reserved
\* request, or touches what is sealed.
THEOREM HistoryKept == Spec => HistoryIsKept
  <1> DEFINE Keeps == /\ run.result = None
                      /\ run.bundle # None => run'.bundle = run.bundle
                      /\ run.request # None => run'.request = run.request
                      /\ Len(run.sealed) <= Len(run'.sealed)
                      /\ \A i \in 1 .. Len(run.sealed) : run'.sealed[i] = run.sealed[i]
  <1>1. InductiveInvariant /\ [Next]_vars => [Keeps]_run
    <2> SUFFICES ASSUME InductiveInvariant, [Next]_vars, run' # run
                 PROVE  Keeps
      OBVIOUS
    <2>1. run.sealed \in Seq(Attempts) /\ Len(run.sealed) \in Nat
      BY DEF InductiveInvariant, TypeOK, Runs
    <2>2. \/ run'.sealed = run.sealed
          \/ \E a \in Attempts : run'.sealed = Append(run.sealed, a)
      BY StepEffects DEF RowEffect
    <2>3. /\ Len(run.sealed) <= Len(run'.sealed)
          /\ \A i \in 1 .. Len(run.sealed) : run'.sealed[i] = run.sealed[i]
      BY <2>1, <2>2
    <2>4. /\ run.result = None
          /\ run.bundle # None => run'.bundle = run.bundle
          /\ run.request # None => run'.request = run.request
      BY StepEffects DEF RowEffect
    <2> QED BY <2>3, <2>4
  <1> QED BY <1>1, Invariance, PTL DEF Spec, HistoryIsKept

\* The services implement the promise of the key: one conclusion is chosen
\* once and it alone is delivered.
THEOREM Refinement == Spec => ImplementsPromise
  <1> DEFINE delivered == {a[2] : a \in answered}
  <1>1. Init => Promise!Init
    BY DEF Init, NoRun, Promise!Init
  <1>2. InductiveInvariant /\ [Next]_vars => [Promise!Next]_<<run.result, delivered>>
    <2> SUFFICES ASSUME InductiveInvariant, [Next]_vars
                 PROVE  [Promise!Next]_<<run.result, delivered>>
      OBVIOUS
    <2>1. ASSUME NEW q, NEW c, answered' = answered \cup {<<q, c>>}
          PROVE  delivered' = delivered \cup {c}
      <3>1. delivered' = {a[2] : a \in answered'}
        OBVIOUS
      <3>2. {a[2] : a \in answered \cup {<<q, c>>}} = {a[2] : a \in answered} \cup {<<q, c>>[2]}
        BY Zenon
      <3> QED BY <2>1, <3>1, <3>2
    <2>2. CASE run'.result = run.result /\ answered' = answered
      BY <2>2
    <2>3. CASE /\ run.result = None /\ run'.result \in Results
               /\ \E q \in Requests : answered' = answered \cup {<<q, run'.result>>}
      BY <2>1, <2>3 DEF Promise!Next, Promise!Choose
    <2>4. CASE /\ run.result # None /\ run'.result = run.result
               /\ \E q \in Requests : answered' = answered \cup {<<q, run.result>>}
      BY <2>1, <2>4 DEF Promise!Next, Promise!Deliver
    <2> QED BY <2>2, <2>3, <2>4, StepEffects DEF ResultEffect
  <1> QED BY <1>1, <1>2, Invariance, PTL DEF Spec, ImplementsPromise, Promise!Spec

\* One conclusion for a key, at a version that counts what led to it.
THEOREM EffectIsOnce == Spec => []EffectsHappenOnce
  <1>1. OneConclusionPerKey /\ VersionCountsEffects => EffectsHappenOnce
    BY DEF EffectsHappenOnce
  <1> QED BY <1>1, OneConclusion, VersionsCount, PTL

----------------------------------------------------------------------------
(* What a committed conclusion stands on.                                  *)

\* The states of a row move forward.
Forward(r, new) ==
    /\ r.state = "SUCCEEDED" => new.state = "SUCCEEDED"
    /\ r.state \in LateStates => new.state \in LateStates
    /\ r.state = "SYNTHESIZING" => new.state \in {"SYNTHESIZING"} \cup LateStates

\* A chain that binds decodes; one that decodes binds once it is validated.
LEMMA ChainBinds ==
    ASSUME NEW r \in Runs, RunOK(r), SealsOK(r)
    PROVE  /\ r.sealed # <<>> /\ Bound(r) => Sound(r.sealed)
           /\ Sound(r.sealed) /\ r.state \in LateStates => Bound(r)
           /\ Len(r.sealed) = 1 => Sound(r.sealed) /\ r.sealed # <<>>
           /\ r.state = "SUCCEEDED" /\ r.sealed # <<>> => Sound(r.sealed)
<1>1. r.sealed \in Seq(Attempts) /\ r.version \in Nat /\ r.state \in RunStates
  BY DEF Runs
<1>2. r.version = StateRank[r.state] + Len(r.sealed)
  BY DEF RunOK
<1>3. CASE r.sealed = <<>>
  BY <1>1, <1>3 DEF Sound
<1>4. CASE Len(r.sealed) = 1
  <2>1. r.sealed[1].kind = "PRIMARY" /\ r.sealed[1].from = 3 /\ r.sealed # <<>>
    BY <1>1, <1>4 DEF SealsOK
  <2>2. Sound(r.sealed)
    BY <1>4, <2>1 DEF Sound, WellFormed
  <2>3. ASSUME r.state \in LateStates PROVE r.version \in AllowedVersions(r)
    <3>1. CASE r.state = "VALIDATING"
      BY <1>2, <1>4, <2>1, <3>1 DEF AllowedVersions, StateRank, RunStates
    <3>2. CASE r.state = "SUCCEEDED"
      BY <1>2, <1>4, <2>1, <3>2 DEF AllowedVersions, StateRank, RunStates
    <3> QED BY <2>3, <3>1, <3>2 DEF LateStates
  <2> QED BY <2>1, <2>2, <2>3 DEF Bound
<1>5. CASE Len(r.sealed) = 2
  <2>1. r.sealed[1].kind = "PRIMARY" /\ r.sealed # <<>>
    BY <1>1, <1>5 DEF SealsOK
  <2>2. CASE r.sealed[2].kind = "PRIMARY" /\ r.sealed[2].from = 3 /\ r.state # "SUCCEEDED"
    <3>1. ~Sound(r.sealed)
      BY <1>5, <2>1, <2>2 DEF Sound, WellFormed
    <3>2. r.version \notin AllowedVersions(r)
      <4>1. CASE r.state = "VALIDATING"
        BY <1>2, <1>5, <2>2, <4>1 DEF AllowedVersions, StateRank, RunStates
      <4>2. CASE r.state # "VALIDATING"
        BY <1>2, <1>5, <2>2, <4>2 DEF AllowedVersions
      <4> QED BY <4>1, <4>2
    <3> QED BY <2>1, <3>1, <3>2, <1>5, <2>2 DEF Bound
  <2>3. CASE r.sealed[2].kind = "REPAIR" /\ r.sealed[2].from = 5
    <3>1. Sound(r.sealed)
      BY <1>5, <2>1, <2>3 DEF Sound, WellFormed
    <3>2. ASSUME r.state \in LateStates PROVE r.version \in AllowedVersions(r)
      <4>1. CASE r.state = "VALIDATING"
        BY <1>2, <1>5, <2>3, <4>1 DEF AllowedVersions, StateRank, RunStates
      <4>2. CASE r.state = "SUCCEEDED"
        BY <1>2, <1>5, <2>3, <4>2 DEF AllowedVersions, StateRank, RunStates
      <4> QED BY <3>2, <4>1, <4>2 DEF LateStates
    <3> QED BY <3>1, <3>2, <2>1, <1>5 DEF Bound
  <2> QED BY <1>5, <2>2, <2>3 DEF SealsOK
<1>6. Len(r.sealed) \in Nat /\ (Len(r.sealed) = 0 => r.sealed = <<>>)
  BY <1>1
<1>7. Len(r.sealed) <= 2
  BY DEF SealsOK
<1>8. r.sealed = <<>> \/ Len(r.sealed) = 1 \/ Len(r.sealed) = 2
  <2>1. \A n \in Nat : n <= 2 => n = 0 \/ n = 1 \/ n = 2
    OBVIOUS
  <2> QED BY <1>6, <1>7, <2>1
<1> QED BY <1>3, <1>4, <1>5, <1>8

\* What a request knows of its chain survives every write of another.
LEMMA SealStable ==
    ASSUME NEW r, NEW new, NEW l, Forward(r, new), SealKnown(l, r)
    PROVE  SealKnown(l, new)
  BY DEF Forward, SealKnown, NotUsed, Repairable, LateStates

\* A request that has ended holds no chain.
LEMMA SealIdle == ASSUME NEW r PROVE SealKnown(Idle, r)
  BY DEF SealKnown, Idle, DecidingLabels

\* A step that leaves the row alone.
LEMMA SealRead ==
    ASSUME SealInvariant, InductiveInvariant', NEW w \in Workers, NEW l,
           SealKnown(l, run), Continue(w, l), run' = run, citations' = citations,
           audits \subseteq audits',
           l.pc \in {"commitRead", "commitSave"} /\ l.hand.mode = "FALLBACK" => InputsAudited'
    PROVE  SealInvariant'
<1>1. me \in [Workers -> Locals]
  BY DEF SealInvariant, InductiveInvariant, TypeOK
<1>2. InputsAudited => InputsAudited'
  BY DEF InputsAudited
<1>3. \A v \in Workers : SealKnown(me'[v], run') /\ AuditKnown(me[v])'
  <2> TAKE v \in Workers
  <2>1. me'[v] = IF v = w THEN l ELSE me[v]
    BY <1>1 DEF Continue
  <2>2. SealKnown(me'[v], run')
    BY <2>1 DEF SealInvariant
  <2>3. AuditKnown(me[v])'
    BY <1>2, <2>1 DEF AuditKnown, SealInvariant
  <2> QED BY <2>2, <2>3
<1>4. run'.result # None => FallbackInputsAudited'
  BY DEF SealInvariant, FallbackInputsAudited
<1>5. SealsOK(run)'
  BY DEF SealInvariant, SealsOK
<1> QED
  BY <1>3, <1>4, <1>5 DEF SealInvariant

\* A write to a row that keeps its result.
LEMMA SealWrite ==
    ASSUME SealInvariant, InductiveInvariant', NEW w \in Workers, NEW l, NEW new,
           run' = new, SealsOK(new), Forward(run, new), new.result = run.result,
           SealKnown(l, new), Continue(w, l), citations' = citations,
           audits \subseteq audits', l.pc \notin {"commitRead", "commitSave"}
    PROVE  SealInvariant'
<1>1. me \in [Workers -> Locals]
  BY DEF SealInvariant, InductiveInvariant, TypeOK
<1>2. InputsAudited => InputsAudited'
  BY DEF InputsAudited
<1>3. \A v \in Workers : SealKnown(me'[v], run') /\ AuditKnown(me[v])'
  <2> TAKE v \in Workers
  <2>1. me'[v] = IF v = w THEN l ELSE me[v]
    BY <1>1 DEF Continue
  <2>2. SealKnown(me'[v], run')
    BY <2>1, SealStable DEF SealInvariant
  <2>3. AuditKnown(me[v])'
    BY <1>2, <2>1 DEF AuditKnown, SealInvariant
  <2> QED BY <2>2, <2>3
<1>4. run'.result # None => FallbackInputsAudited'
  BY DEF SealInvariant, FallbackInputsAudited
<1>5. SealsOK(run)'
  BY DEF SealsOK
<1> QED
  BY <1>3, <1>4, <1>5 DEF SealInvariant

\* A step that changes neither the row nor a request.
LEMMA SealStutter ==
    ASSUME SealInvariant, InductiveInvariant', run' = run, me' = me,
           citations' = citations, audits \subseteq audits'
    PROVE  SealInvariant'
<1>1. InputsAudited => InputsAudited'
  BY DEF InputsAudited
<1>2. \A v \in Workers : SealKnown(me'[v], run') /\ AuditKnown(me[v])'
  BY <1>1 DEF SealInvariant, AuditKnown
<1>3. run'.result # None => FallbackInputsAudited'
  BY DEF SealInvariant, FallbackInputsAudited
<1>4. SealsOK(run)'
  BY DEF SealInvariant, SealsOK
<1> QED BY <1>2, <1>3, <1>4 DEF SealInvariant

\* Facts about a request, its chain and the row, used by every action below.
LEMMA SealFacts ==
    ASSUME SealInvariant, NEW w \in Workers
    PROVE  /\ me[w] \in Locals /\ LocalOK(me[w], run)
           /\ run \in Runs /\ RunOK(run) /\ SealsOK(run) /\ InductiveInvariant
           /\ SealKnown(me[w], run) /\ AuditKnown(me[w])
  BY Facts DEF SealInvariant

\* Labels at which a request knows nothing of seals.
PlainLabels == {"idle", "requestRead", "requestSave", "createBundle", "freezeRead",
                "freezeSave", "conclude", "beginRead", "beginSave"}

\* There the chain it holds says nothing.
LEMMA SealPlain ==
    ASSUME NEW l, NEW r, l.pc \in PlainLabels, l.path = "MODEL"
    PROVE  SealKnown(l, r) /\ l.pc \notin {"commitRead", "commitSave"}
  BY DEF SealKnown, PlainLabels, DecidingLabels

\* A request that ends, whatever it left in the audit log.
LEMMA SealEnds ==
    ASSUME SealInvariant, InductiveInvariant', NEW w \in Workers, Continue(w, Idle),
           run' = run, citations' = citations, audits \subseteq audits'
    PROVE  SealInvariant'
<1>1. SealKnown(Idle, run) /\ Idle.pc \notin {"commitRead", "commitSave"}
  BY SealPlain DEF Idle, PlainLabels
<1> QED BY <1>1, SealRead

\* conclude() puts a request on a chain that binds, on a new one, or on none.
LEMMA SealDispatch ==
    ASSUME NEW w \in Workers, me[w] \in Locals, me[w].path = "MODEL",
           NEW r \in Runs, RunOK(r), SealsOK(r), Dispatch(w, r)
    PROVE  \E l : /\ SealKnown(l, r) /\ Continue(w, l)
                  /\ l.pc \notin {"commitRead", "commitSave"}
                  /\ audits \subseteq audits'
<1> DEFINE me0 == [me[w] EXCEPT !.snap = r, !.hand = None]
           lp == [me0 EXCEPT !.pc = "callPrimary"]
           lv == ToValidation(me0, r.sealed)
           lm == ToFallback(me0, <<>>, "SEALED_RESPONSE_MISSING")
<1>1. me0.path = "MODEL" /\ me0.snap = r
  BY DEF Locals
<1>2. /\ lp.pc = "callPrimary" /\ lp.path = "MODEL" /\ lp.snap = r
      /\ lv.pc = "validateRead" /\ lv.path = "MODEL" /\ lv.dig = r.sealed
      /\ lm.pc = "fallbackRead" /\ lm.path = "FALLBACK" /\ lm.dig = <<>>
  BY <1>1 DEF Locals, ToValidation, ToFallback
<1>3. audits \subseteq audits'
  BY DEF Dispatch, Audit
<1>4. SealKnown(Idle, r) /\ Idle.pc = "idle"
  BY SealIdle DEF Idle
<1>5. CASE r.state \notin {"SYNTHESIZING", "VALIDATING"} \/ ~Bound(r)
  <2>1. Continue(w, Idle)
    BY <1>5 DEF Dispatch, Fail
  <2> QED BY <1>3, <1>4, <2>1
<1>6. CASE r.state \in {"SYNTHESIZING", "VALIDATING"} /\ Bound(r)
  <2>1. WellFormed(r.sealed)
    BY <1>6, ChainBinds DEF WellFormed, Sound
  <2>2. CASE r.sealed # <<>>
    <3>1. Continue(w, lv)
      BY <1>6, <2>1, <2>2 DEF Dispatch
    <3>2. SealKnown(lv, r)
      <4> HIDE DEF lv
      <4> QED BY <1>2, <1>6, <2>1, <2>2 DEF SealKnown, DecidingLabels, LateStates, Sound
    <3> QED BY <1>2, <1>3, <3>1, <3>2
  <2>3. CASE r.sealed = <<>> /\ r.state = "SYNTHESIZING"
    <3>1. Continue(w, lp)
      BY <1>6, <2>1, <2>3 DEF Dispatch
    <3>2. r.version = 3
      BY <2>3 DEF RunOK, StateRank, RunStates
    <3>3. SealKnown(lp, r)
      <4> HIDE DEF lp
      <4> QED BY <1>2, <2>3, <3>2 DEF SealKnown, DecidingLabels
    <3> QED BY <1>2, <1>3, <3>1, <3>3
  <2>4. CASE r.sealed = <<>> /\ r.state # "SYNTHESIZING"
    <3>1. Continue(w, lm)
      BY <1>6, <2>1, <2>4 DEF Dispatch
    <3>2. SealKnown(lm, r)
      <4> HIDE DEF lm
      <4> QED BY <1>2, <2>4 DEF SealKnown, DecidingLabels, NotUsed, Unusable
    <3> QED BY <1>2, <1>3, <3>1, <3>2
  <2> QED BY <2>2, <2>3, <2>4
<1> QED BY <1>5, <1>6

\* Requests that look at the row, before and at conclude().
LEMMA SealEarlyReads ==
    ASSUME SealInvariant, InductiveInvariant', NEW w \in Workers,
           \/ RequestBundleRead(w) \/ (\E b \in Bundles : CreateBundle(w, b))
           \/ CreateBundleFails(w) \/ FreezeBundleRead(w) \/ ModelGate(w)
           \/ Conclude(w) \/ BeginSynthesisRead(w)
    PROVE  SealInvariant'
<1> USE SealFacts
<1>1. me[w].path = "MODEL"
  BY DEF RequestBundleRead, CreateBundle, CreateBundleFails, FreezeBundleRead,
         ModelGate, Conclude, BeginSynthesisRead, SealKnown, DecidingLabels
<1>2. run' = run /\ citations' = citations
  BY DEF RequestBundleRead, CreateBundle, CreateBundleFails, FreezeBundleRead,
         ModelGate, Conclude, BeginSynthesisRead
<1>3. CASE Continue(w, Idle) /\ audits' = audits
  BY <1>2, <1>3, SealEnds
<1>4. ASSUME NEW l, l.pc \in PlainLabels, l.path = "MODEL", Continue(w, l), audits' = audits
      PROVE  SealInvariant'
  BY <1>2, <1>4, SealPlain, SealRead
<1>5. CASE Dispatch(w, run)
  <2>1. PICK l : /\ SealKnown(l, run) /\ Continue(w, l)
                 /\ l.pc \notin {"commitRead", "commitSave"}
                 /\ audits \subseteq audits'
    BY <1>1, <1>5, SealDispatch
  <2> QED BY <1>2, <2>1, SealRead
<1>6. CASE RequestBundleRead(w)
  <2> DEFINE ls == [me[w] EXCEPT !.pc = "requestSave", !.snap = run]
             lc == [me[w] EXCEPT !.pc = "createBundle"]
  <2>1. /\ ls.pc \in PlainLabels /\ ls.path = "MODEL"
        /\ lc.pc \in PlainLabels /\ lc.path = "MODEL"
    BY <1>1 DEF Locals, PlainLabels
  <2>2. (Continue(w, ls) \/ Continue(w, lc)) /\ audits' = audits
    BY <1>6 DEF RequestBundleRead
  <2> HIDE DEF ls, lc
  <2> QED BY <1>4, <2>1, <2>2
<1>7. ASSUME NEW b \in Bundles, CreateBundle(w, b) PROVE SealInvariant'
  <2> DEFINE l == [me[w] EXCEPT !.pc = "freezeRead", !.hand = b]
  <2>1. l.pc \in PlainLabels /\ l.path = "MODEL"
    BY <1>1 DEF Locals, PlainLabels
  <2>2. Continue(w, l) /\ audits' = audits
    BY <1>7 DEF CreateBundle
  <2> HIDE DEF l
  <2> QED BY <1>4, <2>1, <2>2
<1>8. CASE CreateBundleFails(w) \/ ModelGate(w)
  BY <1>3, <1>8 DEF CreateBundleFails, ModelGate, Fail
<1>9. CASE FreezeBundleRead(w)
  <2> DEFINE ls == [me[w] EXCEPT !.pc = "freezeSave", !.snap = run]
             lc == [me[w] EXCEPT !.pc = "conclude", !.hand = None]
  <2>1. /\ ls.pc \in PlainLabels /\ ls.path = "MODEL"
        /\ lc.pc \in PlainLabels /\ lc.path = "MODEL"
    BY <1>1 DEF Locals, PlainLabels
  <2>2. (Continue(w, ls) \/ Continue(w, lc) \/ Continue(w, Idle)) /\ audits' = audits
    BY <1>9 DEF FreezeBundleRead, Fail
  <2> HIDE DEF ls, lc
  <2> QED BY <1>3, <1>4, <2>1, <2>2
<1>10. CASE Conclude(w)
  <2> DEFINE l == [me[w] EXCEPT !.pc = "beginRead"]
  <2>1. l.pc \in PlainLabels /\ l.path = "MODEL"
    BY <1>1 DEF Locals, PlainLabels
  <2>2. \/ Continue(w, Idle) /\ audits' = audits
        \/ Continue(w, l) /\ audits' = audits
        \/ Dispatch(w, run)
    BY <1>10 DEF Conclude, Answer
  <2> HIDE DEF l
  <2> QED BY <1>3, <1>4, <1>5, <2>1, <2>2
<1>11. CASE BeginSynthesisRead(w)
  <2> DEFINE l == [me[w] EXCEPT !.pc = "beginSave", !.snap = run]
  <2>1. l.pc \in PlainLabels /\ l.path = "MODEL"
    BY <1>1 DEF Locals, PlainLabels
  <2>2. \/ Continue(w, l) /\ audits' = audits
        \/ Dispatch(w, run)
    BY <1>11 DEF BeginSynthesisRead
  <2> HIDE DEF l
  <2> QED BY <1>4, <1>5, <2>1, <2>2
<1> QED BY <1>6, <1>7, <1>8, <1>9, <1>10, <1>11

\* Model calls and their sealing up to the write.
LEMMA SealModelReads ==
    ASSUME SealInvariant, InductiveInvariant', NEW w \in Workers,
           \/ CallPrimary(w) \/ CallRepair(w) \/ ModelUnavailable(w)
           \/ SealAttemptRead(w) \/ RepairRead(w) \/ RepairBound(w)
    PROVE  SealInvariant'
<1> USE SealFacts
<1>1. me[w].path = "MODEL"
  BY DEF CallPrimary, CallRepair, ModelUnavailable, SealAttemptRead, RepairRead,
         RepairBound, SealKnown, DecidingLabels
<1>2. run' = run /\ citations' = citations /\ audits \subseteq audits'
  BY DEF CallPrimary, CallRepair, ModelUnavailable, SealAttemptRead, RepairRead,
         RepairBound, RejectConcurrent, Audit
<1>3. CASE Continue(w, Idle)
  BY <1>2, <1>3, SealEnds
<1>4. ASSUME NEW l, SealKnown(l, run), Continue(w, l), l.pc \notin {"commitRead", "commitSave"}
      PROVE  SealInvariant'
  BY <1>2, <1>4, SealRead
<1>5. ASSUME NEW kind, NEW resp, Continue(w, Sealable(w, kind, resp)),
             IF kind = "PRIMARY" THEN me[w].snap.version = 3
             ELSE /\ run.state \in LateStates /\ Repairable(me[w].dig, run)
                  /\ run.state = "SUCCEEDED" \/ me[w].snap.version = 5
      PROVE  SealInvariant'
  <2> DEFINE a == [kind |-> kind, resp |-> resp, from |-> me[w].snap.version]
             l == [me[w] EXCEPT !.pc = "sealRead", !.snap = NoRun, !.hand = a]
  <2>1. a.kind = kind /\ a.from = me[w].snap.version
    OBVIOUS
  <2>2. Continue(w, l)
    BY <1>5 DEF Sealable
  <2> HIDE DEF a
  <2>3. l.pc = "sealRead" /\ l.hand = a /\ l.path = "MODEL" /\ l.dig = me[w].dig
    BY <1>1 DEF Locals
  <2> HIDE DEF l
  <2>4. SealKnown(l, run)
    BY <1>5, <2>1, <2>3 DEF SealKnown, DecidingLabels
  <2> QED BY <1>4, <2>2, <2>3, <2>4
<1>6. CASE CallPrimary(w)
  BY <1>5, <1>6 DEF CallPrimary, SealKnown
<1>7. CASE CallRepair(w)
  BY <1>5, <1>7 DEF CallRepair, SealKnown
<1>8. CASE ModelUnavailable(w)
  <2> DEFINE why == IF me[w].pc = "callPrimary" THEN "MODEL_UNAVAILABLE" ELSE "MODEL_REPAIR_FAILED"
             l == ToFallback(me[w], me[w].snap.sealed, why)
  <2>1. Continue(w, l)
    BY <1>8 DEF ModelUnavailable
  <2> HIDE DEF why
  <2>2. l.pc = "fallbackRead" /\ l.path = "FALLBACK" /\ l.dig = me[w].snap.sealed
    BY DEF ToFallback, Locals
  <2>3. NotUsed(me[w].snap.sealed, run)
    BY <1>8 DEF ModelUnavailable, SealKnown, Repairable, NotUsed, Unusable
  <2> HIDE DEF l
  <2>4. SealKnown(l, run)
    BY <2>2, <2>3 DEF SealKnown, DecidingLabels
  <2> QED BY <1>4, <2>1, <2>2, <2>4
<1>9. CASE SealAttemptRead(w)
  <2> DEFINE l == [me[w] EXCEPT !.pc = "sealSave", !.snap = run]
  <2>1. \/ Continue(w, Idle)
        \/ Continue(w, l) /\ Len(run.sealed) < 2
    BY <1>9 DEF SealAttemptRead, Fail
  <2>2. /\ l.pc = "sealSave" /\ l.path = "MODEL" /\ l.snap = run
        /\ l.hand = me[w].hand /\ l.dig = me[w].dig
    BY <1>1 DEF Locals
  <2> HIDE DEF l
  <2>3. Len(run.sealed) < 2 => SealKnown(l, run)
    BY <1>9, <2>2 DEF SealAttemptRead, SealKnown, DecidingLabels
  <2> QED BY <1>3, <1>4, <2>1, <2>2, <2>3
<1>10. CASE RepairRead(w)
  <2> DEFINE l == [me[w] EXCEPT !.pc = "callRepair", !.snap = run]
  <2>1. \/ Continue(w, Idle)
        \/ Continue(w, l) /\ run.sealed = me[w].dig
    BY <1>10 DEF RepairRead, RejectConcurrent, Fail
  <2>2. l.pc = "callRepair" /\ l.path = "MODEL" /\ l.snap = run /\ l.dig = me[w].dig
    BY <1>1 DEF Locals
  <2>3. Repairable(me[w].dig, run) /\ run.state \in LateStates
    BY <1>10 DEF RepairRead, SealKnown
  <2>4. ASSUME run.sealed = me[w].dig
        PROVE  run.state = "SUCCEEDED" \/ run.version = 5
    <3>1. Len(run.sealed) = 1
      BY <2>3, <2>4 DEF Repairable
    <3>2. run.version = StateRank[run.state] + 1
      BY <3>1 DEF RunOK
    <3> QED BY <2>3, <3>2 DEF LateStates, StateRank, RunStates
  <2> HIDE DEF l
  <2>5. run.sealed = me[w].dig => SealKnown(l, run)
    BY <2>2, <2>3, <2>4 DEF SealKnown, DecidingLabels
  <2> QED BY <1>3, <1>4, <2>1, <2>2, <2>5
<1>11. CASE RepairBound(w)
  <2> DEFINE lv == ToValidation(me[w], run.sealed)
  <2>1. Sound(me[w].dig) /\ run.state \in LateStates
    BY <1>1, <1>11 DEF RepairBound, SealKnown
  <2>2. \/ Continue(w, Idle)
        \/ Continue(w, lv) /\ run.sealed = me[w].dig
    BY <1>11, <2>1 DEF RepairBound, RejectConcurrent, Fail, Sound
  <2>3. lv.pc = "validateRead" /\ lv.path = "MODEL" /\ lv.dig = run.sealed
    BY <1>1 DEF Locals, ToValidation
  <2> HIDE DEF lv
  <2>4. run.sealed = me[w].dig => SealKnown(lv, run)
    BY <2>1, <2>3 DEF SealKnown, DecidingLabels
  <2> QED BY <1>3, <1>4, <2>2, <2>3, <2>4
<1> QED BY <1>6, <1>7, <1>8, <1>9, <1>10, <1>11

\* After an unusable output: a repair of the chain or the fallback over it.
LEMMA SealInvalidOutput ==
    ASSUME NEW w \in Workers, me[w] \in Locals, me[w].path = "MODEL",
           Sound(me[w].dig), NotUsed(me[w].dig, run), run.state \in LateStates
    PROVE  LET l == AfterInvalidOutput(me[w])
           IN  SealKnown(l, run) /\ l.pc \notin {"commitRead", "commitSave"}
<1> DEFINE lr == [me[w] EXCEPT !.pc = "repairRead", !.snap = NoRun]
           lf == ToFallback(me[w], me[w].dig, "MODEL_REPAIR_FAILED")
<1>1. /\ lr.pc = "repairRead" /\ lr.path = "MODEL" /\ lr.dig = me[w].dig
      /\ lf.pc = "fallbackRead" /\ lf.path = "FALLBACK" /\ lf.dig = me[w].dig
  BY DEF Locals, ToFallback
<1>2. AfterInvalidOutput(me[w]) = IF Len(me[w].dig) = 1 THEN lr ELSE lf
  BY DEF AfterInvalidOutput
<1> HIDE DEF lr, lf
<1>3. Len(me[w].dig) = 1 => SealKnown(lr, run)
  BY <1>1 DEF SealKnown, DecidingLabels, Repairable
<1>4. SealKnown(lf, run)
  BY <1>1 DEF SealKnown, DecidingLabels
<1> QED BY <1>1, <1>2, <1>3, <1>4

\* Validation, fallback and the read before the commit.
LEMMA SealValidationReads ==
    ASSUME SealInvariant, InductiveInvariant', NEW w \in Workers,
           \/ BeginValidationRead(w) \/ BoundRead(w) \/ FallbackRead(w)
           \/ FallbackAudit(w) \/ FallbackRaises(w) \/ CommitRead(w)
    PROVE  SealInvariant'
<1> USE SealFacts
<1>1. run' = run /\ citations' = citations /\ audits \subseteq audits'
  BY DEF BeginValidationRead, BoundRead, FallbackRead, FallbackAudit, FallbackRaises,
         CommitRead,
         AuditFallback, RejectConcurrent, Audit
<1>2. CASE Continue(w, Idle)
  BY <1>1, <1>2, SealEnds
<1>3. ASSUME NEW l, SealKnown(l, run), Continue(w, l), l.pc \notin {"commitRead", "commitSave"}
      PROVE  SealInvariant'
  BY <1>1, <1>3, SealRead
<1>4. me[w].path \in {"MODEL", "FALLBACK"}
  BY DEF Locals
<1>5. CASE BeginValidationRead(w)
  <2> DEFINE ls == [me[w] EXCEPT !.pc = "validateSave", !.snap = run]
             lb == [me[w] EXCEPT !.snap = run, !.pc = "boundRead"]
             la == [me[w] EXCEPT !.snap = run, !.pc = "fallbackAudit"]
  <2>1. /\ me[w].path = "MODEL" => Sound(me[w].dig)
        /\ me[w].path = "FALLBACK" => NotUsed(me[w].dig, run)
        /\ run.state \in {"SYNTHESIZING"} \cup LateStates
    BY <1>5 DEF BeginValidationRead, SealKnown
  <2>2. \/ Continue(w, Idle)
        \/ Continue(w, ls) /\ run.state = "SYNTHESIZING"
        \/ Continue(w, lb) /\ me[w].path = "MODEL" /\ run.state = "VALIDATING"
        \/ Continue(w, la) /\ me[w].path = "FALLBACK"
        \/ /\ Continue(w, AfterInvalidOutput(me[w])) /\ me[w].path = "MODEL"
           /\ run.state \notin {"SYNTHESIZING", "VALIDATING"}
    BY <1>4, <1>5 DEF BeginValidationRead, RejectConcurrent, Fail
  <2>3. /\ ls.pc = "validateSave" /\ ls.path = me[w].path /\ ls.dig = me[w].dig
        /\ lb.pc = "boundRead" /\ lb.path = me[w].path /\ lb.dig = me[w].dig
        /\ la.pc = "fallbackAudit" /\ la.path = me[w].path /\ la.dig = me[w].dig
    BY DEF Locals
  <2> HIDE DEF ls, lb, la
  <2>4. SealKnown(ls, run)
    BY <2>1, <2>3 DEF SealKnown, DecidingLabels
  <2>5. run.state = "VALIDATING" /\ me[w].path = "MODEL" => SealKnown(lb, run)
    BY <2>1, <2>3 DEF SealKnown, DecidingLabels, LateStates
  <2>6. me[w].path = "FALLBACK" => SealKnown(la, run)
    BY <2>1, <2>3 DEF SealKnown, DecidingLabels
  <2>7. ASSUME me[w].path = "MODEL", run.state \notin {"SYNTHESIZING", "VALIDATING"},
               Continue(w, AfterInvalidOutput(me[w]))
        PROVE  SealInvariant'
    <3>1. run.state \in LateStates /\ NotUsed(me[w].dig, run) /\ Sound(me[w].dig)
      BY <2>1, <2>7 DEF LateStates, NotUsed
    <3> QED BY <1>3, <2>7, <3>1, SealInvalidOutput
  <2> QED BY <1>2, <1>3, <2>2, <2>3, <2>4, <2>5, <2>6, <2>7
<1>6. CASE BoundRead(w)
  <2>1. me[w].path = "MODEL" /\ Sound(me[w].dig) /\ run.state \in LateStates
    BY <1>6 DEF BoundRead, SealKnown, DecidingLabels
  <2>2. CASE run.sealed # me[w].dig
    BY <1>2, <1>6, <2>2 DEF BoundRead, RejectConcurrent, Fail
  <2>3. CASE run.sealed = me[w].dig /\ Usable(run)
    <3>1. PICK t \in Instants :
              Continue(w, [me[w] EXCEPT !.pc = "commitRead",
                !.hand = [mode |-> "MODEL", resp |-> Latest(run.sealed).resp,
                          bundle |-> run.bundle, created_at |-> t]])
      BY <1>6, <2>3 DEF BoundRead
    <3> DEFINE h == [mode |-> "MODEL", resp |-> Latest(run.sealed).resp,
                     bundle |-> run.bundle, created_at |-> t]
               l == [me[w] EXCEPT !.pc = "commitRead", !.hand = h]
    <3>2. h.mode = "MODEL" /\ h.resp = Latest(run.sealed).resp
      OBVIOUS
    <3>3. Continue(w, l)
      BY <3>1
    <3> HIDE DEF h
    <3>4. l.pc = "commitRead" /\ l.hand = h /\ l.path = "MODEL" /\ l.dig = me[w].dig
      BY <2>1 DEF Locals
    <3> HIDE DEF l
    <3>5. SealKnown(l, run)
      BY <2>1, <2>3, <3>2, <3>4 DEF SealKnown, DecidingLabels, Usable
    <3> QED BY <1>1, <3>2, <3>3, <3>4, <3>5, SealRead
  <2>4. CASE run.sealed = me[w].dig /\ ~Usable(run)
    <3>1. Bound(run)
      BY <2>1, <2>4, ChainBinds
    <3>2. NotUsed(me[w].dig, run)
      BY <2>1, <2>4, <3>1 DEF Usable, NotUsed, Unusable, Sound
    <3>3. Continue(w, AfterInvalidOutput(me[w]))
      BY <1>6, <2>4 DEF BoundRead
    <3> QED BY <1>3, <2>1, <3>2, <3>3, SealInvalidOutput
  <2> QED BY <2>2, <2>3, <2>4
<1>7. CASE FallbackRead(w)
  <2> DEFINE lv == [me[w] EXCEPT !.snap = run, !.pc = "validateRead"]
             la == [me[w] EXCEPT !.snap = run, !.pc = "fallbackAudit"]
  <2>1. me[w].path = "FALLBACK" /\ NotUsed(me[w].dig, run)
    BY <1>7 DEF FallbackRead, SealKnown
  <2>2. \/ Continue(w, Idle)
        \/ Continue(w, lv) /\ run.state = "SYNTHESIZING"
        \/ Continue(w, la)
    BY <1>7 DEF FallbackRead, RejectConcurrent, Answer, Fail
  <2>3. /\ lv.pc = "validateRead" /\ lv.path = "FALLBACK" /\ lv.dig = me[w].dig
        /\ la.pc = "fallbackAudit" /\ la.path = "FALLBACK" /\ la.dig = me[w].dig
    BY <2>1 DEF Locals
  <2> HIDE DEF lv, la
  <2>4. /\ run.state = "SYNTHESIZING" => SealKnown(lv, run)
        /\ SealKnown(la, run)
    BY <2>1, <2>3 DEF SealKnown, DecidingLabels
  <2> QED BY <1>2, <1>3, <2>2, <2>3, <2>4
<1>8. CASE FallbackAudit(w)
  <2>1. me[w].path = "FALLBACK" /\ NotUsed(me[w].dig, run)
    BY <1>8 DEF FallbackAudit, SealKnown
  <2>2. PICK t \in Instants :
            Continue(w, [me[w] EXCEPT !.pc = "commitRead",
              !.hand = [mode |-> "FALLBACK", resp |-> None,
                        bundle |-> me[w].snap.bundle, created_at |-> t]])
    BY <1>8 DEF FallbackAudit
  <2> DEFINE h == [mode |-> "FALLBACK", resp |-> None,
                   bundle |-> me[w].snap.bundle, created_at |-> t]
             l == [me[w] EXCEPT !.pc = "commitRead", !.hand = h]
  <2>3. h.mode = "FALLBACK" /\ Continue(w, l)
    BY <2>2
  <2> HIDE DEF h
  <2>4. l.pc = "commitRead" /\ l.hand = h /\ l.path = "FALLBACK" /\ l.dig = me[w].dig
    BY <2>1 DEF Locals
  <2> HIDE DEF l
  <2>5. SealKnown(l, run)
    BY <2>1, <2>3, <2>4 DEF SealKnown, DecidingLabels
  <2>6. InputsAudited'
    <3>1. <<"MODEL_FALLBACK_INPUT", me[w].reason>> \in audits'
      BY <1>8 DEF FallbackAudit, AuditFallback, Audit
    <3> QED BY <3>1 DEF InputsAudited
  <2> QED BY <1>1, <2>3, <2>5, <2>6, SealRead
<1>10. CASE FallbackRaises(w)
  BY <1>2, <1>10 DEF FallbackRaises, Fail
<1>9. CASE CommitRead(w)
  <2> DEFINE l == [me[w] EXCEPT !.pc = "commitSave", !.snap = run]
  <2>1. Continue(w, Idle) \/ Continue(w, l)
    BY <1>9 DEF CommitRead, Answer, Fail
  <2>2. /\ l.pc = "commitSave" /\ l.hand = me[w].hand
        /\ l.path = me[w].path /\ l.dig = me[w].dig
    BY DEF Locals
  <2> HIDE DEF l
  <2>3. SealKnown(l, run)
    BY <1>9, <2>2 DEF CommitRead, SealKnown, DecidingLabels
  <2>4. l.hand.mode = "FALLBACK" => InputsAudited'
    BY <1>1, <1>9, <2>2 DEF CommitRead, AuditKnown, InputsAudited
  <2> QED BY <1>1, <1>2, <2>1, <2>3, <2>4, SealRead
<1> QED BY <1>5, <1>6, <1>7, <1>8, <1>9, <1>10

\* A transition before validation: nothing is sealed yet.
LEMMA SealEarlySaves ==
    ASSUME SealInvariant, InductiveInvariant', NEW w \in Workers,
           RequestBundleSave(w) \/ FreezeBundleSave(w) \/ BeginSynthesisSave(w)
    PROVE  SealInvariant'
<1> USE SealFacts
<1>1. /\ me[w].snap = run /\ me[w].path = "MODEL"
      /\ run.state \in {"RECEIVED", "BUNDLE_REQUESTED", "BUNDLE_FROZEN"}
      /\ run.sealed = <<>> /\ run.result = None
      /\ citations' = citations
  <2>1. /\ me[w].pc \in {"requestSave", "freezeSave", "beginSave"}
        /\ citations' = citations
    BY DEF RequestBundleSave, FreezeBundleSave, BeginSynthesisSave
  <2>2. me[w].snap = run
    BY <2>1, CasGivesRow DEF RequestBundleSave, FreezeBundleSave, BeginSynthesisSave, SaveLabels
  <2>3. run.state \in {"RECEIVED", "BUNDLE_REQUESTED", "BUNDLE_FROZEN"}
    BY <2>1, <2>2 DEF LocalOK
  <2>4. run.sealed = <<>> /\ run.result = None
    BY <2>3 DEF RunOK
  <2>5. me[w].path = "MODEL"
    BY <2>1 DEF SealKnown, DecidingLabels
  <2> QED BY <2>1, <2>2, <2>3, <2>4, <2>5
<1>2. run' \in Runs /\ RunOK(run')
  BY DEF InductiveInvariant, TypeOK, RunOK
<1>3. run'.sealed = <<>> /\ run'.result = None
  BY <1>1 DEF RequestBundleSave, FreezeBundleSave, BeginSynthesisSave, Saved, Transition, Runs
<1>4. SealsOK(run') /\ Forward(run, run')
  BY <1>1, <1>3 DEF SealsOK, Forward, LateStates
<1>5. ASSUME NEW l, SealKnown(l, run'), Continue(w, l), audits \subseteq audits',
             l.pc \notin {"commitRead", "commitSave"}
      PROVE  SealInvariant'
  <2>1. run'.result = run.result
    BY <1>1, <1>3
  <2> QED BY <1>1, <1>4, <1>5, <2>1, SealWrite
<1>6. CASE RequestBundleSave(w)
  <2> DEFINE l == [me[w] EXCEPT !.pc = "createBundle", !.snap = NoRun]
  <2>1. l.pc \in PlainLabels /\ l.path = "MODEL"
    BY <1>1 DEF Locals, PlainLabels
  <2>2. Continue(w, l) /\ audits' = audits
    BY <1>6 DEF RequestBundleSave
  <2> HIDE DEF l
  <2> QED BY <1>5, <2>1, <2>2, SealPlain
<1>7. CASE FreezeBundleSave(w)
  <2> DEFINE l == [me[w] EXCEPT !.pc = "conclude", !.snap = NoRun, !.hand = None]
  <2>1. l.pc \in PlainLabels /\ l.path = "MODEL"
    BY <1>1 DEF Locals, PlainLabels
  <2>2. Continue(w, l) /\ audits' = audits
    BY <1>7 DEF FreezeBundleSave
  <2> HIDE DEF l
  <2> QED BY <1>5, <2>1, <2>2, SealPlain
<1>8. CASE BeginSynthesisSave(w)
  <2> DEFINE new == Saved(Transition(me[w].snap, "SYNTHESIZING"))
  <2>1. run' = new /\ Dispatch(w, new)
    BY <1>8 DEF BeginSynthesisSave
  <2> HIDE DEF new
  <2>2. new \in Runs /\ RunOK(new) /\ SealsOK(new)
    BY <1>2, <1>4, <2>1
  <2>3. PICK l : /\ SealKnown(l, new) /\ Continue(w, l)
                 /\ l.pc \notin {"commitRead", "commitSave"}
                 /\ audits \subseteq audits'
    BY <1>1, <2>1, <2>2, SealDispatch
  <2> QED BY <1>5, <2>1, <2>3
<1> QED BY <1>6, <1>7, <1>8

\* Into validation, with the chain the request expects.
LEMMA SealValidationSave ==
    ASSUME SealInvariant, InductiveInvariant', NEW w \in Workers, BeginValidationSave(w)
    PROVE  SealInvariant'
<1> USE SealFacts
<1> DEFINE new == Saved(Transition(me[w].snap, "VALIDATING"))
           label == IF me[w].path = "MODEL" THEN "boundRead" ELSE "fallbackAudit"
           l == [me[w] EXCEPT !.snap = new, !.pc = label]
<1>1. /\ me[w].snap = run /\ run.state = "SYNTHESIZING" /\ run.result = None
      /\ me[w].path \in {"MODEL", "FALLBACK"}
      /\ me[w].path = "MODEL" => Sound(me[w].dig)
      /\ me[w].path = "FALLBACK" => NotUsed(me[w].dig, run)
  <2>1. me[w].snap = run /\ me[w].pc = "validateSave"
    BY CasGivesRow DEF BeginValidationSave, SaveLabels
  <2>2. run.state = "SYNTHESIZING"
    BY <2>1 DEF LocalOK
  <2>3. run.result = None /\ me[w].path \in {"MODEL", "FALLBACK"}
    BY <2>2 DEF RunOK, Locals
  <2> QED BY <2>1, <2>2, <2>3 DEF SealKnown
<1>2. /\ new.state = "VALIDATING" /\ new.sealed = run.sealed /\ new.result = None
  BY <1>1 DEF Saved, Transition, Runs
<1>3. run' = new /\ Continue(w, l) /\ audits' = audits /\ citations' = citations
  BY DEF BeginValidationSave
<1> HIDE DEF new
<1>4. SealsOK(new) /\ Forward(run, new)
  BY <1>1, <1>2 DEF SealsOK, Forward, LateStates
<1>5. l.pc = label /\ l.path = me[w].path /\ l.dig = me[w].dig
  BY DEF Locals
<1>6. /\ me[w].path = "MODEL" => label = "boundRead"
      /\ me[w].path = "FALLBACK" => label = "fallbackAudit"
  OBVIOUS
<1> HIDE DEF l, label
<1>7. SealKnown(l, new)
  <2>1. CASE me[w].path = "MODEL"
    BY <1>1, <1>2, <1>5, <1>6, <2>1 DEF SealKnown, DecidingLabels, LateStates
  <2>2. CASE me[w].path = "FALLBACK"
    <3>1. NotUsed(me[w].dig, new)
      BY <1>1, <2>2 DEF NotUsed
    <3> QED BY <1>5, <1>6, <2>2, <3>1 DEF SealKnown, DecidingLabels
  <2> QED BY <1>1, <2>1, <2>2
<1>8. l.pc \notin {"commitRead", "commitSave"} /\ new.result = run.result
  BY <1>1, <1>2, <1>5, <1>6
<1> QED BY <1>3, <1>4, <1>7, <1>8, SealWrite

\* A new attempt: a primary sealed from version 3, whoever was first, or the
\* repair of an unusable primary, sealed from version 5.
LEMMA SealNewAttempt ==
    ASSUME SealInvariant, InductiveInvariant', NEW w \in Workers, SealAttemptSave(w)
    PROVE  SealInvariant'
<1> USE SealFacts
<1> DEFINE hand == me[w].hand
           row == SealedRow(me[w].snap, hand)
           chain == Append(run.sealed, hand)
           lv == ToValidation(me[w], row.sealed)
           lr == [lv EXCEPT !.pc = "repairBound"]
<1>1. /\ me[w].snap = run /\ run.state \in {"SYNTHESIZING", "VALIDATING"}
      /\ hand \in Attempts /\ run.result = None /\ me[w].path = "MODEL"
      /\ Len(run.sealed) < 2
  <2>1. me[w].snap = run /\ me[w].pc = "sealSave"
    BY CasGivesRow DEF SealAttemptSave, SaveLabels
  <2>2. run.state \in {"SYNTHESIZING", "VALIDATING"} /\ hand \in Attempts
    BY <2>1 DEF LocalOK
  <2>3. run.result = None
    BY <2>2 DEF RunOK
  <2> QED BY <2>1, <2>2, <2>3 DEF SealKnown, DecidingLabels
<1>2. run.sealed \in Seq(Attempts) /\ Len(run.sealed) \in Nat
  BY DEF Runs
<1>3. /\ row.sealed = chain /\ Saved(row).sealed = chain
      /\ Saved(row).state = run.state /\ Saved(row).result = None
  BY <1>1 DEF Saved, SealedRow, Runs
<1>4. /\ run' = Saved(row) /\ audits' = audits /\ citations' = citations
      /\ IF hand.kind = "REPAIR" THEN Continue(w, lr)
         ELSE (Continue(w, lv) /\ WellFormed(chain)) \/ Continue(w, Idle)
  BY <1>3 DEF SealAttemptSave
<1>5. /\ Len(chain) = Len(run.sealed) + 1
      /\ chain[Len(run.sealed) + 1] = hand
      /\ Len(run.sealed) = 1 => chain[1] = run.sealed[1]
      /\ chain # <<>>
  <2>1. /\ chain \in Seq(Attempts) /\ Len(chain) = Len(run.sealed) + 1
        /\ chain[Len(run.sealed) + 1] = hand
    BY <1>1, <1>2
  <2>2. Len(run.sealed) = 1 => chain[1] = run.sealed[1]
    BY <1>1, <1>2
  <2>3. chain # <<>>
    <3>1. Len(chain) # 0
      BY <1>2, <2>1
    <3>2. Len(<<>>) = 0
      OBVIOUS
    <3> QED BY <3>1, <3>2
  <2> QED BY <2>1, <2>2, <2>3
<1>6. /\ run'.sealed = chain /\ run'.state = run.state /\ run'.result = None
  BY <1>3, <1>4
<1>7. /\ lv.pc = "validateRead" /\ lv.path = "MODEL" /\ lv.dig = chain
      /\ lr.pc = "repairBound" /\ lr.path = "MODEL" /\ lr.dig = chain
  BY <1>1, <1>3 DEF Locals, ToValidation
<1> HIDE DEF row, lv, lr, chain
<1>8. Forward(run, run')
  BY <1>6 DEF Forward, LateStates
<1>9. ASSUME NEW l, SealKnown(l, run'), Continue(w, l), SealsOK(run'),
             l.pc \notin {"commitRead", "commitSave"}
      PROVE  SealInvariant'
  <2>1. run'.result = run.result /\ audits \subseteq audits' /\ citations' = citations
    BY <1>1, <1>4, <1>6
  <2> QED BY <1>8, <1>9, <2>1, SealWrite
<1>10. Len(run.sealed) = 0 \/ Len(run.sealed) = 1
  <2>1. \A n \in Nat : n < 2 => n = 0 \/ n = 1
    OBVIOUS
  <2> QED BY <1>1, <1>2, <2>1
<1>11. Len(run.sealed) = 1 => run.sealed[1].kind = "PRIMARY" /\ run.sealed[1].from = 3
  BY <1>2 DEF SealsOK
<1>12. CASE hand.kind = "PRIMARY"
  <2>1. hand.from = 3
    BY <1>12 DEF SealAttemptSave, SealKnown
  <2>2. SealsOK(run')
    <3>1. CASE Len(run.sealed) = 0
      <4>1. Len(chain) = 1 /\ chain[1] = hand
        BY <1>5, <3>1
      <4> QED BY <1>6, <1>12, <2>1, <4>1 DEF SealsOK
    <3>2. CASE Len(run.sealed) = 1
      <4>1. Len(chain) = 2 /\ chain[2] = hand /\ chain[1] = run.sealed[1]
        BY <1>5, <3>2
      <4> QED BY <1>1, <1>6, <1>11, <1>12, <2>1, <3>2, <4>1 DEF SealsOK
    <3> QED BY <1>10, <3>1, <3>2
  <2>3. CASE Continue(w, lv) /\ WellFormed(chain)
    <3>1. SealKnown(lv, run')
      BY <1>1, <1>5, <1>6, <1>7, <2>3 DEF SealKnown, DecidingLabels, LateStates, Sound
    <3> QED BY <1>7, <1>9, <2>2, <2>3, <3>1
  <2>4. CASE Continue(w, Idle)
    <3>1. SealKnown(Idle, run') /\ Idle.pc \notin {"commitRead", "commitSave"}
      BY SealPlain DEF Idle, PlainLabels
    <3> QED BY <1>9, <2>2, <2>4, <3>1
  <2> QED BY <1>4, <1>12, <2>3, <2>4
<1>13. CASE hand.kind # "PRIMARY"
  <2>1. hand.kind = "REPAIR"
    BY <1>1, <1>13 DEF Attempts
  <2>2. run.sealed = me[w].dig
    BY <2>1 DEF SealAttemptSave, CasHolds, ExpectedSeal
  <2>3. /\ run.state = "VALIDATING" /\ hand.from = 5
        /\ Len(run.sealed) = 1 /\ Unusable(run.sealed)
    BY <1>1, <1>13, <2>2 DEF SealAttemptSave, SealKnown, LateStates, Repairable, NotUsed
  <2>4. run.sealed[1].resp \notin Valid
    BY <1>2, <2>3 DEF Unusable, Latest
  <2>5. Len(chain) = 2 /\ chain[2] = hand /\ chain[1] = run.sealed[1]
    BY <1>5, <2>3
  <2>6. SealsOK(run')
    BY <1>6, <1>11, <2>1, <2>3, <2>4, <2>5 DEF SealsOK, LateStates
  <2>7. Sound(chain)
    BY <1>5, <1>11, <2>1, <2>3, <2>5 DEF Sound, WellFormed
  <2>8. SealKnown(lr, run')
    BY <1>6, <1>7, <2>3, <2>7 DEF SealKnown, DecidingLabels, LateStates
  <2>9. Continue(w, lr)
    BY <1>4, <2>1
  <2> QED BY <1>7, <1>9, <2>6, <2>8, <2>9
<1> QED BY <1>12, <1>13

\* The commit: the chain the conclusion was built from is the chain of the row.
LEMMA SealCommit ==
    ASSUME SealInvariant, InductiveInvariant', NEW w \in Workers, CommitResult(w)
    PROVE  SealInvariant'
<1> USE SealFacts
<1>1. /\ me[w].hand \in Results /\ run.state = "VALIDATING" /\ run.result = None
      /\ run.sealed = me[w].dig /\ me[w].pc = "commitSave"
      /\ citations' = citations \cup {me[w].hand} /\ audits' = audits
      /\ Continue(w, Idle)
  BY DEF CommitResult, CommitAllowed, CasHolds, Cited, Answer, LocalOK, RunOK
<1>2. /\ run'.state = "SUCCEEDED" /\ run'.sealed = run.sealed
      /\ run'.result = me[w].hand
  BY DEF CommitResult, CommittedRow, Transition, Runs
<1>3. me[w].hand # None /\ citations = {} /\ me[w].hand.mode \in {"MODEL", "FALLBACK"}
  BY <1>1, NoneIsNoResult DEF SealInvariant, Results
<1>4. IF me[w].hand.mode = "MODEL"
      THEN /\ Sound(run.sealed) /\ Latest(run.sealed).resp \in Valid
           /\ me[w].hand.resp = Latest(run.sealed).resp
      ELSE Unusable(run.sealed)
  BY <1>1 DEF SealKnown, NotUsed
<1>5. Len(run.sealed) = 2 =>
         /\ run.sealed[2].kind = "REPAIR" /\ run.sealed[2].from = 5
         /\ run.sealed[1].resp \notin Valid
  <2>1. Len(run.sealed) = 2 => run.sealed # <<>>
    OBVIOUS
  <2> QED BY <1>4, <2>1 DEF SealsOK, Sound, Unusable, WellFormed
<1>6. SealsOK(run')
  BY <1>2, <1>4, <1>5 DEF SealsOK, LateStates
<1>7. Forward(run, run')
  BY <1>1, <1>2 DEF Forward, LateStates
<1>8. me \in [Workers -> Locals]
  BY DEF SealInvariant, InductiveInvariant, TypeOK
<1>9. \A v \in Workers : SealKnown(me'[v], run') /\ AuditKnown(me[v])'
  <2> TAKE v \in Workers
  <2>1. me'[v] = IF v = w THEN Idle ELSE me[v]
    BY <1>1, <1>8 DEF Continue
  <2>2. SealKnown(me'[v], run')
    BY <1>7, <2>1, SealStable, SealIdle DEF SealInvariant
  <2>3. Idle.pc = "idle"
    BY DEF Idle
  <2>4. AuditKnown(me[v])'
    BY <1>1, <2>1, <2>3 DEF AuditKnown, SealInvariant, InputsAudited
  <2> QED BY <2>2, <2>4
<1>10. FallbackInputsAudited'
  BY <1>1, <1>2 DEF AuditKnown, FallbackInputsAudited, InputsAudited
<1>11. citations' = IF run'.result = None THEN {} ELSE {run'.result}
  BY <1>1, <1>2, <1>3
<1>12. SealsOK(run)'
  BY <1>6
<1> QED BY <1>9, <1>10, <1>11, <1>12 DEF SealInvariant

\* Reserving the key, writes that lost the race, and crashes.
LEMMA SealOthers ==
    ASSUME SealInvariant, InductiveInvariant', NEW w \in Workers,
           \/ \E q \in Requests : Reserve(w, q)
           \/ Fenced(w) \/ CommitLost(w) \/ Crash(w)
    PROVE  SealInvariant'
<1> USE SealFacts
<1>1. CASE Fenced(w) \/ CommitLost(w) \/ Crash(w)
  <2>1. /\ Continue(w, Idle) /\ run' = run /\ citations' = citations
        /\ audits \subseteq audits'
    BY <1>1 DEF Fenced, CommitLost, Crash, RejectConcurrent, Audit, Fail, Answer
  <2> QED BY <2>1, SealEnds
<1>2. ASSUME NEW q \in Requests, Reserve(w, q)
      PROVE  SealInvariant'
  <2> DEFINE label == IF run'.bundle = None THEN "requestRead" ELSE "conclude"
             l == [[Idle EXCEPT !.req = q] EXCEPT !.pc = label]
             fresh == [NoRun EXCEPT !.state = "RECEIVED", !.request = q]
  <2>1. label \in PlainLabels
    BY DEF PlainLabels
  <2>2. /\ audits' = audits /\ citations' = citations
        /\ run' = IF run.state = "ABSENT" THEN fresh ELSE run
        /\ run'.result = None => Continue(w, l)
        /\ run'.result # None => me' = me
    BY <1>2 DEF Reserve
  <2> HIDE DEF label
  <2>3. l.pc \in PlainLabels /\ l.path = "MODEL"
    BY <2>1 DEF Idle
  <2> HIDE DEF l
  <2>4. SealKnown(l, run') /\ l.pc \notin {"commitRead", "commitSave"}
    BY <2>3, SealPlain
  <2>5. CASE run.state = "ABSENT"
    <3>1. fresh.sealed = <<>> /\ fresh.result = None /\ run.result = None
      BY <2>5 DEF NoRun, RunOK
    <3>2. SealsOK(fresh) /\ Forward(run, fresh)
      <4> HIDE DEF fresh
      <4> QED BY <2>5, <3>1 DEF SealsOK, Forward, LateStates
    <3> HIDE DEF fresh
    <3>3. run' = fresh /\ Continue(w, l) /\ SealKnown(l, fresh) /\ fresh.result = run.result
      BY <2>2, <2>4, <2>5, <3>1
    <3> QED BY <2>2, <2>4, <3>2, <3>3, SealWrite
  <2>6. CASE run.state # "ABSENT"
    <3>1. run' = run
      BY <2>2, <2>6
    <3>2. CASE run.result = None
      BY <2>2, <2>4, <3>1, <3>2, SealRead
    <3>3. CASE run.result # None
      BY <2>2, <3>1, <3>3, SealStutter
    <3> QED BY <3>2, <3>3
  <2> QED BY <2>5, <2>6
<1> QED BY <1>1, <1>2

\* Init establishes what a conclusion will stand on, and every step keeps it.
LEMMA SealInit == Init => SealInvariant
<1> SUFFICES ASSUME Init PROVE SealInvariant
  OBVIOUS
<1>1. SealsOK(NoRun)
  BY DEF SealsOK, NoRun
<1>2. \A r : SealKnown(Idle, r)
  BY SealIdle
<1>3. Idle.pc = "idle" /\ NoRun.result = None
  BY DEF Idle, NoRun
<1> QED BY <1>1, <1>2, <1>3, InitOK DEF Init, SealInvariant, AuditKnown

\* Every step keeps it.
LEMMA SealNext == SealInvariant /\ [Next]_vars => SealInvariant'
<1> SUFFICES ASSUME SealInvariant, [Next]_vars PROVE SealInvariant'
  OBVIOUS
<1>1. InductiveInvariant'
  BY NextOK DEF SealInvariant
<1>2. CASE UNCHANGED vars
  BY <1>1, <1>2, SealStutter DEF vars
<1>3. CASE \E mode \in ReplayModes : Replay(mode)
  BY <1>1, <1>3, SealStutter DEF Replay, Audit
<1>4. ASSUME NEW w \in Workers,
             \/ \E q \in Requests : Reserve(w, q)
             \/ Proceed(w)
             \/ CreateBundleFails(w) \/ ModelGate(w) \/ ModelUnavailable(w)
             \/ Crash(w)
      PROVE  SealInvariant'
  BY <1>1, <1>4, SealEarlyReads, SealModelReads, SealValidationReads, SealEarlySaves,
     SealValidationSave, SealNewAttempt, SealCommit, SealOthers DEF Proceed
<1> QED BY <1>2, <1>3, <1>4 DEF Next

\* What is sealed, by whom and from which version, and what every request knows of
\* it, stay consistent however the requests interleave (seal_model_attempt,
\* _validate_attempt_binding, _fallback, commit_result).
THEOREM SealInvariance == Spec => []SealInvariant
  BY SealInit, SealNext, PTL DEF Spec

\* A committed conclusion stands on its seals, for any number of requests, responses
\* and crashes: a MODEL conclusion is rebuilt from a chain that binds and that
\* chain decides it, a FALLBACK has its inputs in the audit log and discards no
\* usable seal, only unusable primaries are repaired, and citation rows exist
\* for exactly the committed result.
THEOREM ResultStands == Spec => []ResultStandsOnSeals
<1>1. SealInvariant => ResultStandsOnSeals
  <2> SUFFICES ASSUME SealInvariant PROVE ResultStandsOnSeals
    OBVIOUS
  <2>1. run \in Runs /\ RunOK(run) /\ SealsOK(run)
    BY DEF SealInvariant, InductiveInvariant, TypeOK
  <2>2. ASSUME run.result # None PROVE run.state = "SUCCEEDED"
    BY <2>1, <2>2 DEF RunOK
  <2>3. ASSUME run.result # None
        PROVE  WellFormed(run.sealed) /\ UsableSealNotDiscarded /\ ModelResultReplayable
    <3>1. IF run.result.mode = "MODEL"
          THEN /\ Sound(run.sealed) /\ Latest(run.sealed).resp \in Valid
               /\ Latest(run.sealed).resp = run.result.resp
          ELSE Unusable(run.sealed)
      BY <2>1, <2>3 DEF SealsOK
    <3>2. WellFormed(run.sealed)
      BY <3>1 DEF Sound, Unusable, WellFormed
    <3>3. UsableSealNotDiscarded
      BY <3>1 DEF UsableSealNotDiscarded, Unusable
    <3>4. ModelResultReplayable
      <4>1. Sound(run.sealed) => Bound(run)
        BY <2>1, <2>2, <2>3, ChainBinds DEF LateStates
      <4> QED BY <3>1, <4>1 DEF ModelResultReplayable, Reconstructs, Sound
    <3> QED BY <3>2, <3>3, <3>4
  <2>4. RepairOnlyOfUnusablePrimary
    <3> SUFFICES ASSUME NEW i \in 1 .. Len(run.sealed), run.sealed[i].kind = "REPAIR"
                 PROVE  i = 2 /\ run.sealed[1].resp \notin Valid
      BY DEF RepairOnlyOfUnusablePrimary
    <3>1. Len(run.sealed) \in Nat /\ Len(run.sealed) <= 2
      BY <2>1 DEF Runs, SealsOK
    <3>2. i # 1
      BY <2>1, <3>1 DEF SealsOK
    <3>3. i = 2 /\ Len(run.sealed) = 2
      <4>1. \A n \in Nat : \A k \in 1 .. n : n <= 2 /\ k # 1 => k = 2 /\ n = 2
        OBVIOUS
      <4> QED BY <3>1, <3>2, <4>1
    <3> QED BY <2>1, <3>3 DEF SealsOK
  <2>5. ResultIsAccountedFor
    BY <2>3 DEF SealInvariant, ResultIsAccountedFor
  <2> QED BY <2>3, <2>4, <2>5 DEF ResultStandsOnSeals, SealsDecide
<1> QED BY <1>1, SealInvariance, PTL

=============================================================================
