--------------------------- MODULE DecisionReplay ---------------------------
(***************************************************************************)
(* DecisionReplayService: a decision replayed from its immutable snapshot  *)
(* with one component replaced (v2), or its deterministic chain rebuilt    *)
(* from the decision row (v1), and what the caller is told has changed.    *)
(*                                                                         *)
(* A segment of the snapshot is a value; 0 is the recorded one.  A policy  *)
(* evaluation is a version and a verdict.  A runner's envelope is a        *)
(* function on the keys it returns; "final" stands for final, output and   *)
(* final_decision, "specialists" for artifacts too.                        *)
(***************************************************************************)
EXTENDS Naturals, Sequences, FiniteSets, TLC

CONSTANTS
    Envelopes,   \* what an injected runner may return
    OverrideSets,    \* override keys a caller may send
    Histories,   \* what a decision row holds, and what its chain now gives
    NoHistory,   \* there is no such decision
    NoAsk,       \* nothing was asked yet
    NoRank       \* a candidate stored without its rank

VARIABLES
    ask,     \* the request and what it meets
    reply    \* what replay() or replay_v2() returned

replayVars2 == <<ask, reply>>

Recorded == 0

\* The component a mode replaces, and the segment that identifies it.
Component == [MODEL_REPLAY |-> "model", SKILL_REPLAY |-> "skill",
              POLICY_REPLAY |-> "policy", WORKFLOW_REPLAY |-> "workflow"]

Identity == [model |-> "model_identity", skill |-> "skill_identity",
             policy |-> "policy_version", workflow |-> "workflow_version"]

V2Modes == DOMAIN Component \cup {"EXACT_REPLAY", "COUNTERFACTUAL_REPLAY"}

LegacyModes == {"original", "current", "multi_agent"}

CounterfactualKeys == {"market_regime", "risk_parameter", "portfolio_state", "strategy", "policy"}

Identities == {"model_identity", "skill_identity", "policy_version", "workflow_version"}

\* Segments whose changes are reported.
Compared == Identities \cup {"policy_evaluation", "specialists", "conflicts", "proposal", "final"}

\* What each mode may not change (the bundle and the evidence are never in
\* an envelope, so no runner can).
FixedIn(mode) ==
    CASE mode = "POLICY_REPLAY" -> (Identities \ {"policy_version"}) \cup {"proposal"}
      [] mode = "COUNTERFACTUAL_REPLAY" -> Identities \ {"policy_version"}
      [] mode = "EXACT_REPLAY" -> Identities
      [] OTHER -> Identities \ {Identity[Component[mode]]}

\* ReplayRequest: exactly the override the mode is about.
ReplayRequestOk(mode, keys) ==
    CASE mode \in DOMAIN Component -> keys = {Component[mode]}
      [] mode = "COUNTERFACTUAL_REPLAY" -> keys # {} /\ keys \subseteq CounterfactualKeys
      [] OTHER -> keys = {}

----------------------------------------------------------------------------
(* What a runner returned.                                                 *)

Has(envelope, key) == key \in DOMAIN envelope

HasPolicy(e) == Has(e, "policy_evaluation") \/ Has(e, "policy")

\* The evaluation that is inspected when both spellings are there.
PolicyShown(e) == IF Has(e, "policy_evaluation") THEN e.policy_evaluation ELSE e.policy

Full(e) == Has(e, "proposal") /\ HasPolicy(e) /\ Has(e, "final")

\* _validate_runner_result: the envelope each mode requires.
RunnerEnvelopeOk(mode, e) ==
    CASE mode = "EXACT_REPLAY" -> Full(e)
      [] mode \in {"MODEL_REPLAY", "SKILL_REPLAY"} ->
            Full(e) /\ PolicyShown(e).version = Recorded
      [] mode = "POLICY_REPLAY" ->
            HasPolicy(e) /\ Has(e, "final") /\ (Has(e, "proposal") => e.proposal = Recorded)
      [] mode = "WORKFLOW_REPLAY" ->
            Full(e) /\ Has(e, "specialists") /\ Has(e, "conflicts") /\ PolicyShown(e).version = Recorded
      [] mode = "COUNTERFACTUAL_REPLAY" -> Has(e, "final") /\ Has(e, "applied_overrides")

\* Mutant: an echoed identity is not compared with the request.
IdentityOk_Unchecked(component, e, wanted) == TRUE

\* _validate_runner_identity: an echoed identity is the one asked for.
IdentityOk(component, e, wanted) ==
    LET name == Identity[component] IN
    IF Has(e, name) THEN e[name] = wanted
    ELSE component = "policy" => PolicyShown(e).version = wanted

\* _apply_runner_result: the recorded segments, overlaid with the envelope;
\* the policy version follows the policy, and the replaced component is the
\* one asked for whatever the envelope echoes.
Replayed(component, e, wanted) ==
    LET policy == IF Has(e, "policy") THEN e.policy
                  ELSE IF Has(e, "policy_evaluation") THEN e.policy_evaluation
                  ELSE [version |-> Recorded, verdict |-> Recorded]
        overlaid(f) == IF Has(e, f) THEN e[f] ELSE Recorded
    IN  [f \in Compared |->
            CASE component \in DOMAIN Identity /\ f = Identity[component] -> wanted
              [] f = "policy_version" -> policy.version
              [] f = "policy_evaluation" ->
                    IF Has(e, f) THEN e[f] ELSE [version |-> Recorded, verdict |-> Recorded]
              [] OTHER -> overlaid(f)]

\* The segments of a replay that are not the recorded ones.
Differs(replayed) ==
    {f \in Compared : IF f = "policy_evaluation"
                        THEN replayed[f] # [version |-> Recorded, verdict |-> Recorded]
                        ELSE replayed[f] # Recorded}

----------------------------------------------------------------------------
(* Replies.                                                                *)

Rejected(error) == [status |-> "REJECTED", error |-> error, match |-> FALSE,
                    executed |-> FALSE, fixed |-> {}, changed |-> {}]

\* _v2_success: a mismatch rejects an EXACT replay and is reported by the
\* other modes.
Reported(mode, changed, executed) ==
    LET mismatch == mode = "EXACT_REPLAY" /\ changed # {} IN
    [status |-> IF mismatch THEN "REJECTED" ELSE "SUCCEEDED",
     error |-> IF mismatch THEN "EXACT_REPLAY_MISMATCH" ELSE "none",
     match |-> changed = {}, executed |-> executed,
     fixed |-> FixedIn(mode) \ changed, changed |-> changed]

\* _ensure_fixed_segments (not applied to an EXACT replay, which reports).
KeepsFixed(mode, replayed) == FixedIn(mode) \cap Differs(replayed) = {}

\* A component's runner; a counterfactual's overrides are reported as
\* changed because the snapshot holds no such segments.
RunComponent(a) ==
    LET component == IF a.mode \in DOMAIN Component THEN Component[a.mode] ELSE "counterfactual"
        replayed == Replayed(component, a.envelope, a.wanted)
        overrides == IF component = "counterfactual" THEN a.keys ELSE {}
    IN  IF \/ ~RunnerEnvelopeOk(a.mode, a.envelope)
           \/ component \in DOMAIN Identity /\ ~IdentityOk(component, a.envelope, a.wanted)
           \/ component = "counterfactual" /\ a.envelope.applied_overrides # a.wanted
           \/ ~KeepsFixed(a.mode, replayed)
          THEN Rejected("REPLAY_INPUT_INVALID")
          ELSE Reported(a.mode, Differs(replayed) \cup overrides, TRUE)

\* _replay_v2: request, anchor, then the mode.  Without a runner an EXACT
\* replay only verifies the anchor.
ReplayV2(a) ==
    IF ~ReplayRequestOk(a.mode, a.keys) THEN Rejected("INVALID_REPLAY_REQUEST")
    ELSE IF a.defect # "none" THEN Rejected("REPLAY_INPUT_INVALID")
    ELSE IF a.mode = "EXACT_REPLAY" THEN
        IF ~a.runner THEN Reported(a.mode, {}, FALSE)
        ELSE IF ~RunnerEnvelopeOk(a.mode, a.envelope) THEN Rejected("REPLAY_INPUT_INVALID")
        ELSE Reported(a.mode, Differs(Replayed("exact", a.envelope, Recorded)), TRUE)
    ELSE IF ~a.runner THEN Rejected(IF a.mode \in DOMAIN Component THEN "REPLAY_RUNNER_REQUIRED"
                                                                   ELSE "REPLAY_INPUT_INVALID")
    ELSE RunComponent(a)

\* _stored_candidate_order: by rank when every candidate has one.
StoredOrder(candidates) ==
    LET ranked == \A i \in DOMAIN candidates : candidates[i].rank # NoRank
        sorted == IF ranked THEN SortSeq(candidates, LAMBDA x, y : x.rank < y.rank) ELSE candidates
    IN  [i \in DOMAIN sorted |-> sorted[i].symbol]

\* _multi_agent_provenance: the supervised run of the decision is still
\* there; without it the chain of the row is rebuilt.
Provenance(h) == h.run = "found"

\* _risk_veto of what the risk specialist concluded; silence is no veto.
ArtifactVeto(h) == IF h.risk = "veto" THEN "yes" ELSE "no"

\* _stored_risk_veto: the row's word first, then the artifact's.
StoredVeto(h) ==
    IF h.row.veto # "none" THEN h.row.veto
    ELSE IF h.risk = "none" THEN "none" ELSE ArtifactVeto(h)

\* _run_chain and _run_multi_agent_chain: ranking, portfolio and benchmark
\* rebuilt with the current code; a supervised run also gives its regime,
\* or the row's, and its veto.
Rebuilt(h, multi) ==
    [order |-> h.chain.order, actions |-> h.chain.actions, primary |-> h.chain.primary,
     regime |-> IF ~multi THEN "none" ELSE IF h.market # "none" THEN h.market ELSE h.row.regime,
     veto |-> IF multi THEN ArtifactVeto(h) ELSE "none"]

\* _diff and what replay() adds to it: only what the row kept is compared,
\* and a stored candidate that is no longer eligible is not a difference.
LegacyDiffs(h, multi) ==
    LET now == Rebuilt(h, multi)
        eligible == {now.order[i] : i \in DOMAIN now.order}
        stored == StoredOrder(h.row.candidates)
        both(old, new) == old # "none" /\ new # "none" /\ old # new
    IN  {f \in {"order"} : stored # <<>> /\ SelectSeq(stored, LAMBDA x : x \in eligible) # now.order}
        \cup {f \in {"actions", "primary"} : h.row[f] # "none" /\ h.row[f] # now[f]}
        \cup {f \in {"regime"} : multi /\ both(h.row.regime, now.regime)}
        \cup {f \in {"veto"} : multi /\ both(StoredVeto(h), now.veto)}

\* replay() on a decision row.
ReplayV1(a) ==
    IF a.history = NoHistory THEN Rejected("DECISION_NOT_FOUND")
    ELSE IF a.mode = "COUNTERFACTUAL_REPLAY" /\ a.keys = {}
        THEN Rejected("COUNTERFACTUAL_OVERRIDE_REQUIRED")
    ELSE LET diffs == LegacyDiffs(a.history, a.mode = "multi_agent" /\ Provenance(a.history))
         IN  [status |-> "SUCCEEDED", error |-> "none", match |-> diffs = {},
              executed |-> TRUE, fixed |-> {}, changed |-> diffs]

----------------------------------------------------------------------------
(* The two entry points.                                                   *)

\* What _get_v3_snapshot, _validate_v2_anchor and _validate_snapshot_hashes
\* check: the snapshot is the decision's and the one asked for; its bundle
\* is the one it refers to, the one stored and the one its lineage names;
\* evidence and specialists hash to what was recorded; the evidence is the
\* bundle's.
AnchorChecks == {"belongs", "requested", "reference", "persisted", "lineage",
                 "evidence", "coverage", "specialists"}

Ask(snapshots, defects, envelopes, histories) ==
    [entry : {"v1", "v2"}, mode : V2Modes \cup LegacyModes, keys : OverrideSets, wanted : {0, 1},
     snapshot : snapshots, defect : defects, runner : BOOLEAN,
     envelope : envelopes, history : histories]

\* A sound anchor and any envelope, an anchor that fails one check, or no
\* snapshot and any decision row.
Asks == Ask({TRUE}, {"none"}, Envelopes, {NoHistory})
        \cup Ask({TRUE}, AnchorChecks, {<<>>}, {NoHistory})
        \cup Ask({FALSE}, {"none"}, {<<>>}, Histories \cup {NoHistory})

NoReply == Rejected("none")

DecisionReplayInit == ask = NoAsk /\ reply = NoReply

\* replay_v2(): never reads the decision row.
Strict(a) ==
    IF a.mode \notin V2Modes THEN Rejected("INVALID_REPLAY_MODE")
    ELSE IF ~a.snapshot THEN Rejected("REPLAY_SNAPSHOT_REQUIRED")
    ELSE IF a.defect = "belongs" THEN Rejected("REPLAY_INPUT_INVALID")
    ELSE ReplayV2(a)

\* replay(): the v2 modes when there is a snapshot; without one only the
\* two names that v1 also used reach the decision row.
Adapter(a) ==
    IF a.mode \in V2Modes /\ a.snapshot
      THEN IF a.defect = "belongs" THEN Rejected("REPLAY_INPUT_INVALID") ELSE ReplayV2(a)
    ELSE IF a.mode \in DOMAIN Component THEN Rejected("REPLAY_SNAPSHOT_REQUIRED")
    ELSE ReplayV1(a)

AnswerReplay ==
    /\ ask = NoAsk
    /\ ask' \in Asks
    /\ reply' = IF ask'.entry = "v2" THEN Strict(ask') ELSE Adapter(ask')

DecisionReplaySpec == DecisionReplayInit /\ [][AnswerReplay]_replayVars2

----------------------------------------------------------------------------

FromSnapshot == ask # NoAsk /\ ask.mode \in V2Modes /\ ask.snapshot /\ reply.status = "SUCCEEDED"

\* A replay that succeeds changed what its mode is about and nothing the
\* mode fixes: every fixed segment the envelope returned is the recorded
\* one, the component an envelope echoes is the one asked for, and every
\* product the runner returned that differs is reported as changed.
ReplayKeepsTheAnchor ==
    FromSnapshot /\ reply.executed =>
        /\ reply.changed \cap FixedIn(ask.mode) = {}
        /\ \A f \in (FixedIn(ask.mode) \ {"policy_version"}) \cap DOMAIN ask.envelope :
               ask.envelope[f] = Recorded
        /\ ask.mode \in DOMAIN Component =>
               LET name == Identity[Component[ask.mode]] IN
               Has(ask.envelope, name) => ask.envelope[name] = ask.wanted
        /\ \A f \in {"proposal", "final"} \cap DOMAIN ask.envelope :
               ask.envelope[f] # Recorded => f \in reply.changed
=============================================================================
