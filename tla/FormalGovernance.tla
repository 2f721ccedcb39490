-------------------------- MODULE FormalGovernance --------------------------
(* The formal calculation from a frozen bundle (FormalDecisionCalculator-  *)
(* Component.calculate): the specialists' risk verdict, the proposal of    *)
(* the model or of the fallback, the governance seed, the policy context   *)
(* that is derived from the bundle, the policy engine, the final decision  *)
(* and its quality.  Narrative, usage and hashes are left out; persisting  *)
(* the result is FormalDecision's.                                         *)
EXTENDS EvidenceGateway, PolicyEngine

CONSTANTS
    ModelProposals,   \* what the model may propose, without its refs
    Analyses,         \* inputs of the analysis pipeline's governance
    RiskRuns,         \* the active skill runs the risk specialist
    NoDecision

\* The payload of a portfolio snapshot; an exposure may be missing.
Portfolios ==
    [gross : Int \cup {None}, net : Int \cup {None}, current : Int, drawdown : BOOLEAN,
     restricted : BOOLEAN]

\* The types of InvestmentProposalV2, InvestmentProposal and InvestorProfile.
ASSUME GovernanceAssumption ==
    /\ \A r \in Requests : \A a \in Replies(r) :
        a.kind = "payload" /\ r.type = "PORTFOLIO_POSITION" => a.data \in Portfolios
    /\ \A p \in ModelProposals : p.target \in Nat \cup {None} /\ p.delta \in Int \cup {None}
    /\ \A a \in Analyses :
        /\ a.proposal.weight \in Int
        /\ {a.context.current, a.context.industry, a.context.theme} \subseteq Int
        /\ a.profile # None => a.profile.cap \in Int

VARIABLES
    proposal,   \* the proposal that was governed
    decision,   \* the final decision
    analysis    \* what the non-formal pipeline governed, and its verdict

governanceVars == <<gatherVars, proposal, decision, analysis>>

GovernanceInit ==
    /\ GatherInit
    /\ proposal = NoDecision
    /\ decision = NoDecision
    /\ analysis = NoDecision

OfType(b, types) == {i \in b.items : i.type \in types}

PortfolioTypes == {"PORTFOLIO_POSITION", "PORTFOLIO_EXPOSURE", "PORTFOLIO_RISK"}

\* The risk specialist on the bundle alone: without risk inputs it fails,
\* and what could not be run counts as failed.
RiskArtifact(b, ran) ==
    CASE ~RiskRuns -> "absent"
      [] RiskRuns /\ (~ran \/ OfType(b, {"PORTFOLIO_RISK"}) = {}) -> "FAILED"
      [] OTHER -> IF \E i \in OfType(b, {"PORTFOLIO_RISK"}) : i.data.veto THEN "veto" ELSE "clear"

RiskVeto(artifact) == artifact \in {"veto", "FAILED"}

\* Domains with at least one verified item (synthesize_evidence).
DomainTypes ==
    [market |-> {"MARKET_SNAPSHOT", "MARKET_REGIME", "MARKET_BREADTH", "SECTOR_STRENGTH"},
     research |-> ContentTypes,
     technical |-> {"TECHNICAL_SIGNAL", "TECHNICAL_PROFILE", "LIQUIDITY"},
     factor |-> FactorTypes,
     portfolio |-> PortfolioTypes,
     risk |-> {"RISK_EVENT", "PORTFOLIO_RISK"}]

Covered(b) ==
    {d \in DOMAIN DomainTypes : \E i \in OfType(b, DomainTypes[d]) : i.quality = "VERIFIED"}

\* missing_context: a market dependency that is down or stale, or a target
\* without any portfolio evidence.
MissingContext(b, p) ==
    \/ "quant" \in DOMAIN b.health /\ b.health["quant"] \in {"UNAVAILABLE", "STALE"}
    \/ Actionable(p) /\ OfType(b, PortfolioTypes) = {}

\* A fact about the subject that the rows agree on, None when no row has it.
SecurityRows(b) == {i \in b.items : i.system = "quant" /\ i.subject = "symbol" /\ i.data # None}

Fact(b, name) ==
    LET values == {i.data[name] : i \in SecurityRows(b)} \ {None}
    IN  IF values = {} THEN None ELSE CHOOSE v \in values : TRUE

FactsConflict(b) ==
    \E name \in {"st", "suspended", "liquid"} :
        Cardinality({i.data[name] : i \in SecurityRows(b)} \ {None}) > 1

Oldest(items) ==
    IF items = {} THEN 0
    ELSE LET ages == {DecisionTime - i.available : i \in items}
         IN  CHOOSE a \in ages : \A x \in ages : x <= a

\* The payload with the exposures.
Portfolio(b) ==
    LET rows == {i.data : i \in OfType(b, {"PORTFOLIO_POSITION"})}
    IN  IF rows = {} THEN None ELSE CHOOSE d \in rows : TRUE

Held(b) == IF Portfolio(b) = None THEN 0 ELSE Portfolio(b).current

\* policy_context_from_bundle: no sector and no theme is ever supplied, and
\* the ages are always measured, so that EvidenceFresh and SnapshotFresh
\* never fall back on the quality of the items.
ContextOf(b, p, risk) ==
    LET data == Portfolio(b)
        cited == {i \in b.items : i.type \in p.refs}
        known == data # None
    IN  [current |-> Held(b),
         gross |-> IF known THEN data.gross ELSE None,
         net |-> IF known THEN data.net ELSE None,
         drawdown |-> known /\ data.drawdown,
         restricted |-> known /\ data.restricted,
         industry |-> None, theme |-> None,
         liquid |-> Fact(b, "liquid"), st |-> Fact(b, "st"), suspended |-> Fact(b, "suspended"),
         covered |-> Covered(b),
         domains |-> {"market"}
            \cup (IF RequiredEvidence \cap FactorTypes # {} THEN {"factor"} ELSE {})
            \cup (IF RequiredEvidence \cap {"PORTFOLIO_RISK", "RISK_EVENT"} # {} THEN {"risk"} ELSE {}),
         requires |-> (IF RequiredEvidence \cap FactorTypes # {} THEN {"factor"} ELSE {})
            \cup (IF RequiredEvidence \cap (ContentTypes \ {"RISK_EVENT"}) # {} THEN {"content"} ELSE {}),
         health |-> b.health,
         evidenceAge |-> Oldest(cited), evidenceFresh |-> TRUE,
         portfolio |-> IF Actionable(p) THEN known ELSE TRUE,
         snapshotAt |-> OfType(b, PortfolioTypes) # {},
         snapshotAge |-> Oldest(OfType(b, PortfolioTypes)), snapshotFresh |-> TRUE,
         veto |-> RiskVeto(risk)]

\* compute_decision_quality_v2: what is wrong with the inputs.
QualityReasons(b, p, risk) ==
    (IF "market" \notin Covered(b)
            \/ ("quant" \in DOMAIN b.health /\ b.health["quant"] \in {"UNAVAILABLE", "STALE"})
        THEN {"CRITICAL_MARKET_MISSING"} ELSE {})
    \cup (IF Actionable(p) /\ "portfolio" \notin Covered(b) THEN {"INSUFFICIENT_CONTEXT"} ELSE {})
    \cup (IF risk = "FAILED" THEN {"RISK_FAILED"} ELSE {})
    \cup (IF b.items # {} /\ \A i \in b.items : i.quality = "UNVERIFIED"
        THEN {"ALL_SUPPORTING_EVIDENCE_UNVERIFIED"} ELSE {})

\* final_v2: the veto of the seed, a missing context and the policy engine
\* each suffice; the target is the policy's.
FinalVeto(b, p, risk) ==
    \/ RiskVeto(risk)
    \/ MissingContext(b, p)
    \/ ~ApprovedV2(p, ContextOf(b, p, risk))

FinalDecision(b, p, risk) ==
    LET weight == IF Actionable(p) THEN Adjusted(p, ContextOf(b, p, risk)) ELSE 0
        asked_for == IF p.target = None THEN 0 ELSE p.target
        veto == FinalVeto(b, p, risk)
    IN  [verdict |-> CASE veto -> "VETO"
                       [] ~veto /\ weight # asked_for -> "APPROVE_WITH_ADJUSTMENT"
                       [] OTHER -> "APPROVE",
         action |-> p.action,
         target |-> IF veto \/ ~Actionable(p) THEN None ELSE weight,
         risk |-> risk,
         reasons |-> QualityReasons(b, p, risk)]

\* The model cites items of the bundle (run_formal refuses others); the
\* fallback cites all of them.
Citations(b) == LET types == {i.type : i \in b.items} IN {{}, types} \cup {{t} : t \in types}

Calculate ==
    /\ Frozen
    /\ decision = NoDecision
    /\ \E draft \in ModelProposals, refs \in Citations(bundle), ran \in BOOLEAN :
       LET p == [subject |-> "SYMBOL", action |-> draft.action, target |-> draft.target,
                 delta |-> draft.delta, confidence |-> draft.confidence, refs |-> refs]
       IN  /\ ValidProposal(p)
           /\ ~FactsConflict(bundle)
           /\ proposal' = p
           /\ decision' = FinalDecision(bundle, p, RiskArtifact(bundle, ran))
    /\ UNCHANGED <<gatherVars, analysis>>

\* _govern, the governance of the analysis service: it asks the conflict
\* resolver and the suitability rule too and persists nothing.  The public
\* endpoints answer with a narrative and no longer call it.
GovernAnalysis ==
    /\ asked = 0
    /\ analysis = NoDecision
    /\ \E a \in Analyses :
        analysis' = [input |-> a,
                     verdict |-> Govern(a.proposal, a.context, a.conflicts, a.risk, a.profile)]
    /\ UNCHANGED <<gatherVars, proposal, decision>>

GovernanceNext ==
    \/ /\ analysis = NoDecision
       /\ GatherStep
       /\ UNCHANGED <<proposal, decision, analysis>>
    \/ Calculate
    \/ GovernAnalysis

GovernanceSpec == GovernanceInit /\ [][GovernanceNext]_governanceVars

-----------------------------------------------------------------------------

Approved == decision # NoDecision /\ decision.verdict # "VETO"

\* An approved target keeps the position, the gross and the net exposure
\* within their limits, is no more than was proposed, and in drawdown mode
\* is within the halved cap; a reduction that cannot reach the limits is
\* approved at zero (rules.evaluate_v2_checks, engine.evaluate, final_v2).
ApprovedTargetFits ==
    Approved /\ decision.target # None =>
        LET data == Portfolio(bundle)
            w == decision.target
        IN  /\ w <= SingleLimit
            /\ w # 0 => data.gross - data.current + w <= GrossLimit
            /\ w # 0 => data.net - data.current + w <= NetLimit
            /\ data.drawdown => w <= DrawdownCap
            /\ w <= Requested(proposal, [current |-> data.current])
            /\ w = 0 => proposal.action \in Reductions

\* A weight that the analysis service's _govern approves fits the position limit
\* together with what is held, suits the investor, and was vetoed by no
\* risk opinion, whichever conflict carries it and whoever owns it
\* (resolve_conflicts_v2, evaluate_suitability, _govern).
AnalysisIsGoverned ==
    analysis # NoDecision /\ analysis.verdict.weight > 0 =>
        LET in == analysis.input IN
        /\ in.context.current + analysis.verdict.weight <= SingleLimitV1(in.context)
        /\ in.profile # None => analysis.verdict.weight <= in.profile.cap
        /\ ~in.risk
        /\ \A k \in in.conflicts, o \in UNION {x.opinions : x \in in.conflicts} :
             o.agent = "risk" => ~o.veto /\ ~k.risk_veto

\* Nothing is approved on inputs that the quality assessment, computed
\* separately from the same bundle, calls missing; on a failed or vetoing
\* risk specialist; on a request to the market system that failed; on data
\* from after the decision; or on a citation of stale evidence (calculate,
\* formal_quality, collect).  Risk events are the exception: no rule looks at
\* the health of the content system for them, and the age of an item, which
\* is measured from available_at, overrides its quality.
ApprovedIsGrounded ==
    Approved =>
        /\ decision.risk \notin {"FAILED", "veto"}
        /\ "CRITICAL_MARKET_MISSING" \notin decision.reasons
        /\ decision.target # None =>
            /\ decision.reasons = {}
            /\ \A s \in statuses : s.system = "quant" => s.status = "OK"
        /\ \A i \in bundle.items : i.available <= DecisionTime /\ i.asOf <= DecisionTime
        /\ \A i \in bundle.items :
             i.type \in proposal.refs \ {"RISK_EVENT"} => i.quality # "STALE"
=============================================================================
