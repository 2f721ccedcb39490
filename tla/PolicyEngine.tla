---------------------------- MODULE PolicyEngine ----------------------------
(* The deterministic policy engine (engines/policy), the conflict resolver *)
(* and the suitability rule.  They are functions of a proposal and of a    *)
(* context.  Weights are integers: hundredths of the portfolio, or any     *)
(* other unit in which the limits are whole.  A check is its verdict; its  *)
(* wording and its snapshot of the inputs are left out.                    *)
EXTENDS Integers, FiniteSets, Sequences

CONSTANTS
    None,             \* Python's None: unknown, or not given
    SingleLimit,      \* single_position_limit
    DrawdownCap,      \* single_position_limit * drawdown_mode_scale
    GrossLimit, NetLimit, IndustryLimit, ThemeLimit,
    ConservativeCap,  \* the weight that suits an investor whose horizon or liquidity need does not fit
    MinConfidence,
    MaxAge            \* oldest evidence, and oldest portfolio snapshot

ASSUME PolicyLimitsAssumption ==
    /\ {SingleLimit, DrawdownCap, GrossLimit, NetLimit, IndustryLimit, ThemeLimit,
        ConservativeCap} \subseteq Nat
    /\ MinConfidence \in Nat /\ MaxAge \in Nat
    /\ None \notin Int

Increases == {"BUY", "INCREASE"}

Reductions == {"SELL", "REDUCE", "EXIT"}

-----------------------------------------------------------------------------
(* Version 2: InvestmentProposalV2 against the full PolicyContext. *)

Actionable(p) == p.target # None \/ p.delta # None

\* What the validators of InvestmentProposalV2 accept.
ValidProposal(p) ==
    /\ p.target = None \/ p.delta = None
    /\ Actionable(p) <=> p.action \notin {"HOLD", "WATCH"}
    /\ p.delta # None =>
        /\ p.action \in Increases => p.delta >= 0
        /\ p.action \in Reductions => p.delta <= 0

AtLeastZero(w) == IF w < 0 THEN 0 ELSE w

Lower(a, b) == IF a <= b THEN a ELSE b

\* _v2_target
Requested(p, c) ==
    IF p.target # None THEN p.target ELSE AtLeastZero(c.current + p.delta)

\* What is left of a limit of which `used` is used already.
Headroom(limit, used) == AtLeastZero(limit - used)

\* One limit applied to a target; a limit whose input is unknown applies
\* to nothing (the gross and the net limit then reject, see ChecksV2).
Capped(w, known, allowed) == IF known THEN Lower(w, allowed) ELSE w

\* Mutant: the current exposure is not taken from the limit.
GrossCapped_Whole(w, c) == Capped(w, c.gross # None, Headroom(GrossLimit, 0))

GrossCapped(w, c) == Capped(w, c.gross # None, Headroom(GrossLimit, c.gross - c.current))

NetCapped(w, c) == Capped(w, c.net # None, Headroom(NetLimit, c.net - c.current))

IndustryCapped(w, c) == Capped(w, c.industry # None, Headroom(IndustryLimit, c.industry))

ThemeCapped(w, c) == Capped(w, c.theme # None, Headroom(ThemeLimit, c.theme))

DrawdownCapped(w, c) == Capped(w, c.drawdown, DrawdownCap)

\* The adjustments, each on the result of the one before it.
AdjustedWeight(p, c) ==
    DrawdownCapped(ThemeCapped(IndustryCapped(NetCapped(GrossCapped(
        Lower(Requested(p, c), SingleLimit), c), c), c), c), c)

Adjusted(p, c) == IF Actionable(p) THEN AdjustedWeight(p, c) ELSE None

\* A security may be bought only on explicit facts about it.
Tradable(p) == p.subject = "SYMBOL" /\ p.action \in Increases

RequiredSystems(p, c) == c.requires \cup (IF Actionable(p) THEN {"quant"} ELSE {})

\* A measured age decides before the flag; an unknown age of cited evidence
\* is stale.
EvidenceFresh(p, c) ==
    IF c.evidenceAge # None THEN c.evidenceAge <= MaxAge
    ELSE ~(Actionable(p) /\ p.refs # {}) /\ c.evidenceFresh # FALSE

SnapshotFresh(p, c) ==
    \/ ~Actionable(p)
    \/ /\ c.portfolio # FALSE
       /\ c.portfolio # None \/ c.snapshotAt
       /\ IF c.snapshotAge # None THEN c.snapshotAge <= MaxAge ELSE c.snapshotFresh = TRUE

\* The rules that reject, by their verdict.  FACTOR_COVERAGE only warns when
\* nothing requires the factor domain.
ChecksV2(p, c) ==
    [PORTFOLIO_GROSS_LIMIT |-> Actionable(p) => c.gross # None,
     PORTFOLIO_NET_LIMIT |-> Actionable(p) => c.net # None,
     LIQUIDITY |-> Tradable(p) => c.liquid = TRUE,
     RESTRICTED_UNIVERSE |-> ~c.restricted,
     ST_SUSPENSION |-> Tradable(p) => (c.st = FALSE /\ c.suspended = FALSE),
     MINIMUM_EVIDENCE |-> p.refs # {} /\ c.domains \subseteq c.covered,
     MINIMUM_CONFIDENCE |-> p.confidence >= MinConfidence,
     FACTOR_COVERAGE |-> "factor" \in (c.domains \cup c.requires) => "factor" \in c.covered,
     DEPENDENCY_HEALTH |->
        \A s \in RequiredSystems(p, c) : s \in DOMAIN c.health /\ c.health[s] = "OK",
     EVIDENCE_FRESHNESS |-> EvidenceFresh(p, c),
     PORTFOLIO_SNAPSHOT_FRESHNESS |-> SnapshotFresh(p, c),
     RISK_VETO |-> ~c.veto]

RejectedV2(p, c) == \E rule \in DOMAIN ChecksV2(p, c) : ~ChecksV2(p, c)[rule]

\* PolicyEngine.evaluate: a reduction may end at zero, an increase may not.
ApprovedV2(p, c) ==
    /\ ~RejectedV2(p, c)
    /\ Actionable(p) /\ p.action \notin Reductions => Adjusted(p, c) > 0

-----------------------------------------------------------------------------
(* Version 1: the historical proposal, whose weight is added to what is    *)
(* held, governed together with the conflicts and the investor's profile.  *)

HardRulesPass(p, c) ==
    /\ ~c.restricted
    /\ p.action = "BUY" => ~p.st /\ ~p.suspended
    /\ p.evidence /\ p.confidence >= MinConfidence
    /\ p.factors /\ p.liquid

\* In drawdown mode the halved limit holds for the sum of what is held and
\* what is proposed; DRAWDOWN_MODE itself asks less.
SingleLimitV1(c) == IF c.drawdown THEN DrawdownCap ELSE SingleLimit

WeightV1(p, c) ==
    LET single == Lower(p.weight, Headroom(SingleLimitV1(c), c.current))
        sector == IF p.sector THEN Lower(single, Headroom(IndustryLimit, c.industry)) ELSE single
    IN  IF p.theme THEN Lower(sector, Headroom(ThemeLimit, c.theme)) ELSE sector

ApprovedV1(p, c) == HardRulesPass(p, c) /\ WeightV1(p, c) > 0

\* DOMAIN_AUTHORITY: who decides a conflict of a type.
Authority(conflict) ==
    [FACT_CONFLICT |-> "evidence", REGIME_CONFLICT |-> "market", SIGNAL_CONFLICT |-> "factor",
     RISK_CONFLICT |-> "risk", PORTFOLIO_CONFLICT |-> "portfolio"][conflict.type]

VetoOpinions(conflict) == {o \in conflict.opinions : o.agent = "risk" /\ o.veto}

OwnerOpinions(conflict) == {o \in conflict.opinions : o.agent = Authority(conflict)}

\* Mutant: a veto counts in a risk conflict only.
Vetoes_InDomain(conflict) ==
    \/ conflict.risk_veto
    \/ conflict.type = "RISK_CONFLICT" /\ VetoOpinions(conflict) # {}

\* A risk opinion with a veto counts in every conflict, not only in the
\* domain of the risk specialist.  The value that a conflict resolves to is
\* reported and decides nothing.
Vetoes(conflict) ==
    \/ conflict.risk_veto
    \/ VetoOpinions(conflict) # {}
    \/ conflict.type = "RISK_CONFLICT" /\ \E o \in OwnerOpinions(conflict) : o.veto

\* evaluate_suitability: what the profile leaves of a weight, None when the
\* recommendation does not suit the investor at all.
Suitable(profile, weight) ==
    IF ~profile.allowed \/ profile.risk > profile.appetite THEN None
    ELSE Lower(weight, IF profile.mismatch THEN Lower(profile.cap, ConservativeCap) ELSE profile.cap)

\* AnalysisApplicationService._govern: the verdict and its weight.
Govern(p, c, conflicts, risk, profile) ==
    LET vetoed == risk \/ \E k \in conflicts : Vetoes(k)
        fits == IF profile = None THEN p.weight ELSE Suitable(profile, p.weight)
    IN  CASE vetoed -> [action |-> "VETO", weight |-> 0]
          [] ~vetoed /\ ~ApprovedV1(p, c) -> [action |-> "REJECT", weight |-> 0]
          [] ~vetoed /\ ApprovedV1(p, c) /\ fits = None -> [action |-> "REJECT", weight |-> 0]
          [] OTHER -> [action |-> p.action, weight |-> Lower(WeightV1(p, c), fits)]
=============================================================================
