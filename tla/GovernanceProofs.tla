------------------------- MODULE GovernanceProofs -------------------------
(***************************************************************************)
(* The decision path, for any skills, evidence, portfolios, proposals,     *)
(* calendars, holdings, bars and modes: what is approved, what a replay    *)
(* compares, which sessions a calendar counts, what a portfolio plan may hold *)
(* and what a back-test may trade.                                         *)
(***************************************************************************)
EXTENDS FormalGovernance, DecisionReplay, TradingClock, PortfolioPipeline,
        Backtest, TotalsProofs, FiniteSetTheorems, TLAPS

----------------------------------------------------------------------------
(* The plan of a skill, evidence and governance.                           *)

\* One step of the concatenation.
FlattenStep(ss, g, i) == IF i = 1 THEN ss[i] ELSE g[i - 1] \o ss[i]

\* g flattens the parts of ss up to each of the first k.
Flattens(ss, g, k) == g = [i \in 1 .. k |-> FlattenStep(ss, g, i)]

\* FlattenSeq applies the function that its definition chooses.
LEMMA FlattenIsChosen ==
    ASSUME NEW ss
    PROVE  FlattenSeq(ss) = IF Len(ss) = 0 THEN ss ELSE (CHOOSE g : Flattens(ss, g, Len(ss)))[Len(ss)]
  BY Zenon DEF FlattenSeq, Flattens, FlattenStep

\* There is such a function.
LEMMA FlattenExists ==
    ASSUME NEW S, NEW ss \in Seq(Seq(S)), NEW k \in Nat, k <= Len(ss)
    PROVE  \E g : Flattens(ss, g, k)
  <1> DEFINE Good == {n \in Nat : n <= Len(ss) => \E g : Flattens(ss, g, n)}
  <1>1. 0 \in Good
    <2>1. Flattens(ss, [i \in 1 .. 0 |-> 0], 0)
      BY DEF Flattens, FlattenStep
    <2> QED BY <2>1
  <1>2. ASSUME NEW n \in Nat, n \in Good PROVE n + 1 \in Good
    <2> SUFFICES ASSUME n + 1 <= Len(ss) PROVE \E h : Flattens(ss, h, n + 1)
      OBVIOUS
    <2>1. PICK g : Flattens(ss, g, n)
      BY <1>2
    <2> DEFINE h == [i \in 1 .. n + 1 |-> FlattenStep(ss, g, i)]
    <2>2. ASSUME NEW i \in 1 .. n + 1 PROVE FlattenStep(ss, h, i) = FlattenStep(ss, g, i)
      <3>1. CASE i = 1
        BY <3>1 DEF FlattenStep
      <3>2. CASE i # 1
        <4>1. i - 1 \in 1 .. n /\ i - 1 \in 1 .. n + 1
          BY <3>2
        <4>2. h[i - 1] = FlattenStep(ss, g, i - 1) /\ g[i - 1] = FlattenStep(ss, g, i - 1)
          BY <4>1, <2>1 DEF Flattens
        <4> HIDE DEF h
        <4> QED BY <3>2, <4>2 DEF FlattenStep
      <3> QED BY <3>1, <3>2
    <2>3. h = [i \in 1 .. n + 1 |-> FlattenStep(ss, h, i)]
      BY <2>2
    <2> HIDE DEF h
    <2> QED BY <2>3 DEF Flattens
  <1> HIDE DEF Good
  <1>3. k \in Good
    BY <1>1, <1>2, NatSet
  <1> QED BY <1>3 DEF Good

\* What it flattens is a sequence of what the parts hold.
LEMMA FlattenType ==
    ASSUME NEW S, NEW ss \in Seq(Seq(S))
    PROVE  FlattenSeq(ss) \in Seq(S)
  <1>0. Len(ss) \in Nat /\ \A i \in 1 .. Len(ss) : ss[i] \in Seq(S)
    OBVIOUS
  <1>1. CASE Len(ss) = 0
    <2>1. ss = <<>>
      BY <1>1
    <2>2. FlattenSeq(ss) = ss
      BY <1>1, FlattenIsChosen
    <2>3. <<>> \in Seq(S)
      OBVIOUS
    <2> QED BY <2>1, <2>2, <2>3
  <1>2. CASE Len(ss) # 0
    <2>1. PICK g : Flattens(ss, g, Len(ss)) /\ FlattenSeq(ss) = g[Len(ss)]
      <3>1. \E g : Flattens(ss, g, Len(ss))
        BY <1>0, FlattenExists
      <3> QED BY <3>1, <1>2, FlattenIsChosen
    <2> DEFINE Good == {n \in Nat : n + 1 <= Len(ss) => g[n + 1] \in Seq(S)}
    <2>2. \A i \in 1 .. Len(ss) : g[i] = FlattenStep(ss, g, i)
      BY <2>1 DEF Flattens
    <2>3. 0 \in Good
      <3>1. 1 <= Len(ss) => g[1] = ss[1] /\ ss[1] \in Seq(S)
        BY <2>2, <1>0 DEF FlattenStep
      <3> QED BY <3>1
    <2>4. ASSUME NEW n \in Nat, n \in Good PROVE n + 1 \in Good
      <3> SUFFICES ASSUME (n + 1) + 1 <= Len(ss) PROVE g[(n + 1) + 1] \in Seq(S)
        OBVIOUS
      <3>1. (n + 1) + 1 \in 1 .. Len(ss) /\ ((n + 1) + 1) - 1 = n + 1 /\ n + 1 <= Len(ss)
            /\ (n + 1) + 1 # 1
        BY <1>0
      <3>2. g[(n + 1) + 1] = g[n + 1] \o ss[(n + 1) + 1]
        BY <3>1, <2>2 DEF FlattenStep
      <3>3. g[n + 1] \in Seq(S) /\ ss[(n + 1) + 1] \in Seq(S)
        BY <2>4, <3>1, <1>0
      <3> QED BY <3>2, <3>3
    <2> HIDE DEF Good
    <2>5. Len(ss) - 1 \in Good
      <3>1. Len(ss) - 1 \in Nat
        BY <1>0, <1>2
      <3> QED BY <2>3, <2>4, <3>1, NatSet
    <2>6. (Len(ss) - 1) + 1 = Len(ss)
      BY <1>0
    <2> QED BY <2>1, <2>5, <2>6, <1>0 DEF Good
  <1> QED BY <1>1, <1>2

\* The requests for a type are a sequence of requests for that type.
LEMMA RequestsForType ==
    ASSUME NEW t
    PROVE  /\ RequestsFor(t) \in Seq(Range(RequestsFor(t)))
           /\ \A r \in Range(RequestsFor(t)) : r.type = t
  <1> DEFINE Fine(q) == q \in Seq(Range(q)) /\ \A r \in Range(q) : r.type = t
  <1>1. \A operation, subject : Fine(AskOnce(t, operation, subject))
    BY DEF Range, AskOnce
  <1>2. \A operation : Fine(AskEach(t, operation))
    BY EvidenceAssumption DEF Range, AskEach
  <1>3. Fine(<<>>)
    BY DEF Range
  <1>4. \/ RequestsFor(t) = <<>>
        \/ \E operation, subject : RequestsFor(t) = AskOnce(t, operation, subject)
        \/ \E operation : RequestsFor(t) = AskEach(t, operation)
    BY DEF RequestsFor
  <1> HIDE DEF Fine
  <1>5. Fine(RequestsFor(t))
    BY <1>1, <1>2, <1>3, <1>4
  <1> QED BY <1>5 DEF Fine

\* The plan asks for what the skill requires, and for nothing else.
LEMMA PlanType ==
    ASSUME skill \in Skills
    PROVE  Plan \in Seq({r \in Requests : r.type \in RequiredEvidence})
  <1> DEFINE S == {r \in Requests : r.type \in RequiredEvidence}
             parts == [i \in DOMAIN skill |-> RequestsFor(skill[i])]
  <1>1. skill \in Seq(STRING) /\ DOMAIN skill = 1 .. Len(skill) /\ Len(skill) \in Nat
    BY EvidenceAssumption
  <1>2. ASSUME NEW i \in DOMAIN skill PROVE RequestsFor(skill[i]) \in Seq(S)
    <2>1. Range(RequestsFor(skill[i])) \subseteq S
      BY RequestsForType DEF Requests, RequiredEvidence
    <2>2. \A q, A, B : q \in Seq(A) /\ A \subseteq B => q \in Seq(B)
      OBVIOUS
    <2> HIDE DEF S
    <2> QED BY <2>1, <2>2, RequestsForType
  <1>3. parts \in Seq(Seq(S))
    <2> HIDE DEF S
    <2> QED BY <1>1, <1>2
  <1> HIDE DEF S
  <1>4. FlattenSeq(parts) \in Seq(S)
    BY <1>3, FlattenType
  <1> QED BY <1>4 DEF Plan, S

----------------------------------------------------------------------------
(* The evidence and its bundle.                                             *)

\* The health of a bundle, best first.
HealthStates == {"OK", "DEGRADED", "STALE", "UNAVAILABLE"}

\* An item is of a required type, was known at the decision, and what its
\* quality says of its system is among the answers.
Sound(i) ==
    /\ i.type \in RequiredEvidence /\ i.system = SystemOf(i.type)
    /\ i.asOf <= DecisionTime /\ i.available <= DecisionTime
    /\ i.type = "PORTFOLIO_POSITION" => i.data \in Portfolios
    /\ i.quality \in Qualities \ {"REJECTED"}
    /\ \E s \in statuses : /\ s.system = i.system
                           /\ i.quality = "VERIFIED" \/ s.status # "OK"
                           /\ i.quality = "STALE" => s.status = "STALE"

\* What is collected and frozen, item by item.
EvidenceInvariant ==
    /\ skill \in Skills /\ asked \in Nat
    /\ \A i \in evidence : Sound(i)
    /\ \A s \in statuses : s.status \in HealthStates
    /\ Frozen => bundle = [items |-> evidence, health |-> Health]

\* What an answer is worth: its item and its status agree.
LEMMA AnswerIsSound ==
    ASSUME NEW r \in Requests, NEW a \in Replies(r)
    PROVE  /\ StatusOf(a) \in HealthStates
           /\ Accepted(a) =>
                /\ a.asOf <= DecisionTime /\ a.available <= DecisionTime
                /\ r.type = "PORTFOLIO_POSITION" => a.data \in Portfolios
                /\ a.quality \in Qualities \ {"REJECTED"}
                /\ a.quality = "VERIFIED" \/ StatusOf(a) # "OK"
                /\ a.quality = "STALE" => StatusOf(a) = "STALE"
  <1>1. StatusOf(a) \in HealthStates
    <2>1. FailureStatus(a.kind) \in HealthStates
      BY DEF FailureStatus, HealthStates
    <2> QED BY <2>1 DEF StatusOf, HealthStates
  <1>2. ASSUME Accepted(a)
        PROVE  /\ a.kind = "payload" /\ a.asOf <= DecisionTime /\ a.available <= DecisionTime
               /\ a.quality \in Qualities \ {"REJECTED"}
               /\ r.type = "PORTFOLIO_POSITION" => a.data \in Portfolios
    <2>1. a.kind = "payload" /\ a.asOf <= DecisionTime /\ a.quality # "REJECTED" /\ a.available <= DecisionTime
      BY <1>2 DEF Accepted
    <2> QED BY <2>1, EvidenceAssumption, GovernanceAssumption
  <1>3. ASSUME Accepted(a)
        PROVE  /\ a.quality = "VERIFIED" \/ StatusOf(a) # "OK"
               /\ a.quality = "STALE" => StatusOf(a) = "STALE"
    <2>1. StatusOf(a) = CASE a.quality = "STALE" -> "STALE"
                          [] a.quality \in {"PARTIAL", "DEGRADED", "UNVERIFIED"} -> "DEGRADED"
                          [] OTHER -> "OK"
      BY <1>2, <1>3 DEF StatusOf
    <2> QED BY <2>1, <1>2, <1>3 DEF Qualities
  <1> QED BY <1>1, <1>2, <1>3

\* A request and its answer.
LEMMA CollectStep ==
    ASSUME EvidenceInvariant, Collect
    PROVE  EvidenceInvariant'
  <1> DEFINE r == Plan[asked + 1]
  <1>0. /\ skill \in Skills /\ skill' = skill /\ asked \in Nat /\ asked' = asked + 1 /\ asked < Len(Plan)
        /\ RequiredEvidence' = RequiredEvidence
    BY DEF EvidenceInvariant, Collect, RequiredEvidence
  <1>1. r \in Requests /\ r.type \in RequiredEvidence
    <2>1. Plan \in Seq({q \in Requests : q.type \in RequiredEvidence})
      BY <1>0, PlanType
    <2>2. asked + 1 \in 1 .. Len(Plan)
      BY <1>0, <2>1
    <2>3. Plan[asked + 1] \in {q \in Requests : q.type \in RequiredEvidence}
      BY <2>1, <2>2
    <2> QED BY <2>3
  <1>2. PICK a \in Replies(r) :
          /\ bundle' = IF Refusable(r, a) THEN Refused ELSE NoBundle
          /\ evidence' = IF Accepted(a) THEN evidence \cup {Item(r, a)} ELSE evidence
          /\ statuses' = statuses \cup {[system |-> SystemOf(r.type), status |-> StatusOf(a)]}
    BY DEF Collect
  <1>r. PICK q : q = r
    OBVIOUS
  <1> HIDE DEF r
  <1>3. ~Frozen'
    BY <1>2 DEF Frozen
  <1>4. \A s \in statuses' : s.status \in HealthStates
    BY <1>1, <1>2, AnswerIsSound DEF EvidenceInvariant
  <1>5. \A i \in evidence : Sound(i)'
    BY <1>0, <1>2 DEF EvidenceInvariant, Sound
  <1>6. Accepted(a) => Sound(Item(q, a))'
    <2> SUFFICES ASSUME Accepted(a) PROVE Sound(Item(q, a))'
      OBVIOUS
    <2> DEFINE s == [system |-> SystemOf(q.type), status |-> StatusOf(a)]
    <2>1. s \in statuses' /\ s.system = SystemOf(q.type) /\ s.status = StatusOf(a)
      BY <1>2, <1>r
    <2>2. /\ Item(q, a).type = q.type /\ Item(q, a).system = SystemOf(q.type)
          /\ Item(q, a).data = a.data /\ Item(q, a).asOf = a.asOf
          /\ Item(q, a).available = a.available /\ Item(q, a).quality = a.quality
      BY DEF Item
    <2>3. /\ a.asOf <= DecisionTime /\ a.available <= DecisionTime
          /\ q.type = "PORTFOLIO_POSITION" => a.data \in Portfolios
          /\ a.quality \in Qualities \ {"REJECTED"}
          /\ a.quality = "VERIFIED" \/ StatusOf(a) # "OK"
          /\ a.quality = "STALE" => StatusOf(a) = "STALE"
      BY <1>1, <1>r, AnswerIsSound
    <2>4. PICK i : i = Item(q, a)
      OBVIOUS
    <2> HIDE DEF s
    <2>5. Sound(i)'
      BY <2>1, <2>2, <2>3, <2>4, <1>0, <1>1, <1>r DEF Sound
    <2> QED BY <2>4, <2>5
  <1>7. \A i \in evidence' : Sound(i)'
    BY <1>2, <1>5, <1>6, <1>r
  <1> QED BY <1>0, <1>3, <1>4, <1>7 DEF EvidenceInvariant

\* The bundle holds the evidence and the health of the systems.
LEMMA FreezeStep ==
    ASSUME EvidenceInvariant, Freeze
    PROVE  EvidenceInvariant'
  <1>0. UNCHANGED <<skill, asked, evidence, statuses>>
    BY DEF Freeze
  <1>1. Health' = Health /\ RequiredEvidence' = RequiredEvidence
    BY <1>0 DEF Health, RequiredEvidence
  <1>2. Frozen' => bundle' = [items |-> evidence, health |-> Health]
    BY DEF Freeze, Frozen
  <1>3. \A i \in evidence' : Sound(i)'
    BY <1>0, <1>1 DEF EvidenceInvariant, Sound
  <1> QED BY <1>0, <1>1, <1>2, <1>3 DEF EvidenceInvariant

\* The worst of the answers is one of them, and none is worse.
LEMMA WorstIsWorst ==
    ASSUME NEW all \in SUBSET HealthStates, all # {}
    PROVE  WorstOf(all) \in all /\ \A t \in all : Rank(t) <= Rank(WorstOf(all))
  <1>1. \E s \in all : \A t \in all : Rank(t) <= Rank(s)
    <2>1. CASE "UNAVAILABLE" \in all
      BY <2>1 DEF HealthStates, Rank
    <2>2. CASE "UNAVAILABLE" \notin all /\ "STALE" \in all
      BY <2>2 DEF HealthStates, Rank
    <2>3. CASE "UNAVAILABLE" \notin all /\ "STALE" \notin all /\ "DEGRADED" \in all
      BY <2>3 DEF HealthStates, Rank
    <2>4. CASE "UNAVAILABLE" \notin all /\ "STALE" \notin all /\ "DEGRADED" \notin all
      BY <2>4 DEF HealthStates, Rank
    <2> QED BY <2>1, <2>2, <2>3, <2>4
  <1> QED BY <1>1 DEF WorstOf

\* A system's health is no better than any answer about it.
LEMMA HealthIsWorst ==
    ASSUME EvidenceInvariant, NEW s \in statuses
    PROVE  /\ s.system \in DOMAIN Health
           /\ Health[s.system] = "OK" => s.status = "OK"
           /\ s.status = "STALE" => Health[s.system] \in {"STALE", "UNAVAILABLE"}
  <1> DEFINE seen == {x.system : x \in statuses}
             all == {x.status : x \in {y \in statuses : y.system = s.system}}
  <1>1. s.system \in DOMAIN Health /\ Health[s.system] = WorstOf(all)
    BY DEF Health
  <1>2. all \in SUBSET HealthStates /\ s.status \in all
    BY DEF EvidenceInvariant
  <1> HIDE DEF all
  <1>3. WorstOf(all) \in HealthStates /\ Rank(s.status) <= Rank(WorstOf(all)) /\ s.status \in HealthStates
    BY <1>2, WorstIsWorst
  <1> QED BY <1>1, <1>3 DEF HealthStates, Rank

----------------------------------------------------------------------------
(* The policy engine.                                                       *)

\* What the policy engine approves passed every rule that may reject it.
LEMMA ApprovedPassesEveryRule ==
    ASSUME NEW p, NEW c, ApprovedV2(p, c)
    PROVE  /\ Actionable(p) => c.gross # None /\ c.net # None
           /\ c.domains \subseteq c.covered
           /\ \A s \in RequiredSystems(p, c) : s \in DOMAIN c.health /\ c.health[s] = "OK"
           /\ Actionable(p) /\ p.action \notin Reductions => Adjusted(p, c) > 0
  <1> DEFINE checks == ChecksV2(p, c)
  <1>1. \A rule \in DOMAIN checks : checks[rule]
    BY DEF ApprovedV2, RejectedV2
  <1>2. /\ {"PORTFOLIO_GROSS_LIMIT", "PORTFOLIO_NET_LIMIT", "MINIMUM_EVIDENCE", "DEPENDENCY_HEALTH"}
             \subseteq DOMAIN checks
        /\ checks["PORTFOLIO_GROSS_LIMIT"] = (Actionable(p) => c.gross # None)
        /\ checks["PORTFOLIO_NET_LIMIT"] = (Actionable(p) => c.net # None)
        /\ checks["MINIMUM_EVIDENCE"] = (p.refs # {} /\ c.domains \subseteq c.covered)
        /\ checks["DEPENDENCY_HEALTH"] =
             (\A s \in RequiredSystems(p, c) : s \in DOMAIN c.health /\ c.health[s] = "OK")
    BY DEF ChecksV2
  <1> HIDE DEF checks
  <1>3. /\ checks["PORTFOLIO_GROSS_LIMIT"] /\ checks["PORTFOLIO_NET_LIMIT"]
        /\ checks["MINIMUM_EVIDENCE"] /\ checks["DEPENDENCY_HEALTH"]
    BY <1>1, <1>2
  <1> QED BY <1>2, <1>3 DEF ApprovedV2

\* The target of an actionable proposal: at most what was asked for, and
\* within the limits whose inputs are known.
LEMMA AdjustedFits ==
    ASSUME NEW p, NEW c, NEW w,
           p.target \in Nat \cup {None}, p.delta \in Int \cup {None}, Actionable(p),
           c.current \in Int, c.gross \in Int, c.net \in Int,
           c.industry = None, c.theme = None, c.drawdown \in BOOLEAN,
           w = AdjustedWeight(p, c)
    PROVE  /\ w \in Nat /\ w <= SingleLimit /\ w <= Requested(p, c)
           /\ w # 0 => (c.gross - c.current) + w <= GrossLimit
           /\ w # 0 => (c.net - c.current) + w <= NetLimit
           /\ c.drawdown => w <= DrawdownCap
  <1> USE PolicyLimitsAssumption
  <1>1. Requested(p, c) \in Nat
    BY DEF Requested, Actionable, AtLeastZero
  <1> DEFINE w1 == Lower(Requested(p, c), SingleLimit)
             w2 == GrossCapped(w1, c)
             w3 == NetCapped(w2, c)
  <1>2. w1 \in Nat /\ w1 <= SingleLimit /\ w1 <= Requested(p, c)
    BY <1>1 DEF Lower
  <1> HIDE DEF w1
  <1>3. w2 \in Nat /\ w2 <= w1 /\ (w2 # 0 => (c.gross - c.current) + w2 <= GrossLimit)
    <2>1. w2 = Lower(w1, Headroom(GrossLimit, c.gross - c.current))
      BY DEF GrossCapped, Capped
    <2> QED BY <2>1, <1>2 DEF Lower, Headroom, AtLeastZero
  <1> HIDE DEF w2
  <1>4. w3 \in Nat /\ w3 <= w2 /\ (w3 # 0 => (c.net - c.current) + w3 <= NetLimit)
    <2>1. w3 = Lower(w2, Headroom(NetLimit, c.net - c.current))
      BY DEF NetCapped, Capped
    <2> QED BY <2>1, <1>3 DEF Lower, Headroom, AtLeastZero
  <1>5. w = DrawdownCapped(w3, c)
    BY DEF AdjustedWeight, IndustryCapped, ThemeCapped, Capped, w1, w2
  <1> HIDE DEF w3
  <1>6. w \in Nat /\ w <= w3 /\ (c.drawdown => w <= DrawdownCap)
    BY <1>4, <1>5 DEF DrawdownCapped, Capped, Lower
  <1> QED BY <1>1, <1>2, <1>3, <1>4, <1>6

\* What the analysis service's governance approves.
LEMMA GovernedFits ==
    ASSUME NEW a \in Analyses,
           NEW v, v = Govern(a.proposal, a.context, a.conflicts, a.risk, a.profile), v.weight > 0
    PROVE  /\ a.context.current + v.weight <= SingleLimitV1(a.context)
           /\ a.profile # None => v.weight <= a.profile.cap
           /\ ~a.risk
           /\ \A k \in a.conflicts, o \in UNION {x.opinions : x \in a.conflicts} :
                o.agent = "risk" => ~o.veto /\ ~k.risk_veto
  <1> USE PolicyLimitsAssumption
  <1> DEFINE p == a.proposal
             c == a.context
             vetoed == a.risk \/ \E k \in a.conflicts : Vetoes(k)
             fits == IF a.profile = None THEN p.weight ELSE Suitable(a.profile, p.weight)
  <1>0. /\ p.weight \in Int /\ c.current \in Int /\ c.industry \in Int /\ c.theme \in Int
        /\ a.profile # None => a.profile.cap \in Int
    BY GovernanceAssumption
  <1>1. v = CASE vetoed -> [action |-> "VETO", weight |-> 0]
              [] ~vetoed /\ ~ApprovedV1(p, c) -> [action |-> "REJECT", weight |-> 0]
              [] ~vetoed /\ ApprovedV1(p, c) /\ fits = None -> [action |-> "REJECT", weight |-> 0]
              [] OTHER -> [action |-> p.action, weight |-> Lower(WeightV1(p, c), fits)]
    BY DEF Govern
  <1> HIDE DEF vetoed, fits, p, c
  <1>2. ~vetoed /\ ApprovedV1(p, c) /\ fits # None /\ v.weight = Lower(WeightV1(p, c), fits)
    BY <1>1
  <1>3. fits \in Int /\ (a.profile # None => fits <= a.profile.cap)
    BY <1>0, <1>2 DEF fits, Suitable, Lower
  <1>4. SingleLimitV1(c) \in Nat
    BY DEF SingleLimitV1
  <1>5. WeightV1(p, c) \in Int /\ WeightV1(p, c) <= Headroom(SingleLimitV1(c), c.current)
    <2> DEFINE single == Lower(p.weight, Headroom(SingleLimitV1(c), c.current))
               sector == IF p.sector THEN Lower(single, Headroom(IndustryLimit, c.industry)) ELSE single
    <2>1. single \in Int /\ single <= Headroom(SingleLimitV1(c), c.current)
          /\ Headroom(SingleLimitV1(c), c.current) \in Int
      BY <1>0, <1>4 DEF Lower, Headroom, AtLeastZero
    <2> HIDE DEF single
    <2>2. sector \in Int /\ sector <= single
      BY <2>1, <1>0 DEF Lower, Headroom, AtLeastZero
    <2>3. WeightV1(p, c) = IF p.theme THEN Lower(sector, Headroom(ThemeLimit, c.theme)) ELSE sector
      BY DEF WeightV1, single
    <2> HIDE DEF sector
    <2> QED BY <2>1, <2>2, <2>3, <1>0 DEF Lower, Headroom, AtLeastZero
  <1>6. v.weight <= WeightV1(p, c) /\ v.weight <= fits /\ v.weight \in Int
    BY <1>2, <1>3, <1>5 DEF Lower
  <1>7. c.current + v.weight <= SingleLimitV1(c)
    BY <1>0, <1>4, <1>5, <1>6 DEF Headroom, AtLeastZero
  <1>8. a.profile # None => v.weight <= a.profile.cap
    BY <1>0, <1>3, <1>6
  <1>9. ~a.risk /\ \A k \in a.conflicts : ~Vetoes(k)
    BY <1>2 DEF vetoed
  <1>10. \A k \in a.conflicts, o \in UNION {x.opinions : x \in a.conflicts} :
           o.agent = "risk" => ~o.veto /\ ~k.risk_veto
    BY <1>9 DEF Vetoes, VetoOpinions
  <1> QED BY <1>7, <1>8, <1>9, <1>10 DEF c

----------------------------------------------------------------------------
(* The decision.                                                            *)

\* A decision is the governance of its proposal over the frozen bundle, and
\* what the analysis governed is the governance of its input.
Governed ==
    /\ decision # NoDecision =>
        /\ Frozen
        /\ proposal.target \in Nat \cup {None} /\ proposal.delta \in Int \cup {None}
        /\ \E risk : decision = FinalDecision(bundle, proposal, risk)
    /\ analysis # NoDecision =>
        \E a \in Analyses :
            analysis = [input |-> a,
                        verdict |-> Govern(a.proposal, a.context, a.conflicts, a.risk, a.profile)]

\* The context the policy engine is given.
LEMMA ContextIs ==
    ASSUME NEW b, NEW p, NEW risk, NEW c, c = ContextOf(b, p, risk)
    PROVE  /\ c.current = Held(b)
           /\ c.gross = (IF Portfolio(b) # None THEN Portfolio(b).gross ELSE None)
           /\ c.net = (IF Portfolio(b) # None THEN Portfolio(b).net ELSE None)
           /\ c.drawdown = (Portfolio(b) # None /\ Portfolio(b).drawdown)
           /\ c.industry = None /\ c.theme = None
           /\ c.covered = Covered(b) /\ "market" \in c.domains
           /\ RequiredEvidence \cap FactorTypes # {} => "factor" \in c.requires
           /\ RequiredEvidence \cap (ContentTypes \ {"RISK_EVENT"}) # {} => "content" \in c.requires
           /\ c.health = b.health
  BY DEF ContextOf

\* What is final when the verdict is not a veto.
LEMMA FinalIs ==
    ASSUME NEW b, NEW p, NEW risk, NEW d, d = FinalDecision(b, p, risk), d.verdict # "VETO"
    PROVE  /\ ~RiskVeto(risk) /\ ~MissingContext(b, p) /\ ApprovedV2(p, ContextOf(b, p, risk))
           /\ d.risk = risk /\ d.reasons = QualityReasons(b, p, risk)
           /\ d.target # None => Actionable(p) /\ d.target = AdjustedWeight(p, ContextOf(b, p, risk))
  <1> DEFINE weight == IF Actionable(p) THEN Adjusted(p, ContextOf(b, p, risk)) ELSE 0
             veto == FinalVeto(b, p, risk)
             asked_for == IF p.target = None THEN 0 ELSE p.target
             verdict == CASE veto -> "VETO"
                          [] ~veto /\ weight # asked_for -> "APPROVE_WITH_ADJUSTMENT"
                          [] OTHER -> "APPROVE"
  <1>1. /\ d.verdict = verdict
        /\ d.target = (IF veto \/ ~Actionable(p) THEN None ELSE weight)
        /\ d.risk = risk /\ d.reasons = QualityReasons(b, p, risk)
    BY DEF FinalDecision
  <1>2. ~veto
    <2>1. veto => verdict = "VETO"
      OBVIOUS
    <2> HIDE DEF verdict
    <2> QED BY <1>1, <2>1
  <1> HIDE DEF verdict
  <1> QED BY <1>1, <1>2 DEF FinalVeto, Adjusted

\* An approved decision: what the rules and the evidence say of it.
LEMMA ApprovedIs ==
    ASSUME EvidenceInvariant, Governed, Approved
    PROVE  \E risk :
            /\ ~RiskVeto(risk) /\ ~MissingContext(bundle, proposal)
            /\ ApprovedV2(proposal, ContextOf(bundle, proposal, risk))
            /\ decision.risk = risk /\ decision.reasons = QualityReasons(bundle, proposal, risk)
            /\ decision.target # None =>
                /\ Actionable(proposal)
                /\ decision.target = AdjustedWeight(proposal, ContextOf(bundle, proposal, risk))
  <1>1. PICK risk : decision = FinalDecision(bundle, proposal, risk)
    BY DEF Governed, Approved
  <1> QED BY <1>1, FinalIs DEF Approved

\* With a known gross exposure there is a position item, and the portfolio
\* is its payload.
LEMMA PortfolioIs ==
    ASSUME EvidenceInvariant, Frozen, NEW p, NEW risk, ContextOf(bundle, p, risk).gross # None
    PROVE  /\ Portfolio(bundle) # None /\ Portfolio(bundle) \in Portfolios
           /\ \E i \in bundle.items : i.type = "PORTFOLIO_POSITION"
  <1>1. Portfolio(bundle) # None
    BY ContextIs
  <1>2. bundle.items = evidence
    BY DEF EvidenceInvariant
  <1> DEFINE rows == {i.data : i \in OfType(bundle, {"PORTFOLIO_POSITION"})}
  <1>3. rows # {} /\ Portfolio(bundle) = CHOOSE d \in rows : TRUE
    BY <1>1 DEF Portfolio
  <1>4. Portfolio(bundle) \in rows
    <2> HIDE DEF rows
    <2> QED BY <1>3
  <1>5. PICK i \in bundle.items : i.type = "PORTFOLIO_POSITION" /\ Portfolio(bundle) = i.data
    BY <1>4 DEF OfType
  <1> QED BY <1>1, <1>2, <1>5 DEF EvidenceInvariant, Sound

\* The approved target.
LEMMA TargetFits ==
    ASSUME EvidenceInvariant, Governed
    PROVE  ApprovedTargetFits
  <1> SUFFICES ASSUME Approved, decision.target # None
               PROVE  LET data == Portfolio(bundle)
                          w == decision.target
                      IN  /\ w <= SingleLimit
                          /\ w # 0 => data.gross - data.current + w <= GrossLimit
                          /\ w # 0 => data.net - data.current + w <= NetLimit
                          /\ data.drawdown => w <= DrawdownCap
                          /\ w <= Requested(proposal, [current |-> data.current])
                          /\ w = 0 => proposal.action \in Reductions
    BY DEF ApprovedTargetFits
  <1>1. PICK risk :
          /\ ApprovedV2(proposal, ContextOf(bundle, proposal, risk))
          /\ Actionable(proposal)
          /\ decision.target = AdjustedWeight(proposal, ContextOf(bundle, proposal, risk))
    BY ApprovedIs
  <1> DEFINE data == Portfolio(bundle)
             c == ContextOf(bundle, proposal, risk)
             w == decision.target
  <1>2. c.gross # None /\ c.net # None
        /\ (proposal.action \notin Reductions => Adjusted(proposal, c) > 0)
    BY <1>1, ApprovedPassesEveryRule
  <1>3. /\ Frozen /\ proposal.target \in Nat \cup {None} /\ proposal.delta \in Int \cup {None}
    BY DEF Governed, Approved
  <1>4. data # None /\ data \in Portfolios
    BY <1>2, <1>3, PortfolioIs
  <1>5. /\ c.current = data.current /\ c.gross = data.gross /\ c.net = data.net
        /\ c.drawdown = data.drawdown /\ c.industry = None /\ c.theme = None
    <2>1. Held(bundle) = data.current
      BY <1>4 DEF Held
    <2>2. (data # None /\ data.drawdown) = data.drawdown
      BY <1>4 DEF Portfolios
    <2> QED BY <1>4, <2>1, <2>2, ContextIs
  <1>6. w = AdjustedWeight(proposal, c) /\ w = Adjusted(proposal, c)
    BY <1>1 DEF Adjusted
  <1> HIDE DEF c, w, data
  <1>7. /\ c.current \in Int /\ c.gross \in Int /\ c.net \in Int /\ c.drawdown \in BOOLEAN
    BY <1>2, <1>4, <1>5 DEF Portfolios
  <1>8. /\ w \in Nat /\ w <= SingleLimit /\ w <= Requested(proposal, c)
        /\ w # 0 => (c.gross - c.current) + w <= GrossLimit
        /\ w # 0 => (c.net - c.current) + w <= NetLimit
        /\ c.drawdown => w <= DrawdownCap
    BY <1>1, <1>3, <1>5, <1>6, <1>7, AdjustedFits
  <1>9. Requested(proposal, c) = Requested(proposal, [current |-> data.current])
    BY <1>5 DEF Requested
  <1>10. w = 0 => proposal.action \in Reductions
    BY <1>2, <1>6
  <1> QED BY <1>5, <1>7, <1>8, <1>9, <1>10 DEF w, data

\* The approved decision's grounds.
LEMMA Grounded ==
    ASSUME EvidenceInvariant, Governed
    PROVE  ApprovedIsGrounded
  <1> SUFFICES ASSUME Approved
               PROVE  /\ decision.risk \notin {"FAILED", "veto"}
                      /\ "CRITICAL_MARKET_MISSING" \notin decision.reasons
                      /\ decision.target # None =>
                          /\ decision.reasons = {}
                          /\ \A s \in statuses : s.system = "quant" => s.status = "OK"
                      /\ \A i \in bundle.items : i.available <= DecisionTime /\ i.asOf <= DecisionTime
                      /\ \A i \in bundle.items :
                           i.type \in proposal.refs \ {"RISK_EVENT"} => i.quality # "STALE"
    BY DEF ApprovedIsGrounded
  <1>1. PICK risk :
          /\ ~RiskVeto(risk) /\ ~MissingContext(bundle, proposal)
          /\ ApprovedV2(proposal, ContextOf(bundle, proposal, risk))
          /\ decision.risk = risk /\ decision.reasons = QualityReasons(bundle, proposal, risk)
          /\ decision.target # None => Actionable(proposal)
    BY ApprovedIs
  <1> DEFINE c == ContextOf(bundle, proposal, risk)
  <1>2. Frozen /\ bundle.items = evidence /\ bundle.health = Health
    BY DEF Governed, Approved, EvidenceInvariant
  <1>3. /\ Actionable(proposal) => c.gross # None
        /\ "market" \in Covered(bundle)
        /\ \A s \in RequiredSystems(proposal, c) : s \in DOMAIN Health /\ Health[s] = "OK"
    <2>1. c.covered = Covered(bundle) /\ "market" \in c.domains /\ c.health = Health
      BY <1>2, ContextIs
    <2> HIDE DEF c
    <2>2. ApprovedV2(proposal, c)
      BY <1>1 DEF c
    <2> QED BY <2>1, <2>2, ApprovedPassesEveryRule
  <1>4. /\ RequiredEvidence \cap FactorTypes # {} => "factor" \in RequiredSystems(proposal, c)
        /\ RequiredEvidence \cap (ContentTypes \ {"RISK_EVENT"}) # {}
             => "content" \in RequiredSystems(proposal, c)
        /\ Actionable(proposal) => "quant" \in RequiredSystems(proposal, c)
    BY ContextIs DEF RequiredSystems
  <1> HIDE DEF c
  <1>5. "quant" \in DOMAIN Health => Health["quant"] \notin {"UNAVAILABLE", "STALE"}
    BY <1>1, <1>2 DEF MissingContext
  <1>6. risk \notin {"FAILED", "veto"}
    BY <1>1 DEF RiskVeto
  <1>7. "CRITICAL_MARKET_MISSING" \notin decision.reasons
    BY <1>1, <1>2, <1>3, <1>5 DEF QualityReasons
  <1>8. ASSUME decision.target # None
        PROVE  /\ decision.reasons = {}
               /\ \A s \in statuses : s.system = "quant" => s.status = "OK"
    <2>1. Actionable(proposal)
      BY <1>1, <1>8
    <2>2. "quant" \in DOMAIN Health /\ Health["quant"] = "OK"
      BY <1>3, <1>4, <2>1
    <2>3. \A s \in statuses : s.system = "quant" => s.status = "OK"
      BY <2>2, HealthIsWorst
    <2>4. PICK i \in evidence : i.type = "PORTFOLIO_POSITION"
      BY <1>2, <1>3, <2>1, PortfolioIs DEF c
    <2>5. i.quality = "VERIFIED"
      <3>1. Sound(i) /\ i.system = "quant"
        BY <2>4 DEF EvidenceInvariant, Sound, SystemOf, FactorTypes, ContentTypes
      <3> QED BY <3>1, <2>3 DEF Sound
    <2>6. "portfolio" \in Covered(bundle)
      BY <2>4, <2>5, <1>2 DEF Covered, OfType, DomainTypes, PortfolioTypes
    <2>7. ~(bundle.items # {} /\ \A j \in bundle.items : j.quality = "UNVERIFIED")
      BY <2>4, <2>5, <1>2
    <2> QED BY <2>3, <2>6, <2>7, <1>1, <1>2, <1>3, <1>5, <1>6 DEF QualityReasons
  <1>9. \A i \in bundle.items : i.available <= DecisionTime /\ i.asOf <= DecisionTime
    BY <1>2 DEF EvidenceInvariant, Sound
  <1>10. ASSUME NEW i \in bundle.items, i.type # "RISK_EVENT", i.quality = "STALE"
         PROVE  FALSE
    <2>1. PICK s \in statuses : s.system = SystemOf(i.type) /\ s.status = "STALE"
      BY <1>2, <1>10 DEF EvidenceInvariant, Sound
    <2>2. /\ s.system \in DOMAIN Health /\ Health[s.system] \in {"STALE", "UNAVAILABLE"}
      BY <2>1, HealthIsWorst
    <2>3. i.type \in RequiredEvidence
      BY <1>2 DEF EvidenceInvariant, Sound
    <2>4. CASE i.type \in FactorTypes
      <3>1. s.system = "factor"
        BY <2>1, <2>4 DEF SystemOf, FactorTypes, ContentTypes
      <3> QED BY <3>1, <2>2, <2>3, <2>4, <1>3, <1>4
    <2>5. CASE i.type \in ContentTypes
      <3>1. s.system = "content"
        BY <2>1, <2>5 DEF SystemOf, ContentTypes, FactorTypes
      <3> QED BY <3>1, <2>2, <2>3, <2>5, <1>3, <1>4, <1>10
    <2>6. CASE i.type \notin FactorTypes /\ i.type \notin ContentTypes
      <3>1. s.system = "quant"
        BY <2>1, <2>6 DEF SystemOf
      <3> QED BY <3>1, <2>2, <1>5
    <2> QED BY <2>4, <2>5, <2>6
  <1> QED BY <1>1, <1>6, <1>7, <1>8, <1>9, <1>10

\* Every behaviour keeps the two invariants.
THEOREM GovernanceInvariance == GovernanceSpec => [](EvidenceInvariant /\ Governed)
  <1>1. GovernanceInit => EvidenceInvariant /\ Governed
    BY DEF GovernanceInit, GatherInit, EvidenceInvariant, Governed, Frozen
  <1>2. ASSUME EvidenceInvariant, Governed, [GovernanceNext]_governanceVars
        PROVE  EvidenceInvariant' /\ Governed'
    <2>1. CASE GatherStep /\ UNCHANGED <<proposal, decision, analysis>>
      <3>1. ~Frozen
        BY <2>1 DEF GatherStep, Collect, Freeze, Frozen
      <3>2. decision = NoDecision
        BY <3>1, <1>2 DEF Governed
      <3>3. Governed'
        BY <3>2, <2>1, <1>2 DEF Governed
      <3> QED BY <3>3, <2>1, <1>2, CollectStep, FreezeStep DEF GatherStep
    <2>2. ASSUME UNCHANGED gatherVars PROVE EvidenceInvariant' /\ Frozen' = Frozen /\ RequiredEvidence' = RequiredEvidence
      BY <2>2, <1>2 DEF gatherVars, EvidenceInvariant, Frozen, Health, Sound, RequiredEvidence
    <2>3. CASE Calculate
      <3>1. /\ Frozen /\ UNCHANGED gatherVars /\ analysis' = analysis /\ bundle' = bundle
        BY <2>3 DEF Calculate, gatherVars
      <3>2. PICK draft \in ModelProposals, refs \in Citations(bundle), ran \in BOOLEAN :
              /\ proposal' = [subject |-> "SYMBOL", action |-> draft.action, target |-> draft.target,
                              delta |-> draft.delta, confidence |-> draft.confidence, refs |-> refs]
              /\ decision' = FinalDecision(bundle, proposal', RiskArtifact(bundle, ran))
        BY <2>3 DEF Calculate
      <3>3. proposal'.target \in Nat \cup {None} /\ proposal'.delta \in Int \cup {None}
        BY <3>2, GovernanceAssumption
      <3>4. PICK risk : risk = RiskArtifact(bundle, ran)
        OBVIOUS
      <3>5. decision' = FinalDecision(bundle, proposal, risk)'
        BY <3>1, <3>2, <3>4, <2>2 DEF FinalDecision, FinalVeto, ContextOf, gatherVars
      <3> QED BY <3>1, <3>3, <3>5, <2>2, <1>2 DEF Governed
    <2>4. CASE GovernAnalysis
      <3>1. UNCHANGED <<gatherVars, proposal, decision>> /\ bundle' = bundle
        BY <2>4 DEF GovernAnalysis, gatherVars
      <3>2. \E a \in Analyses :
            analysis' = [input |-> a,
                         verdict |-> Govern(a.proposal, a.context, a.conflicts, a.risk, a.profile)]
        BY <2>4 DEF GovernAnalysis
      <3>3. \A risk : FinalDecision(bundle, proposal, risk)' = FinalDecision(bundle, proposal, risk)
        BY <3>1, <2>2 DEF FinalDecision, FinalVeto, ContextOf, gatherVars
      <3> QED BY <3>1, <3>2, <3>3, <2>2, <1>2 DEF Governed
    <2>5. CASE UNCHANGED governanceVars
      <3>1. UNCHANGED <<gatherVars, proposal, decision, analysis>> /\ bundle' = bundle
        BY <2>5 DEF governanceVars, gatherVars
      <3>2. \A risk : FinalDecision(bundle, proposal, risk)' = FinalDecision(bundle, proposal, risk)
        BY <3>1, <2>2 DEF FinalDecision, FinalVeto, ContextOf, gatherVars
      <3> QED BY <3>1, <3>2, <2>2, <1>2 DEF Governed
    <2> QED BY <1>2, <2>1, <2>3, <2>4, <2>5 DEF GovernanceNext
  <1> QED BY <1>1, <1>2, PTL DEF GovernanceSpec

\* An approved target weight fits every limit of the policy together with what
\* is held, for any evidence, portfolio and proposal (calculate,
\* evaluate_formal_v2_policy, _adjusted_target).
THEOREM ApprovedFits == GovernanceSpec => []ApprovedTargetFits
  BY GovernanceInvariance, TargetFits, PTL

\* Nothing is approved on missing inputs, a failed or vetoing risk specialist, a
\* failed market request, data from after the decision or cited stale
\* evidence (calculate, formal_quality, collect).
THEOREM ApprovedGrounded == GovernanceSpec => []ApprovedIsGrounded
  BY GovernanceInvariance, Grounded, PTL

\* A weight the analysis service approves fits the limit, suits the investor and
\* was vetoed by no risk opinion (resolve_conflicts_v2, _govern).
THEOREM AnalysisGoverned == GovernanceSpec => []AnalysisIsGoverned
  <1>1. Governed => AnalysisIsGoverned
    <2> SUFFICES ASSUME Governed, analysis # NoDecision, analysis.verdict.weight > 0
                 PROVE  LET in == analysis.input IN
                        /\ in.context.current + analysis.verdict.weight <= SingleLimitV1(in.context)
                        /\ in.profile # None => analysis.verdict.weight <= in.profile.cap
                        /\ ~in.risk
                        /\ \A k \in in.conflicts, o \in UNION {x.opinions : x \in in.conflicts} :
                             o.agent = "risk" => ~o.veto /\ ~k.risk_veto
      BY DEF AnalysisIsGoverned
    <2>1. PICK a \in Analyses :
            analysis = [input |-> a,
                        verdict |-> Govern(a.proposal, a.context, a.conflicts, a.risk, a.profile)]
      BY DEF Governed
    <2>2. analysis.input = a
          /\ analysis.verdict = Govern(a.proposal, a.context, a.conflicts, a.risk, a.profile)
      BY <2>1
    <2> QED BY <2>2, GovernedFits
  <1> QED BY <1>1, GovernanceInvariance, PTL

----------------------------------------------------------------------------
(* Decision replay.                                                        *)

\* What was answered is the answer to what was asked.
Answered == ask # NoAsk => ask \in Asks /\ reply = IF ask.entry = "v2" THEN Strict(ask) ELSE Adapter(ask)

\* The runner's component in a mode.
RunOf(mode) == IF mode \in DOMAIN Component THEN Component[mode] ELSE "counterfactual"

\* What the modes fix is compared, and never the component they replace.
LEMMA FixedIsCompared ==
    ASSUME NEW mode \in V2Modes
    PROVE  /\ FixedIn(mode) \subseteq Compared \ {"policy_evaluation"}
           /\ mode # "EXACT_REPLAY" /\ RunOf(mode) \in DOMAIN Identity => Identity[RunOf(mode)] \notin FixedIn(mode)
           /\ FixedIn(mode) \cap CounterfactualKeys = {}
  <1> USE DEF V2Modes, Component, Identity, Identities, Compared, CounterfactualKeys, FixedIn, RunOf
  <1>1. CASE mode = "MODEL_REPLAY"
    BY <1>1
  <1>2. CASE mode = "SKILL_REPLAY"
    BY <1>2
  <1>3. CASE mode = "POLICY_REPLAY"
    BY <1>3
  <1>4. CASE mode = "WORKFLOW_REPLAY"
    BY <1>4
  <1>5. CASE mode = "EXACT_REPLAY"
    BY <1>5
  <1>6. CASE mode = "COUNTERFACTUAL_REPLAY"
    BY <1>6
  <1> QED BY <1>1, <1>2, <1>3, <1>4, <1>5, <1>6

\* A compared segment other than the policy's that is not the replaced
\* component is the envelope's, or the recorded one.
LEMMA ReplayedIs ==
    ASSUME NEW component, NEW e, NEW wanted,
           NEW f \in Compared \ {"policy_version", "policy_evaluation"},
           ~(component \in DOMAIN Identity /\ f = Identity[component]), f \in DOMAIN e
    PROVE  Replayed(component, e, wanted)[f] = e[f]
  BY DEF Replayed, Has

\* A successful replay from a snapshot ran a runner, or only verified the
\* anchor; a runner's result passed the checks of its mode.
LEMMA SucceededIs ==
    ASSUME NEW a, a.mode \in V2Modes, ReplayV2(a).status = "SUCCEEDED", ReplayV2(a).executed
    PROVE  /\ ReplayRequestOk(a.mode, a.keys)
           /\ \/ /\ a.mode = "EXACT_REPLAY"
                 /\ Differs(Replayed("exact", a.envelope, Recorded)) = {}
                 /\ ReplayV2(a).changed = {}
              \/ /\ a.mode # "EXACT_REPLAY"
                 /\ KeepsFixed(a.mode, Replayed(RunOf(a.mode), a.envelope, a.wanted))
                 /\ RunOf(a.mode) \in DOMAIN Identity => IdentityOk(RunOf(a.mode), a.envelope, a.wanted)
                 /\ ReplayV2(a).changed =
                      Differs(Replayed(RunOf(a.mode), a.envelope, a.wanted))
                        \cup (IF RunOf(a.mode) = "counterfactual" THEN a.keys ELSE {})
  <1>0. \A error : Rejected(error).status # "SUCCEEDED"
    BY DEF Rejected
  <1>1. \A mode, changed :
          /\ ~Reported(mode, changed, FALSE).executed
          /\ Reported(mode, changed, TRUE).changed = changed
          /\ Reported(mode, changed, TRUE).status = "SUCCEEDED" /\ mode = "EXACT_REPLAY" => changed = {}
    BY DEF Reported
  <1>2. ReplayRequestOk(a.mode, a.keys) /\ a.defect = "none"
    BY <1>0 DEF ReplayV2
  <1>3. CASE a.mode = "EXACT_REPLAY"
    <2>1. ReplayV2(a) = Reported(a.mode, Differs(Replayed("exact", a.envelope, Recorded)), TRUE)
      BY <1>0, <1>1, <1>2, <1>3 DEF ReplayV2
    <2> DEFINE d == Differs(Replayed("exact", a.envelope, Recorded))
    <2> HIDE DEF d
    <2>2. ReplayV2(a) = Reported(a.mode, d, TRUE)
      BY <2>1 DEF d
    <2>3. Reported(a.mode, d, TRUE).changed = d
          /\ (Reported(a.mode, d, TRUE).status = "SUCCEEDED" => d = {})
      BY <1>1, <1>3
    <2>4. d = {} /\ ReplayV2(a).changed = {}
      BY <2>2, <2>3
    <2> QED BY <2>4, <1>2, <1>3 DEF d
  <1>4. CASE a.mode # "EXACT_REPLAY"
    <2>1. ReplayV2(a) = RunComponent(a)
      BY <1>0, <1>2, <1>4 DEF ReplayV2
    <2> DEFINE replayed == Replayed(RunOf(a.mode), a.envelope, a.wanted)
               overrides == IF RunOf(a.mode) = "counterfactual" THEN a.keys ELSE {}
    <2>2. RunComponent(a) =
            IF \/ ~RunnerEnvelopeOk(a.mode, a.envelope)
               \/ RunOf(a.mode) \in DOMAIN Identity /\ ~IdentityOk(RunOf(a.mode), a.envelope, a.wanted)
               \/ RunOf(a.mode) = "counterfactual" /\ a.envelope.applied_overrides # a.wanted
               \/ ~KeepsFixed(a.mode, replayed)
              THEN Rejected("REPLAY_INPUT_INVALID")
              ELSE Reported(a.mode, Differs(replayed) \cup overrides, TRUE)
      BY Zenon DEF RunComponent, RunOf
    <2> HIDE DEF replayed, overrides
    <2>3. /\ RunOf(a.mode) \in DOMAIN Identity => IdentityOk(RunOf(a.mode), a.envelope, a.wanted)
          /\ KeepsFixed(a.mode, replayed)
          /\ ReplayV2(a) = Reported(a.mode, Differs(replayed) \cup overrides, TRUE)
      BY <2>1, <2>2, <1>0
    <2>4. Reported(a.mode, Differs(replayed) \cup overrides, TRUE).changed = Differs(replayed) \cup overrides
      BY <1>1
    <2> QED BY <2>3, <2>4, <1>2, <1>4 DEF replayed, overrides
  <1> QED BY <1>3, <1>4

\* The answer to one request.
LEMMA AnswerKeepsTheAnchor ==
    ASSUME Answered, FromSnapshot, reply.executed
    PROVE  ReplayKeepsTheAnchor
  <1> DEFINE e == ask.envelope
             mode == ask.mode
             component == IF mode = "EXACT_REPLAY" THEN "exact" ELSE RunOf(mode)
             wanted == IF mode = "EXACT_REPLAY" THEN Recorded ELSE ask.wanted
             replayed == Replayed(component, e, wanted)
  <1>1. reply = ReplayV2(ask)
    <2>1. reply = Rejected("REPLAY_INPUT_INVALID") \/ reply = ReplayV2(ask)
      BY DEF Answered, FromSnapshot, Strict, Adapter
    <2> QED BY <2>1 DEF FromSnapshot, Rejected
  <1>2. mode \in V2Modes /\ reply.status = "SUCCEEDED"
    BY DEF FromSnapshot
  <1>3. /\ ReplayRequestOk(mode, ask.keys)
        /\ FixedIn(mode) \cap Differs(replayed) = {}
        /\ mode = "EXACT_REPLAY" => reply.changed = {} /\ Differs(replayed) = {}
        /\ mode # "EXACT_REPLAY" =>
             /\ RunOf(mode) \in DOMAIN Identity => IdentityOk(RunOf(mode), e, ask.wanted)
             /\ reply.changed = Differs(replayed)
                  \cup (IF RunOf(mode) = "counterfactual" THEN ask.keys ELSE {})
    BY <1>1, <1>2, SucceededIs DEF KeepsFixed
  <1>4. component = "exact" \/ component = "counterfactual" \/ component \in DOMAIN Identity
    BY <1>2 DEF V2Modes, RunOf, Component, Identity
  <1>5. ASSUME NEW f \in Compared \ {"policy_version", "policy_evaluation"}, f \in DOMAIN e,
               ~(component \in DOMAIN Identity /\ f = Identity[component])
        PROVE  replayed[f] = e[f] /\ (f \notin Differs(replayed) => e[f] = Recorded)
    <2>1. replayed[f] = e[f]
      BY <1>5, ReplayedIs
    <2> HIDE DEF replayed
    <2> QED BY <2>1, <1>5 DEF Differs
  <1>6. component = "exact" => component \notin DOMAIN Identity
    BY DEF Identity
  <1>7. mode = "EXACT_REPLAY" \/ component = RunOf(mode)
    OBVIOUS
  <1>8. mode = "EXACT_REPLAY" => component = "exact"
    OBVIOUS
  <1> HIDE DEF e, mode, component, wanted, replayed
  <1>9. reply.changed \cap FixedIn(mode) = {}
    <2>1. RunOf(mode) = "counterfactual" /\ mode # "EXACT_REPLAY" => ask.keys \subseteq CounterfactualKeys
      BY <1>2, <1>3 DEF V2Modes, RunOf, Component, ReplayRequestOk
    <2> QED BY <2>1, <1>2, <1>3, FixedIsCompared
  <1>10. \A f \in (FixedIn(mode) \ {"policy_version"}) \cap DOMAIN e : e[f] = Recorded
    BY <1>2, <1>3, <1>5, <1>6, <1>7, <1>8, FixedIsCompared
  <1>11. mode \in DOMAIN Component =>
            (Has(e, Identity[Component[mode]]) => e[Identity[Component[mode]]] = ask.wanted)
    <2> SUFFICES ASSUME mode \in DOMAIN Component PROVE Has(e, Identity[Component[mode]]) => e[Identity[Component[mode]]] = ask.wanted
      OBVIOUS
    <2>1. mode # "EXACT_REPLAY" /\ RunOf(mode) = Component[mode] /\ Component[mode] \in DOMAIN Identity
      BY DEF Component, RunOf, Identity
    <2>2. IdentityOk(Component[mode], e, ask.wanted)
      BY <1>3, <2>1
    <2> QED BY <2>2 DEF IdentityOk
  <1>12. \A f \in {"proposal", "final"} \cap DOMAIN e : e[f] # Recorded => f \in reply.changed
    <2>1. \A f \in {"proposal", "final"} :
            /\ f \in Compared \ {"policy_version", "policy_evaluation"}
            /\ component \in DOMAIN Identity => f # Identity[component]
      BY DEF Compared, Identity
    <2> QED BY <2>1, <1>3, <1>5
  <1> QED BY <1>9, <1>10, <1>11, <1>12 DEF ReplayKeepsTheAnchor, e, mode

\* Every replay keeps the anchor.
THEOREM ReplaysKeepTheAnchor == DecisionReplaySpec => []ReplayKeepsTheAnchor
  <1>1. DecisionReplayInit => Answered
    BY DEF DecisionReplayInit, Answered
  <1>2. Answered /\ [AnswerReplay]_replayVars2 => Answered'
    <2> SUFFICES ASSUME Answered, [AnswerReplay]_replayVars2 PROVE Answered'
      OBVIOUS
    <2>1. CASE AnswerReplay
      BY <2>1 DEF AnswerReplay, Answered
    <2>2. CASE UNCHANGED replayVars2
      BY <2>2 DEF replayVars2, Answered
    <2> QED BY <2>1, <2>2
  <1>3. Answered => ReplayKeepsTheAnchor
    BY AnswerKeepsTheAnchor DEF ReplayKeepsTheAnchor
  <1> QED BY <1>1, <1>2, <1>3, PTL DEF DecisionReplaySpec

----------------------------------------------------------------------------
(* Trading clock.                                                          *)

\* The days of a loaded window, as far as they were published when it was
\* loaded; a window that was dropped covers no day.
Covers(at) ==
    /\ at.open \subseteq OpenDays
    /\ at.window.from \in Int /\ at.window.to \in Int
    /\ \/ at.window.from > at.window.to
       \/ \E h \in Int : at.open = {d \in OpenDays : Inside(at.window, d) /\ d <= h}

\* What every loaded calendar is, and the property.
ClockInvariant ==
    /\ horizon \in Int /\ Covers(Now)
    /\ NoSessionIsSkipped

\* A set of integers above a bound has a least element.
LEMMA LeastInt ==
    ASSUME NEW S, S \subseteq Int, S # {}, NEW b \in Int, \A x \in S : b <= x
    PROVE  Min(S) \in S /\ \A x \in S : Min(S) <= x
  <1> DEFINE Above == {n \in Nat : \A x \in S : b + n <= x}
  <1>1. \E m \in S : \A x \in S : m <= x
    <2> SUFFICES ASSUME \A m \in S : \E x \in S : ~(m <= x) PROVE FALSE
      OBVIOUS
    <2>1. 0 \in Above
      OBVIOUS
    <2>2. ASSUME NEW n \in Nat, n \in Above PROVE n + 1 \in Above
      <3>1. \A x \in S : b + n <= x
        BY <2>2
      <3>2. ASSUME NEW x \in S PROVE b + (n + 1) <= x
        <4>1. x # b + n
          BY <3>1
        <4> QED BY <4>1, <3>1
      <3> QED BY <3>2
    <2> HIDE DEF Above
    <2>3. \A n \in Nat : n \in Above
      BY <2>1, <2>2, NatSet
    <2>4. PICK y \in S : TRUE
      OBVIOUS
    <2>5. (y - b) + 1 \in Nat
      BY <2>4
    <2>6. b + ((y - b) + 1) <= y
      BY <2>3, <2>4, <2>5 DEF Above
    <2> QED BY <2>4, <2>6
  <1> QED BY <1>1 DEF Min

\* A set of integers below a bound has a greatest element.
LEMMA GreatestInt ==
    ASSUME NEW S, S \subseteq Int, S # {}, NEW b \in Int, \A x \in S : x <= b
    PROVE  Max(S) \in S /\ \A x \in S : x <= Max(S)
  <1> DEFINE T == {0 - x : x \in S}
  <1>0. \A x \in S : 0 - x \in Int
    OBVIOUS
  <1>1. T \subseteq Int /\ T # {}
    BY <1>0, Zenon
  <1>2. \A y \in T : 0 - b <= y
    <2>1. \A x \in S : 0 - b <= 0 - x
      OBVIOUS
    <2> QED BY <2>1
  <1>2b. \E m \in T : \A y \in T : m <= y
    <2>1. 0 - b \in Int
      OBVIOUS
    <2> HIDE DEF T
    <2> QED BY <1>1, <1>2, <2>1, LeastInt
  <1>3. PICK m \in S : \A x \in S : x <= m
    <2>1. PICK t \in T : \A y \in T : t <= y
      BY <1>2b
    <2>2. PICK m \in S : t = 0 - m
      BY <2>1
    <2>3. \A x \in S : 0 - m <= 0 - x
      BY <2>1, <2>2
    <2> QED BY <2>2, <2>3
  <1> QED BY <1>3 DEF Max

\* The snapshot's session after a day, and before it.
LEMMA AfterIs ==
    ASSUME NEW open \in SUBSET OpenDays, NEW d \in Int, After(open, d) # Unavailable
    PROVE  /\ After(open, d) \in open /\ After(open, d) > d
           /\ \A e \in open : e > d => After(open, d) <= e
  <1> DEFINE later == {e \in open : e > d}
  <1>1. later # {} /\ After(open, d) = Min(later)
    BY DEF After
  <1>0. \A e \in open : e \in Int
    BY CalendarAssumption
  <1>2a. \A e \in open : e > d => d <= e
    BY <1>0
  <1>2b. \A e \in later : e \in Int
    BY <1>0
  <1>2. later \subseteq Int /\ \A x \in later : d <= x
    BY <1>2a, <1>2b
  <1>3. Min(later) \in later /\ \A x \in later : Min(later) <= x
    <2> HIDE DEF later
    <2> QED BY <1>1, <1>2, LeastInt
  <1> QED BY <1>1, <1>3

\* The session before a day, likewise.
LEMMA BeforeIs ==
    ASSUME NEW open \in SUBSET OpenDays, NEW d \in Int, Before(open, d) # Unavailable
    PROVE  Before(open, d) \in open /\ Before(open, d) < d
  <1> DEFINE sooner == {e \in open : e < d}
  <1>1. sooner # {} /\ Before(open, d) = Max(sooner)
    BY DEF Before
  <1>0. \A e \in open : e \in Int
    BY CalendarAssumption
  <1>2a. \A e \in open : e < d => e <= d
    BY <1>0
  <1>2b. \A e \in sooner : e \in Int
    BY <1>0
  <1>2. sooner \subseteq Int /\ \A x \in sooner : x <= d
    BY <1>2a, <1>2b
  <1>3. Max(sooner) \in sooner
    <2> HIDE DEF sooner
    <2> QED BY <1>1, <1>2, GreatestInt
  <1> QED BY <1>1, <1>3

\* What is fetched covers its window.
LEMMA FetchedCovers ==
    ASSUME horizon \in Int, NEW d \in Int
    PROVE  /\ Covers([window |-> Around(d), open |-> Fetched(Around(d))])
           /\ Inside(Around(d), d)
  <1>1. Around(d).from \in Int /\ Around(d).to \in Int /\ Around(d).from <= d /\ d <= Around(d).to
    BY CalendarAssumption DEF Around, Window
  <1> QED BY <1>1 DEF Covers, Fetched, Inside

\* A load covers its window, and the day it was for is inside.
LEMMA LoadedCovers ==
    ASSUME horizon \in Int, NEW w, NEW s, Covers([window |-> w, open |-> s]), NEW d \in Int
    PROVE  Covers(Loaded(w, s, d)) /\ Inside(Loaded(w, s, d).window, d)
  <1>1. CASE Inside(w, d)
    BY <1>1 DEF Loaded
  <1>2. CASE ~Inside(w, d)
    BY <1>2, FetchedCovers DEF Loaded
  <1> QED BY <1>1, <1>2

\* From a window that starts no later than the next day, the next session
\* in it skips none.
LEMMA NoneSkipped ==
    ASSUME NEW at, Covers(at), NEW d \in Int, at.window.from <= d + 1,
           at.window.from <= at.window.to, After(at.open, d) # Unavailable
    PROVE  /\ After(at.open, d) \in OpenDays /\ d < After(at.open, d)
           /\ Skipped(d, After(at.open, d)) = {}
  <1> DEFINE is == After(at.open, d)
  <1>1. is \in at.open /\ is > d /\ \A e \in at.open : e > d => is <= e
    BY AfterIs DEF Covers
  <1>0. at.open \subseteq Int /\ OpenDays \subseteq Int /\ is \in OpenDays
    BY <1>1, CalendarAssumption DEF Covers
  <1> HIDE DEF is
  <1>2. ASSUME NEW x \in OpenDays, d < x, x < is PROVE FALSE
    <2>1. CASE at.window.from > at.window.to
      BY <2>1 DEF Covers
    <2>2. CASE \E h \in Int : at.open = {y \in OpenDays : Inside(at.window, y) /\ y <= h}
      <3>1. PICK h \in Int : at.open = {y \in OpenDays : Inside(at.window, y) /\ y <= h}
        BY <2>2
      <3>2. is <= at.window.to /\ is <= h
        BY <3>1, <1>1 DEF Inside
      <3>3. x \in at.open
        BY <3>1, <3>2, <1>0, <1>2 DEF Inside, Covers
      <3> QED BY <3>3, <1>0, <1>1, <1>2
    <2> QED BY <2>1, <2>2 DEF Covers
  <1> QED BY <1>0, <1>1, <1>2 DEF Skipped, is

\* next_session: the window it ends with covers its days and starts no
\* later than the next day.
LEMMA NextCovers ==
    ASSUME horizon \in Int, NEW at, Covers(at), NEW d \in Int
    PROVE  LET next == NextSession(at, d) IN
           /\ Covers(next) /\ next.window.from <= d + 1 /\ next.window.from <= next.window.to
  <1> DEFINE first == Loaded(at.window, at.open, d)
  <1>1. Covers(first) /\ Inside(first.window, d)
    <2>1. PICK w, s : w = at.window /\ s = at.open
      OBVIOUS
    <2>2. Covers([window |-> w, open |-> s])
      BY <2>1 DEF Covers
    <2> QED BY <2>1, <2>2, LoadedCovers
  <1> HIDE DEF first
  <1>2. first.window.from <= d + 1 /\ first.window.from <= first.window.to
    BY <1>1 DEF Covers, Inside
  <1>3. d + Ahead + 1 \in Int
    BY CalendarAssumption
  <1>4. Covers(NextReload(d))
    BY <1>3, FetchedCovers DEF NextReload
  <1>5. NextReload(d).window.from <= d + 1 /\ NextReload(d).window.from <= NextReload(d).window.to
    BY CalendarAssumption DEF NextReload, Around, Window
  <1>6. NextSession(at, d) = first \/ NextSession(at, d) = NextReload(d)
    BY DEF NextSession, first
  <1> QED BY <1>1, <1>2, <1>4, <1>5, <1>6

\* A step of advance_sessions.
WalkStep(start, d, f, i) ==
    IF i = 0 THEN [at |-> start, day |-> AtOrBefore(start.open, d)]
    ELSE LET was == f[i - 1]
             next == NextSession(was.at, was.day)
         IN  IF was.day = Unavailable THEN was
             ELSE [at |-> next, day |-> After(next.open, was.day)]

\* f walks n sessions from start in the direction d.
Walks(start, d, f, n) == f = [i \in 0 .. n |-> WalkStep(start, d, f, i)]

\* advance_sessions applies the walk that its definition chooses.
LEMMA AdvanceIsChosen ==
    ASSUME NEW at, NEW d, NEW n
    PROVE  AdvanceDays(at, d, n) = (CHOOSE f : Walks(Loaded(at.window, at.open, d), d, f, n))[n]
  BY Zenon DEF AdvanceDays, Walks, WalkStep

\* There is a walk of every length.
LEMMA WalkExists ==
    ASSUME NEW start, NEW d, NEW k \in Nat
    PROVE  \E f : Walks(start, d, f, k)
  <1> DEFINE Good == {n \in Nat : \E f : Walks(start, d, f, n)}
  <1>1. 0 \in Good
    <2> DEFINE h == [i \in 0 .. 0 |-> WalkStep(start, d, <<>>, i)]
    <2>1. \A i \in 0 .. 0 : i = 0
      OBVIOUS
    <2>2. \A g : WalkStep(start, d, g, 0) = [at |-> start, day |-> AtOrBefore(start.open, d)]
      BY DEF WalkStep
    <2>3. ASSUME NEW i \in 0 .. 0 PROVE WalkStep(start, d, <<>>, i) = WalkStep(start, d, h, i)
      <3> HIDE DEF h
      <3> QED BY <2>1, <2>2
    <2>4. Walks(start, d, h, 0)
      BY <2>3 DEF Walks
    <2> QED BY <2>4
  <1>2. ASSUME NEW n \in Nat, n \in Good PROVE n + 1 \in Good
    <2>1. PICK g : Walks(start, d, g, n)
      BY <1>2
    <2> DEFINE h == [i \in 0 .. n + 1 |-> WalkStep(start, d, g, i)]
    <2>2. ASSUME NEW i \in 0 .. n + 1 PROVE WalkStep(start, d, h, i) = WalkStep(start, d, g, i)
      <3>1. CASE i = 0
        BY <3>1 DEF WalkStep
      <3>2. CASE i # 0
        <4>1. i - 1 \in 0 .. n /\ i - 1 \in 0 .. n + 1
          BY <3>2
        <4>2. h[i - 1] = WalkStep(start, d, g, i - 1) /\ g[i - 1] = WalkStep(start, d, g, i - 1)
          BY <4>1, <2>1 DEF Walks
        <4> HIDE DEF h
        <4> QED BY <3>2, <4>2 DEF WalkStep
      <3> QED BY <3>1, <3>2
    <2>3. h = [i \in 0 .. n + 1 |-> WalkStep(start, d, h, i)]
      BY <2>2
    <2> HIDE DEF h
    <2> QED BY <2>3 DEF Walks
  <1> HIDE DEF Good
  <1>3. k \in Good
    BY <1>1, <1>2, NatSet
  <1> QED BY <1>3 DEF Good

\* advance_sessions ends on a day the exchange trades on, or on none.
LEMMA AdvanceEnds ==
    ASSUME horizon \in Int, NEW at, Covers(at), NEW d \in Int, NEW n \in Nat
    PROVE  LET end == AdvanceDays(at, d, n) IN
           Covers(end.at) /\ (end.day = Unavailable \/ end.day \in OpenDays)
  <1> DEFINE start == Loaded(at.window, at.open, d)
             Fine(e) == Covers(e.at) /\ (e.day = Unavailable \/ e.day \in OpenDays)
  <1>1. Covers(start)
    <2>1. PICK w, s : w = at.window /\ s = at.open
      OBVIOUS
    <2>2. Covers([window |-> w, open |-> s])
      BY <2>1 DEF Covers
    <2> QED BY <2>1, <2>2, LoadedCovers
  <1>2. PICK f : Walks(start, d, f, n) /\ AdvanceDays(at, d, n) = f[n]
    <2> HIDE DEF start
    <2>1. \E f : Walks(start, d, f, n)
      BY WalkExists
    <2>2. AdvanceDays(at, d, n) = (CHOOSE f : Walks(start, d, f, n))[n]
      BY AdvanceIsChosen DEF start
    <2> QED BY <2>1, <2>2
  <1> HIDE DEF start
  <1>3. \A i \in 0 .. n : f[i] = WalkStep(start, d, f, i)
    BY <1>2 DEF Walks
  <1> DEFINE Good == {i \in Nat : i <= n => Fine(f[i])}
  <1>4. 0 \in Good
    <2>1. f[0] = [at |-> start, day |-> AtOrBefore(start.open, d)]
      <3>1. 0 \in 0 .. n
        OBVIOUS
      <3>2. WalkStep(start, d, f, 0) = [at |-> start, day |-> AtOrBefore(start.open, d)]
        BY DEF WalkStep
      <3> QED BY <3>1, <3>2, <1>3
    <2>2. d + 1 \in Int /\ start.open \in SUBSET OpenDays
      BY <1>1 DEF Covers
    <2>3. AtOrBefore(start.open, d) = Unavailable \/ AtOrBefore(start.open, d) \in OpenDays
      BY <2>2, BeforeIs DEF AtOrBefore
    <2>4. Fine(f[0])
      BY <2>1, <2>3, <1>1
    <2> HIDE DEF Fine
    <2> QED BY <2>4
  <1>5. ASSUME NEW i \in Nat, i \in Good PROVE i + 1 \in Good
    <2> SUFFICES ASSUME i + 1 <= n PROVE Fine(f[i + 1])
      OBVIOUS
    <2> DEFINE was == f[i]
               next == NextSession(was.at, was.day)
    <2>1. Fine(was)
      BY <1>5
    <2>2. f[i + 1] = IF was.day = Unavailable THEN was ELSE [at |-> next, day |-> After(next.open, was.day)]
      <3>1. i + 1 \in 0 .. n /\ (i + 1) - 1 = i /\ i + 1 # 0
        OBVIOUS
      <3>2. f[i + 1] = WalkStep(start, d, f, i + 1)
        BY <3>1, <1>3
      <3>3. f[(i + 1) - 1] = f[i]
        BY <3>1
      <3> QED BY <3>1, <3>2, <3>3, Zenon DEF WalkStep
    <2>3. CASE was.day = Unavailable
      BY <2>1, <2>2, <2>3
    <2>4. CASE was.day # Unavailable
      <3>1. was.day \in Int /\ was.day \in OpenDays
        BY <2>1, <2>4, CalendarAssumption
      <3>2. Covers(next)
        BY <2>1, <3>1, NextCovers
      <3> HIDE DEF next
      <3>3. After(next.open, was.day) = Unavailable \/ After(next.open, was.day) \in OpenDays
        BY <3>1, <3>2, AfterIs DEF Covers
      <3> QED BY <2>2, <2>4, <3>2, <3>3
    <2> QED BY <2>3, <2>4
  <1> HIDE DEF Good
  <1>6. n \in Good
    BY <1>4, <1>5, NatSet
  <1> QED BY <1>2, <1>6 DEF Good

\* An answer with its window.
LEMMA AnswerKeeps ==
    ASSUME horizon \in Int, NEW about, NEW d, NEW n, NEW at, Covers(at), NEW is, Answers(about, d, n, at, is),
           is # Unavailable =>
            /\ is \in OpenDays
            /\ about = "next" => d < is /\ Skipped(d, is) = {}
            /\ about = "previous" => is < d
            /\ about = "normalize" => is <= d
    PROVE  ClockInvariant'
  <1>1. answered' = [about |-> about, day |-> d, sessions |-> n, is |-> is]
        /\ window' = at.window /\ snapshot' = at.open /\ horizon' = horizon
    BY DEF Answers
  <1>2. Covers(Now)'
    BY <1>1 DEF Covers, Now
  <1>3. NoSessionIsSkipped'
    BY <1>1 DEF NoSessionIsSkipped, Skipped
  <1> QED BY <1>1, <1>2, <1>3 DEF ClockInvariant

\* No session is skipped, whatever was loaded before.
THEOREM SessionsAreNotSkipped == ClockSpec => []NoSessionIsSkipped
  <1>1. ClockInit => ClockInvariant
    <2> SUFFICES ASSUME ClockInit PROVE ClockInvariant
      OBVIOUS
    <2>1. horizon \in Int
      BY CalendarAssumption DEF ClockInit
    <2>2. Covers(Now)
      BY DEF ClockInit, Covers, Now, NoWindow, Window
    <2>3. NoSessionIsSkipped
      BY DEF ClockInit, NoSessionIsSkipped, NoQuestion
    <2> QED BY <2>1, <2>2, <2>3 DEF ClockInvariant
  <1>2. ASSUME ClockInvariant, [ClockNext]_clockVars PROVE ClockInvariant'
    <2>0. horizon \in Int /\ Covers(Now) /\ Covers([window |-> window, open |-> snapshot])
      BY <1>2 DEF ClockInvariant, Now
    <2>1. CASE Publish
      BY <2>1, <1>2, <2>0 DEF Publish, ClockInvariant, Covers, Now, NoSessionIsSkipped, Skipped
    <2>2. ASSUME NEW d \in CalendarDays
          PROVE  /\ AskNext(d) \/ AskPrevious(d) \/ AskNormalize(d) \/ AskTradingDay(d) \/ FetchFails(d)
                    => ClockInvariant'
                 /\ \A n \in 1 .. 2 : AskAdvance(d, n) => ClockInvariant'
      <3>0. d \in Int /\ d + 1 \in Int /\ d - 1 \in Int
        BY CalendarAssumption
      <3> DEFINE first == Loaded(window, snapshot, d)
      <3>1. Covers(first) /\ Inside(first.window, d) /\ first.open \in SUBSET OpenDays
        <4>1. Covers(first) /\ Inside(first.window, d)
          BY <2>0, <3>0, LoadedCovers
        <4> QED BY <4>1 DEF Covers
      <3>2. CASE AskNext(d)
        <4> DEFINE at == NextSession(Now, d)
        <4>1. Covers(at) /\ at.window.from <= d + 1 /\ at.window.from <= at.window.to
          BY <2>0, <3>0, NextCovers
        <4>2. Answers("next", d, 1, at, After(at.open, d))
          BY <3>2 DEF AskNext
        <4>a. PICK x : x = at
          OBVIOUS
        <4> HIDE DEF at
        <4>3. After(x.open, d) # Unavailable =>
                /\ After(x.open, d) \in OpenDays /\ d < After(x.open, d)
                /\ Skipped(d, After(x.open, d)) = {}
          BY <4>1, <4>a, <3>0, NoneSkipped
        <4> QED BY <4>1, <4>2, <4>3, <4>a, <2>0, AnswerKeeps
      <3>3. CASE AskPrevious(d)
        <4> DEFINE at == PreviousSession(Now, d)
        <4>1. Covers(at)
          <5>1. at = first \/ at = [window |-> Around(d - 1), open |-> Fetched(Around(d - 1))]
            BY DEF PreviousSession, Now
          <5> HIDE DEF at, first
          <5> QED BY <5>1, <3>0, <3>1, <2>0, FetchedCovers
        <4>2. Answers("previous", d, 1, at, Before(at.open, d))
          BY <3>3 DEF AskPrevious
        <4>a. PICK x : x = at
          OBVIOUS
        <4> HIDE DEF at
        <4>3. Before(x.open, d) # Unavailable => Before(x.open, d) \in OpenDays /\ Before(x.open, d) < d
          BY <4>1, <4>a, <3>0, BeforeIs DEF Covers
        <4> QED BY <4>1, <4>2, <4>3, <4>a, <2>0, AnswerKeeps
      <3>4. CASE AskNormalize(d)
        <4>2. Answers("normalize", d, 0, first, AtOrBefore(first.open, d))
          BY <3>4 DEF AskNormalize
        <4>a. PICK x : x = first
          OBVIOUS
        <4> HIDE DEF first
        <4>3. AtOrBefore(x.open, d) # Unavailable =>
                AtOrBefore(x.open, d) \in OpenDays /\ AtOrBefore(x.open, d) < d + 1
          BY <3>0, <3>1, <4>a, BeforeIs DEF AtOrBefore
        <4>4. \A e \in OpenDays : e < d + 1 => e <= d
          BY <3>0, CalendarAssumption
        <4> QED BY <4>2, <4>3, <4>4, <4>a, <3>1, <2>0, AnswerKeeps
      <3>5. CASE AskTradingDay(d)
        <4>2. Answers("trading", d, 0, first, IF d \in first.open THEN d ELSE Unavailable)
          BY <3>5 DEF AskTradingDay
        <4>a. PICK x : x = first
          OBVIOUS
        <4> HIDE DEF first
        <4>3. PICK is : is = IF d \in x.open THEN d ELSE Unavailable
          OBVIOUS
        <4>4. is # Unavailable => is \in OpenDays
          BY <4>3, <4>a, <3>1
        <4>5. Answers("trading", d, 0, x, is)
          BY <4>2, <4>3, <4>a
        <4> QED BY <4>4, <4>5, <4>a, <3>1, <2>0, AnswerKeeps
      <3>6. CASE FetchFails(d)
        <4>1. CASE Answers("next", d, 1, Now, Unavailable)
          BY <4>1, <2>0, AnswerKeeps
        <4>2. CASE Answers("next", d, 1, [first EXCEPT !.window = NoWindow], Unavailable)
          <5>1. PICK x : x = [first EXCEPT !.window = NoWindow]
            OBVIOUS
          <5>2. first \in [window : {first.window}, open : {first.open}]
            BY DEF Loaded
          <5>3. x.window = NoWindow /\ x.open = first.open
            BY <5>1, <5>2
          <5> HIDE DEF first
          <5>4. Covers(x)
            BY <5>3, <3>1 DEF Covers, NoWindow, Window
          <5> QED BY <5>1, <5>4, <4>2, <2>0, AnswerKeeps
        <4> QED BY <3>6, <4>1, <4>2 DEF FetchFails
      <3>7. ASSUME NEW n \in 1 .. 2, AskAdvance(d, n) PROVE ClockInvariant'
        <4> DEFINE end == AdvanceDays(Now, d, n)
        <4>1. Covers(end.at) /\ (end.day = Unavailable \/ end.day \in OpenDays)
          BY <2>0, <3>0, AdvanceEnds
        <4>2. Answers("advance", d, n, end.at, end.day)
          BY <3>7 DEF AskAdvance
        <4>a. PICK x, y : x = end.at /\ y = end.day
          OBVIOUS
        <4> HIDE DEF end
        <4> QED BY <4>1, <4>2, <4>a, <2>0, AnswerKeeps
      <3> QED BY <3>2, <3>3, <3>4, <3>5, <3>6, <3>7
    <2>3. CASE UNCHANGED clockVars
      BY <2>3, <1>2 DEF clockVars, ClockInvariant, Covers, Now, NoSessionIsSkipped, Skipped
    <2> QED BY <1>2, <2>1, <2>2, <2>3 DEF ClockNext
  <1>3. ClockInvariant => NoSessionIsSkipped
    BY DEF ClockInvariant
  <1> QED BY <1>1, <1>2, <1>3, PTL DEF ClockSpec

----------------------------------------------------------------------------
(* Portfolio pipeline.                                                     *)

(* Cutting a group to its cap.                                             *)

\* Every name has a rank.
RanksKnown == \A x \in Names : CutRank(x) \in Int

\* Of every group there is a member that is cut last.
LEMMA CutLastIn ==
    ASSUME RanksKnown, NEW S \in SUBSET Names
    PROVE  \A s \in SUBSET S : s # {} => CutLast(s) \in s
<1> DEFINE R == {p \in S \X S : CutBefore(p[1], p[2])}
<1>1. IsFiniteSet(S) /\ S \in SUBSET Int /\ \A x \in S : CutRank(x) \in Int
  BY PipelineAssumption, FS_Subset DEF PipelineAssumption, RanksKnown
<1>2. \A a, b \in S : <<a, b>> \in R <=> CutBefore(a, b)
  OBVIOUS
<1>3. \A a, b \in S : a # b => CutBefore(a, b) \/ CutBefore(b, a)
  BY <1>1 DEF CutBefore
<1>4. \A a, b, c \in S : CutBefore(a, b) /\ CutBefore(b, c) => CutBefore(a, c)
  BY <1>1 DEF CutBefore
<1> HIDE DEF R
<1>5. /\ \A a, b \in S : a # b => <<a, b>> \in R \/ <<b, a>> \in R
      /\ \A a, b, c \in S : <<a, b>> \in R /\ <<b, c>> \in R => <<a, c>> \in R
  BY <1>2, <1>3, <1>4, Zenon
<1>6. \A s \in SUBSET S : s # {} => \E m \in s : \A x \in s \ {m} : <<x, m>> \in R
  BY <1>1, <1>5, LastExists
<1> SUFFICES ASSUME NEW s \in SUBSET S, s # {} PROVE CutLast(s) \in s
  OBVIOUS
<1>7. PICK m \in s : \A x \in s \ {m} : <<x, m>> \in R
  BY <1>6
<1>8. \A x \in s \ {m} : CutBefore(x, m)
  BY <1>2, <1>7
<1> QED BY <1>8 DEF CutLast

\* The group fits, or the members s of it have given all they have.
FitsOrSpent(u, S, cap, s) == Total(u, S) <= cap \/ \A y \in s : u[y] = 0

\* What a cut leaves of the targets u of the names, when those of group S
\* that came before x are zero unless the group fits.
LEMMA CutOneIs ==
    ASSUME NEW S \in SUBSET Names, NEW cap \in Nat, NEW u \in Weights, NEW x \in S,
           NEW before \in SUBSET S,
           FitsOrSpent(u, S, cap, before \ {x})
    PROVE  /\ CutOne(u, x, S, cap) \in Weights
           /\ \A y \in Names : CutOne(u, x, S, cap)[y] <= u[y]
           /\ \A y \in Names \ {x} : CutOne(u, x, S, cap)[y] = u[y]
           /\ FitsOrSpent(CutOne(u, x, S, cap), S, cap, before)
<1>1. IsFiniteSet(S)
  BY PipelineAssumption, FS_Subset DEF PipelineAssumption
<1>2. Whole(u, S)
  BY DEF Whole, Weights
<1>3. Total(u, S) \in Int
  BY <1>1, <1>2, TotalOf
<1> DEFINE excess == Total(u, S) - cap
           v == CutOne(u, x, S, cap)
           left == IF u[x] < excess THEN 0 ELSE u[x] - excess
<1>4. v = IF excess <= 0 THEN u ELSE [u EXCEPT ![x] = left]
  BY DEF CutOne
<1>5. excess \in Int /\ u[x] \in Nat /\ x \in Names
  BY <1>3 DEF Weights
<1>6. CASE excess <= 0
  <2>1. v = u /\ Total(u, S) <= cap
    BY <1>3, <1>4, <1>6
  <2>2. \A y \in Names : u[y] <= u[y]
    BY DEF Weights
  <2> QED BY <2>1, <2>2 DEF FitsOrSpent
<1>7. CASE ~ (excess <= 0)
  <2>1. v = [u EXCEPT ![x] = left]
    BY <1>4, <1>7
  <2>2. left \in Nat /\ left <= u[x]
    BY <1>5, <1>7
  <2>3. v \in Weights
    BY <2>1, <2>2 DEF Weights
  <2>4. v[x] = left /\ \A y \in Names \ {x} : v[y] = u[y]
    BY <1>5, <2>1 DEF Weights
  <2>5. \A y \in Names : v[y] <= u[y]
    BY <2>2, <2>4 DEF Weights
  <2>6. \A y \in before \ {x} : u[y] = 0
    BY <1>3, <1>7 DEF FitsOrSpent
  <2>7. Total(v, S) <= cap \/ \A y \in before : v[y] = 0
    <3>1. CASE u[x] < excess
      <4>1. v[x] = 0
        BY <2>4, <3>1
      <4> QED BY <2>4, <2>6, <4>1
    <3>2. CASE ~ (u[x] < excess)
      <4>1. Whole(v, S)
        BY <2>3 DEF Whole, Weights
      <4>2. \A y \in S \ {x} : v[y] = u[y]
        BY <2>4
      <4> HIDE DEF v, left
      <4>3. Total(v, S) = Total(u, S) - u[x] + v[x]
        BY <1>1, <1>2, <4>1, <4>2, TotalChanged
      <4>4. v[x] = u[x] - (Total(u, S) - cap)
        BY <2>4, <3>2 DEF left
      <4>5. Total(v, S) <= cap
        BY <1>3, <1>5, <4>3, <4>4
      <4> QED BY <4>5
    <3> QED BY <3>1, <3>2
  <2> QED BY <2>3, <2>4, <2>5, <2>7 DEF FitsOrSpent
<1> QED BY <1>6, <1>7

\* One step of the cut.
CutStep(g, t, S, cap, s) ==
    IF s = {} THEN t ELSE CutOne(g[s \ {CutLast(s)}], CutLast(s), S, cap)

\* g cuts the members of each subset of group S.
Cuts(g, t, S, cap) == g = [s \in SUBSET S |-> CutStep(g, t, S, cap, s)]

\* CutToFit applies the function that its fold chooses.
LEMMA CutToFitIsChosen ==
    ASSUME NEW t, NEW S, NEW cap
    PROVE  CutToFit(t, S, cap) = (CHOOSE g : Cuts(g, t, S, cap))[S]
  BY Zenon DEF CutToFit, MapThenFoldSet, Cuts, CutStep

\* There is such a function.
LEMMA CutsExist ==
    ASSUME RanksKnown, NEW S \in SUBSET Names, NEW cap \in Nat, NEW t \in Weights
    PROVE  \E g \in [SUBSET S -> Weights] : Cuts(g, t, S, cap)
<1> DEFINE pick == [s \in SUBSET S |-> CutLast(s)]
           op == [p \in S \X Weights |-> CutOne(p[2], p[1], S, cap)]
<1>0. IsFiniteSet(S)
  BY PipelineAssumption, FS_Subset DEF PipelineAssumption
<1>1. \A s \in SUBSET S : pick[s] = CutLast(s) /\ (s # {} => pick[s] \in s)
  BY CutLastIn
<1>2. \A x \in S, v \in Weights : op[<<x, v>>] = CutOne(v, x, S, cap)
  OBVIOUS
<1> HIDE DEF pick, op
<1>3. \A x \in S, v \in Weights : op[<<x, v>>] \in Weights
  <2> SUFFICES ASSUME NEW x \in S, NEW v \in Weights PROVE op[<<x, v>>] \in Weights
    OBVIOUS
  <2> DEFINE none == {}
  <2>1. none \in SUBSET S /\ FitsOrSpent(v, S, cap, none \ {x})
    BY DEF FitsOrSpent
  <2> HIDE DEF none
  <2>2. CutOne(v, x, S, cap) \in Weights
    BY <2>1, CutOneIs
  <2> QED BY <1>2, <2>2
<1>4. Foldable(S, Weights, op, pick)
  BY <1>1, <1>3, Zenon DEF Foldable
<1>5. PICK g \in [SUBSET S -> Weights] : Folds(g, op, t, pick, S)
  BY <1>0, <1>4, FoldExists
<1>6. \A s \in SUBSET S : g[s] = FoldStep(g, op, t, pick, s)
  BY <1>5, Zenon DEF Folds
<1>7. ASSUME NEW s \in SUBSET S PROVE g[s] = CutStep(g, t, S, cap, s)
  <2>1. CASE s = {}
    BY <1>6, <2>1 DEF FoldStep, CutStep
  <2>2. CASE s # {}
    <3>1. pick[s] \in S /\ s \ {pick[s]} \in SUBSET S
      BY <1>1, <2>2
    <3>2. g[s] = op[<<pick[s], g[s \ {pick[s]}]>>]
      BY <1>6, <2>2 DEF FoldStep
    <3>3. g[s] = CutOne(g[s \ {pick[s]}], pick[s], S, cap)
      BY <1>2, <3>1, <3>2
    <3> QED BY <1>1, <2>2, <3>3 DEF CutStep
  <2> QED BY <2>1, <2>2
<1>8. g = [s \in SUBSET S |-> CutStep(g, t, S, cap, s)]
  BY <1>7
<1> QED BY <1>8 DEF Cuts

\* Cutting lowers members of the group only, and the group then fits.
LEMMA CutToFitIs ==
    ASSUME RanksKnown, NEW S \in SUBSET Names, NEW cap \in Nat, NEW t \in Weights
    PROVE  /\ CutToFit(t, S, cap) \in Weights
           /\ \A x \in Names : CutToFit(t, S, cap)[x] <= t[x]
           /\ \A x \in Names \ S : CutToFit(t, S, cap)[x] = t[x]
           /\ Total(CutToFit(t, S, cap), S) <= cap
<1> DEFINE c == CHOOSE g : Cuts(g, t, S, cap)
<1>0. IsFiniteSet(S)
  BY PipelineAssumption, FS_Subset DEF PipelineAssumption
<1>1. Cuts(c, t, S, cap)
  <2>1. \E g : Cuts(g, t, S, cap)
    BY CutsExist
  <2> QED BY <2>1
<1>2. CutToFit(t, S, cap) = c[S]
  BY CutToFitIsChosen
<1> HIDE DEF c
<1>3. \A s \in SUBSET S : c[s] = CutStep(c, t, S, cap, s)
  BY <1>1, Zenon DEF Cuts
<1> DEFINE Good(s, u) ==
              /\ u \in Weights
              /\ \A x \in Names : u[x] <= t[x]
              /\ \A x \in Names \ S : u[x] = t[x]
              /\ FitsOrSpent(u, S, cap, s)
           G == {s \in SUBSET S : Good(s, c[s])}
<1>4. {} \in G
  <2>1. c[{}] = t
    BY <1>3 DEF CutStep
  <2>2. Good({}, t)
    BY DEF Weights, FitsOrSpent
  <2> QED BY <2>1, <2>2
<1>5. ASSUME NEW s \in SUBSET S, s # {}
      PROVE  \E x \in s : (s \ {x} \in G => s \in G)
  <2> DEFINE x == CutLast(s)
  <2>1. x \in s /\ c[s] = CutOne(c[s \ {x}], x, S, cap)
    BY <1>3, <1>5, CutLastIn DEF CutStep
  <2> HIDE DEF x
  <2>2. ASSUME s \ {x} \in G PROVE s \in G
    <3> DEFINE u == c[s \ {x}]
    <3>1. Good(s \ {x}, u)
      BY <2>2
    <3> HIDE DEF u
    <3>2. u \in Weights /\ x \in S
      BY <2>1, <3>1
    <3>8. FitsOrSpent(u, S, cap, s \ {x})
      BY <3>1
    <3>9. s \in SUBSET S
      OBVIOUS
    <3> DEFINE v == CutOne(u, x, S, cap)
    <3>3. /\ v \in Weights
          /\ \A y \in Names : v[y] <= u[y]
          /\ \A y \in Names \ {x} : v[y] = u[y]
          /\ FitsOrSpent(v, S, cap, s)
      BY <3>2, <3>8, <3>9, CutOneIs
    <3>4. c[s] = v
      BY <2>1 DEF u
    <3> HIDE DEF v
    <3>5. \A y \in Names : v[y] <= t[y]
      BY <3>1, <3>3 DEF Weights
    <3>6. \A y \in Names \ S : v[y] = t[y]
      BY <3>1, <3>2, <3>3
    <3>7. Good(s, v)
      BY <3>3, <3>5, <3>6
    <3> QED BY <3>4, <3>7
  <2> QED BY <2>1, <2>2
<1>6. \A s \in SUBSET S : s \in G
  <2> HIDE DEF G
  <2> QED BY <1>0, <1>4, <1>5, SetInduction
<1>7. Good(S, c[S])
  BY <1>6
<1>9. Total(c[S], S) <= cap \/ \A x \in S : c[S][x] = 0
  BY <1>7 DEF FitsOrSpent
<1>8. Total(c[S], S) <= cap
  <2>1. CASE \A x \in S : c[S][x] = 0
    <3>1. Total(c[S], S) = 0
      BY <1>0, <2>1, TotalZero
    <3> QED BY <3>1
  <2> QED BY <1>9, <2>1
<1> QED BY <1>2, <1>7, <1>8
----------------------------------------------------------------------------
(* The caps of every field, and the turnover.                              *)

\* Names are finitely many, and their weights are whole.
LEMMA NamesCount ==
    ASSUME NEW S \in SUBSET Names
    PROVE  /\ IsFiniteSet(S)
           /\ \A t \in Weights : Whole(t, S)
<1>1. IsFiniteSet(S)
  BY PipelineAssumption, FS_Subset DEF PipelineAssumption
<1>2. \A t \in Weights : Whole(t, S)
  BY DEF Whole, Weights
<1> QED BY <1>1, <1>2

\* Lower targets are within the caps and the budget too.
LEMMA LowerTotal ==
    ASSUME NEW S \in SUBSET Names, NEW u \in Weights, NEW t \in Weights,
           \A x \in Names : u[x] <= t[x], NEW cap \in Int, Total(t, S) <= cap
    PROVE  Total(u, S) <= cap
<1>1. /\ IsFiniteSet(S) /\ Whole(u, S) /\ Whole(t, S)
      /\ \A x \in S : u[x] <= t[x]
  BY NamesCount
<1>2. Total(u, S) \in Int /\ Total(t, S) \in Int
  BY <1>1, TotalOf
<1>3. Total(u, S) <= Total(t, S)
  BY <1>1, TotalMonotone
<1> QED BY <1>2, <1>3

\* The symbols outside the pipeline add nothing.
LEMMA OnlyStatesCount ==
    ASSUME NEW S \in SUBSET Names, NEW t \in Weights, OnlyStates(t)
    PROVE  Total(t, S) = Total(t, S \cap States)
<1> DEFINE T == S \cap States
<1>1. /\ IsFiniteSet(S) /\ Whole(t, S) /\ T \in SUBSET S
      /\ \A x \in S \ T : t[x] = 0
  BY NamesCount DEF OnlyStates
<1> HIDE DEF T
<1>2. Total(t, S) = Total(t, T)
  BY <1>1, TotalOutside
<1> QED BY <1>2 DEF T

\* After a field is capped its groups fit, and no target is raised.
LEMMA CapFieldIs ==
    ASSUME RanksKnown, NEW t \in Weights, OnlyStates(t), NEW field \in DOMAIN GroupCap
    PROVE  /\ CapField(t, field) \in Weights
           /\ OnlyStates(CapField(t, field))
           /\ \A x \in Names : CapField(t, field)[x] <= t[x]
           /\ \A s \in Names : Total(CapField(t, field), Members(field, s)) <= GroupCap[field]
<1> DEFINE group(s) == {x \in States : GroupOf[field][x] = GroupOf[field][s]}
           cut(s) == CutToFit(t, group(s), GroupCap[field])
           r == [s \in Names |->
                    IF s \notin States \/ GroupOf[field][s] = 0 THEN t[s] ELSE cut(s)[s]]
<1>1. CapField(t, field) = r
  BY Zenon DEF CapField
<1>2. GroupCap[field] \in Nat
  BY PipelineAssumption DEF PipelineAssumption
<1>3. States \in SUBSET Names
  BY DEF States
<1>4. ASSUME NEW s \in Names
      PROVE  /\ cut(s) \in Weights
             /\ \A x \in Names : cut(s)[x] <= t[x]
             /\ Total(cut(s), group(s)) <= GroupCap[field]
  <2>1. group(s) \in SUBSET Names
    BY <1>3
  <2> HIDE DEF group
  <2> QED BY <1>2, <2>1, CutToFitIs
<1> HIDE DEF cut
<1>5. ASSUME NEW s \in Names PROVE r[s] \in Nat /\ r[s] <= t[s]
  <2>1. t[s] \in Nat /\ cut(s)[s] \in Nat /\ cut(s)[s] <= t[s]
    BY <1>4 DEF Weights
  <2>2. r[s] = t[s] \/ r[s] = cut(s)[s]
    OBVIOUS
  <2> HIDE DEF r
  <2> QED BY <2>1, <2>2
<1>6. r \in Weights /\ \A s \in Names : r[s] <= t[s]
  BY <1>5 DEF Weights
<1>7. OnlyStates(r)
  BY DEF OnlyStates
<1>8. ASSUME NEW s \in Names PROVE Total(r, Members(field, s)) <= GroupCap[field]
  <2> DEFINE M == Members(field, s)
             T == M \cap States
  <2>1. M \in SUBSET Names /\ T \in SUBSET Names /\ T \in SUBSET States
    BY DEF Members
  <2>2. \A x \in T : GroupOf[field][x] # 0 /\ group(x) = T
    BY <1>3 DEF Members
  <2>3. \A x \in T : x \in Names /\ r[x] = cut(x)[x]
    BY <2>1, <2>2
  <2>4. IsFiniteSet(T)
    BY <2>1, PipelineAssumption, FS_Subset DEF PipelineAssumption
  <2> HIDE DEF M, T, r
  <2>5. Total(r, M) = Total(r, T)
    BY <1>6, <1>7, <2>1, OnlyStatesCount DEF T
  <2>6. CASE T = {}
    <3>1. Total(r, T) = 0
      BY <2>4, <2>6, TotalZero
    <3> QED BY <1>2, <2>5, <3>1 DEF M
  <2>7. CASE T # {}
    <3>1. PICK a \in T : TRUE
      BY <2>7
    <3>2. \A x \in T : cut(x) = cut(a)
      BY <2>2 DEF cut
    <3>3. a \in Names /\ group(a) = T
      BY <2>2, <2>3
    <3> DEFINE u == cut(a)
    <3>4. u \in Weights /\ Total(u, T) <= GroupCap[field]
      BY <1>4, <3>3
    <3>5. \A x \in T : r[x] = u[x]
      BY <2>3, <3>2
    <3> HIDE DEF u
    <3>6. Whole(r, T)
      BY <1>6, <2>1 DEF Whole, Weights
    <3>7. Total(r, T) = Total(u, T)
      BY <2>4, <3>5, <3>6, TotalSame
    <3> QED BY <2>5, <3>4, <3>7 DEF M
  <2> QED BY <2>6, <2>7
<1> HIDE DEF r
<1> QED BY <1>1, <1>6, <1>7, <1>8

\* The positions of the fields.
LEMMA FieldsKnown ==
    /\ IsFiniteSet(DOMAIN Groupings)
    /\ \A i \in DOMAIN Groupings : i \in Nat /\ Groupings[i] \in DOMAIN GroupCap
    /\ \A s \in SUBSET DOMAIN Groupings : s # {} => Max(s) \in s
<1>1. Groupings \in Seq(DOMAIN GroupCap)
  BY PipelineAssumption DEF PipelineAssumption
<1>2. \A i \in DOMAIN Groupings : i \in Nat /\ Groupings[i] \in DOMAIN GroupCap
  BY <1>1
<1>3. /\ IsFiniteSet(DOMAIN Groupings)
      /\ \A s \in SUBSET DOMAIN Groupings : s # {} => Max(s) \in s
  BY <1>1, PositionsKnown
<1> QED BY <1>2, <1>3

\* One step of the caps.
CapStep(g, t, s) ==
    IF s = {} THEN t ELSE CapField(g[s \ {Max(s)}], Groupings[Max(s)])

\* g caps the fields of each set of positions.
Caps(g, t) == g = [s \in SUBSET DOMAIN Groupings |-> CapStep(g, t, s)]

\* The fold over the fields applies the function it chooses.
LEMMA CapsAreChosen ==
    ASSUME NEW t
    PROVE  FoldLeft(CapField, t, Groupings) = (CHOOSE g : Caps(g, t))[DOMAIN Groupings]
  BY Zenon DEF FoldLeft, MapThenFoldSet, Caps, CapStep

\* There is such a function.
LEMMA CapsExist ==
    ASSUME RanksKnown, NEW t \in Weights, OnlyStates(t)
    PROVE  \E g \in [SUBSET DOMAIN Groupings -> {u \in Weights : OnlyStates(u)}] : Caps(g, t)
<1> DEFINE P == DOMAIN Groupings
           V == {u \in Weights : OnlyStates(u)}
           pick == [s \in SUBSET P |-> Max(s)]
           op == [p \in P \X V |-> CapField(p[2], Groupings[p[1]])]
<1>1. IsFiniteSet(P) /\ t \in V
  BY FieldsKnown
<1>2. \A s \in SUBSET P : pick[s] = Max(s) /\ (s # {} => pick[s] \in s)
  BY FieldsKnown
<1>3. \A i \in P, u \in V : op[<<i, u>>] = CapField(u, Groupings[i])
  OBVIOUS
<1> HIDE DEF pick, op
<1>4. \A i \in P, u \in V : op[<<i, u>>] \in V
  <2> SUFFICES ASSUME NEW i \in P, NEW u \in V PROVE op[<<i, u>>] \in V
    OBVIOUS
  <2>1. u \in Weights /\ OnlyStates(u) /\ Groupings[i] \in DOMAIN GroupCap
    BY FieldsKnown
  <2>2. CapField(u, Groupings[i]) \in Weights /\ OnlyStates(CapField(u, Groupings[i]))
    BY <2>1, CapFieldIs
  <2> QED BY <1>3, <2>2
<1> HIDE DEF P, V
<1>5. Foldable(P, V, op, pick)
  BY <1>2, <1>4, Zenon DEF Foldable
<1>6. PICK g \in [SUBSET P -> V] : Folds(g, op, t, pick, P)
  BY <1>1, <1>5, FoldExists
<1>7. \A s \in SUBSET P : g[s] = FoldStep(g, op, t, pick, s)
  BY <1>6, Zenon DEF Folds
<1>8. ASSUME NEW s \in SUBSET P PROVE g[s] = CapStep(g, t, s)
  <2>1. CASE s = {}
    BY <1>7, <2>1 DEF FoldStep, CapStep
  <2>2. CASE s # {}
    <3>1. pick[s] \in P /\ s \ {pick[s]} \in SUBSET P
      BY <1>2, <2>2
    <3>2. g[s] = op[<<pick[s], g[s \ {pick[s]}]>>]
      BY <1>7, <2>2 DEF FoldStep
    <3>3. g[s] = CapField(g[s \ {pick[s]}], Groupings[pick[s]])
      BY <1>3, <3>1, <3>2
    <3> QED BY <1>2, <2>2, <3>3 DEF CapStep
  <2> QED BY <2>1, <2>2
<1>9. g = [s \in SUBSET P |-> CapStep(g, t, s)]
  BY <1>8
<1> QED BY <1>9 DEF Caps, P, V

\* When every field was capped, every group fits: a later field only lowers
\* what an earlier one has allowed.
LEMMA CapsAreKept ==
    ASSUME RanksKnown, NEW t \in Weights, OnlyStates(t)
    PROVE  /\ FoldLeft(CapField, t, Groupings) \in Weights
           /\ OnlyStates(FoldLeft(CapField, t, Groupings))
           /\ \A x \in Names : FoldLeft(CapField, t, Groupings)[x] <= t[x]
           /\ WithinCaps(FoldLeft(CapField, t, Groupings))
<1> DEFINE P == DOMAIN Groupings
           c == CHOOSE g : Caps(g, t)
<1>1. Caps(c, t)
  <2>1. \E g : Caps(g, t)
    BY CapsExist
  <2> QED BY <2>1
<1>2. FoldLeft(CapField, t, Groupings) = c[P]
  BY CapsAreChosen
<1> HIDE DEF c
<1>3. \A s \in SUBSET P : c[s] = CapStep(c, t, s)
  BY <1>1, Zenon DEF Caps
<1>4. /\ IsFiniteSet(P)
      /\ \A i \in P : Groupings[i] \in DOMAIN GroupCap
      /\ \A s \in SUBSET P : s # {} => Max(s) \in s
  BY FieldsKnown
<1> DEFINE FieldFits(u, i) ==
               \A n \in Names : Total(u, Members(Groupings[i], n)) <= GroupCap[Groupings[i]]
           Good(s, u) ==
               /\ u \in Weights /\ OnlyStates(u)
               /\ \A x \in Names : u[x] <= t[x]
               /\ \A i \in s : FieldFits(u, i)
           G == {s \in SUBSET P : Good(s, c[s])}
<1>5. {} \in G
  <2>1. c[{}] = t
    BY <1>3 DEF CapStep
  <2>2. Good({}, t)
    BY DEF Weights
  <2> QED BY <2>1, <2>2
<1>6. ASSUME NEW s \in SUBSET P, s # {}
      PROVE  \E x \in s : (s \ {x} \in G => s \in G)
  <2> DEFINE x == Max(s)
  <2>1. x \in s /\ c[s] = CapField(c[s \ {x}], Groupings[x])
    BY <1>3, <1>4, <1>6 DEF CapStep
  <2> HIDE DEF x
  <2>2. ASSUME s \ {x} \in G PROVE s \in G
    <3> DEFINE u == c[s \ {x}]
               v == CapField(u, Groupings[x])
               field == Groupings[x]
    <3>1. Good(s \ {x}, u)
      BY <2>2
    <3>2. c[s] = v
      BY <2>1
    <3>3. field \in DOMAIN GroupCap
      BY <1>4, <2>1
    <3> HIDE DEF u
    <3>4. u \in Weights /\ OnlyStates(u) /\ \A n \in Names : u[n] <= t[n]
      BY <3>1
    <3>5. /\ v \in Weights /\ OnlyStates(v)
          /\ \A n \in Names : v[n] <= u[n]
          /\ FieldFits(v, x)
      BY <3>3, <3>4, CapFieldIs
    <3> HIDE DEF v
    <3>6. \A n \in Names : v[n] <= t[n]
      BY <3>4, <3>5 DEF Weights
    <3>7. ASSUME NEW i \in s PROVE FieldFits(v, i)
      <4>1. CASE i = x
        BY <3>5, <4>1
      <4>2. CASE i # x
        <5>1. FieldFits(u, i)
          BY <3>1, <4>2
        <5>2. ASSUME NEW n \in Names
              PROVE  Total(v, Members(Groupings[i], n)) <= GroupCap[Groupings[i]]
          <6> DEFINE M == Members(Groupings[i], n)
                     cap == GroupCap[Groupings[i]]
          <6>1. M \in SUBSET Names
            BY DEF Members
          <6>2. cap \in Int
            BY <1>4, PipelineAssumption DEF PipelineAssumption
          <6>3. Total(u, M) <= cap
            BY <5>1
          <6> HIDE DEF M, cap
          <6>4. Total(v, M) <= cap
            BY <3>4, <3>5, <6>1, <6>2, <6>3, LowerTotal
          <6> QED BY <6>4 DEF M, cap
        <5> QED BY <5>2
      <4> QED BY <4>1, <4>2
    <3>8. Good(s, v)
      BY <3>5, <3>6, <3>7
    <3> QED BY <3>2, <3>8
  <2> QED BY <2>1, <2>2
<1>7. \A s \in SUBSET P : s \in G
  <2> HIDE DEF G, P
  <2> QED BY <1>4, <1>5, <1>6, SetInduction
<1>8. Good(P, c[P])
  BY <1>7
<1>9. WithinCaps(c[P])
  BY <1>8 DEF WithinCaps, Range
<1> QED BY <1>2, <1>8, <1>9

\* A move is the distance to the current weight.
LEMMA MoveIs ==
    ASSUME NEW t \in Weights, own \in Weights, NEW x \in Names
    PROVE  /\ Move(t, x) \in Nat
           /\ Move(t, x) = 0 <=> t[x] = own[x]
<1>1. t[x] \in Nat /\ own[x] \in Nat
  BY DEF Weights
<1>2. t[x] - own[x] \in Int
  BY <1>1
<1> QED BY <1>1, <1>2 DEF Move, Abs

\* Of every set of moves there is a largest.
LEMMA LargestIn ==
    ASSUME NEW t \in Weights, own \in Weights, NEW S \in SUBSET Names
    PROVE  \A s \in SUBSET S : s # {} => Largest(t, s) \in s
<1> DEFINE R == {p \in S \X S : Smaller(t, p[1], p[2])}
<1>1. IsFiniteSet(S) /\ S \in SUBSET Int /\ \A x \in S : Move(t, x) \in Nat
  BY NamesCount, MoveIs, PipelineAssumption DEF PipelineAssumption
<1>2. \A a, b \in S : <<a, b>> \in R <=> Smaller(t, a, b)
  OBVIOUS
<1>3. \A a, b \in S : a # b => Smaller(t, a, b) \/ Smaller(t, b, a)
  BY <1>1 DEF Smaller
<1>4. \A a, b, c \in S : Smaller(t, a, b) /\ Smaller(t, b, c) => Smaller(t, a, c)
  BY <1>1 DEF Smaller
<1> HIDE DEF R
<1>5. /\ \A a, b \in S : a # b => <<a, b>> \in R \/ <<b, a>> \in R
      /\ \A a, b, c \in S : <<a, b>> \in R /\ <<b, c>> \in R => <<a, c>> \in R
  BY <1>2, <1>3, <1>4, Zenon
<1>6. \A s \in SUBSET S : s # {} => \E m \in s : \A x \in s \ {m} : <<x, m>> \in R
  BY <1>1, <1>5, LastExists
<1> SUFFICES ASSUME NEW s \in SUBSET S, s # {} PROVE Largest(t, s) \in s
  OBVIOUS
<1>7. PICK m \in s : \A x \in s \ {m} : <<x, m>> \in R
  BY <1>6
<1>8. \A x \in s \ {m} : Smaller(t, x, m)
  BY <1>2, <1>7
<1> QED BY <1>8 DEF Largest

\* One step of the cancelling.
CancelStep(g, t, s) ==
    IF s = {} THEN t ELSE CancelOne(g[s \ {Largest(t, s)}], Largest(t, s))

\* The symbols that move.
Moved(t) == {s \in Names : Move(t, s) > 0}

\* g cancels the moves of each set of moved symbols.
Cancels(g, t) == g = [s \in SUBSET Moved(t) |-> CancelStep(g, t, s)]

\* Cancel applies the function that its fold chooses.
LEMMA CancelIsChosen ==
    ASSUME NEW t
    PROVE  Cancel(t) = (CHOOSE g : Cancels(g, t))[Moved(t)]
  BY Zenon DEF Cancel, MapThenFoldSet, Cancels, CancelStep, Moved

\* One symbol goes back to its current weight, unless the turnover fits.
LEMMA CancelOneIs ==
    ASSUME NEW u \in Weights, own \in Weights, NEW x \in Names
    PROVE  /\ CancelOne(u, x) \in Weights
           /\ \A y \in Names \ {x} : CancelOne(u, x)[y] = u[y]
           /\ \/ Turnover(u) <= MaxTurnover /\ CancelOne(u, x) = u
              \/ CancelOne(u, x)[x] = own[x]
<1>1. CASE Turnover(u) <= MaxTurnover
  BY <1>1 DEF CancelOne
<1>2. CASE ~ (Turnover(u) <= MaxTurnover)
  <2>1. CancelOne(u, x) = [u EXCEPT ![x] = own[x]]
    BY <1>2 DEF CancelOne
  <2> QED BY <2>1 DEF Weights
<1> QED BY <1>1, <1>2

\* There is such a function.
LEMMA CancelsExist ==
    ASSUME NEW t \in Weights, own \in Weights
    PROVE  \E g \in [SUBSET Moved(t) -> Weights] : Cancels(g, t)
<1> DEFINE S == Moved(t)
           pick == [s \in SUBSET S |-> Largest(t, s)]
           op == [p \in S \X Weights |-> CancelOne(p[2], p[1])]
<1>1. S \in SUBSET Names /\ IsFiniteSet(S)
  BY NamesCount DEF Moved
<1>2. \A s \in SUBSET S : pick[s] = Largest(t, s) /\ (s # {} => pick[s] \in s)
  BY <1>1, LargestIn
<1>3. \A x \in S, u \in Weights : op[<<x, u>>] = CancelOne(u, x)
  OBVIOUS
<1> HIDE DEF pick, op, S
<1>4. \A x \in S, u \in Weights : op[<<x, u>>] \in Weights
  <2> SUFFICES ASSUME NEW x \in S, NEW u \in Weights PROVE op[<<x, u>>] \in Weights
    OBVIOUS
  <2>1. CancelOne(u, x) \in Weights
    BY <1>1, CancelOneIs
  <2> QED BY <1>3, <2>1
<1>5. Foldable(S, Weights, op, pick)
  BY <1>2, <1>4, Zenon DEF Foldable
<1>6. PICK g \in [SUBSET S -> Weights] : Folds(g, op, t, pick, S)
  BY <1>1, <1>5, FoldExists
<1>7. \A s \in SUBSET S : g[s] = FoldStep(g, op, t, pick, s)
  BY <1>6, Zenon DEF Folds
<1>8. ASSUME NEW s \in SUBSET S PROVE g[s] = CancelStep(g, t, s)
  <2>1. CASE s = {}
    BY <1>7, <2>1 DEF FoldStep, CancelStep
  <2>2. CASE s # {}
    <3>1. pick[s] \in S /\ s \ {pick[s]} \in SUBSET S
      BY <1>2, <2>2
    <3>2. g[s] = op[<<pick[s], g[s \ {pick[s]}]>>]
      BY <1>7, <2>2 DEF FoldStep
    <3>3. g[s] = CancelOne(g[s \ {pick[s]}], pick[s])
      BY <1>3, <3>1, <3>2
    <3> QED BY <1>2, <2>2, <3>3 DEF CancelStep
  <2> QED BY <2>1, <2>2
<1>9. g = [s \in SUBSET S |-> CancelStep(g, t, s)]
  BY <1>8
<1> QED BY <1>9 DEF Cancels, S

\* No move is no turnover.
LEMMA NoTurnover ==
    ASSUME NEW u, own \in Weights, \A x \in Names : u[x] = own[x]
    PROVE  Turnover(u) = 0
<1> DEFINE f == [s \in Names |-> Abs(u[s] - own[s])]
<1>1. \A x \in Names : f[x] = 0
  BY DEF Abs, Weights
<1>2. IsFiniteSet(Names)
  BY PipelineAssumption DEF PipelineAssumption
<1> HIDE DEF f
<1>3. Total(f, Names) = 0
  BY <1>1, <1>2, TotalZero
<1> QED BY <1>3, Zenon DEF Turnover, f

\* Cancelling leaves a target or goes back to the current weight, and what
\* is left fits the turnover limit: without any move there is no turnover.
LEMMA CancelIs ==
    ASSUME NEW t \in Weights, own \in Weights
    PROVE  /\ Cancel(t) \in Weights
           /\ \A x \in Names : Cancel(t)[x] \in {t[x], own[x]}
           /\ Turnover(Cancel(t)) <= MaxTurnover
<1> DEFINE S == Moved(t)
           c == CHOOSE g : Cancels(g, t)
<1>1. Cancels(c, t)
  <2>1. \E g : Cancels(g, t)
    BY CancelsExist
  <2> QED BY <2>1
<1>2. Cancel(t) = c[S]
  BY CancelIsChosen
<1> HIDE DEF c
<1>3. \A s \in SUBSET S : c[s] = CancelStep(c, t, s)
  BY <1>1, Zenon DEF Cancels
<1>4. S \in SUBSET Names /\ IsFiniteSet(S)
  BY NamesCount DEF Moved
<1>5. \A s \in SUBSET S : s # {} => Largest(t, s) \in s
  BY <1>4, LargestIn
<1>6. \A x \in Names \ S : t[x] = own[x]
  BY MoveIs DEF Moved
<1> DEFINE Good(s, u) ==
               /\ u \in Weights
               /\ \A x \in Names : u[x] \in {t[x], own[x]}
               /\ Turnover(u) <= MaxTurnover \/ \A x \in s : u[x] = own[x]
           G == {s \in SUBSET S : Good(s, c[s])}
<1> HIDE DEF S
<1>7. {} \in G
  <2>1. c[{}] = t
    BY <1>3 DEF CancelStep
  <2>2. Good({}, t)
    OBVIOUS
  <2> QED BY <2>1, <2>2
<1>8. ASSUME NEW s \in SUBSET S, s # {}
      PROVE  \E x \in s : (s \ {x} \in G => s \in G)
  <2> DEFINE x == Largest(t, s)
  <2>1. x \in s /\ c[s] = CancelOne(c[s \ {x}], x)
    BY <1>3, <1>5, <1>8 DEF CancelStep
  <2> HIDE DEF x
  <2>2. ASSUME s \ {x} \in G PROVE s \in G
    <3> DEFINE u == c[s \ {x}]
               v == CancelOne(u, x)
    <3>1. Good(s \ {x}, u)
      BY <2>2
    <3>2. c[s] = v
      BY <2>1
    <3> HIDE DEF u
    <3>3. u \in Weights /\ x \in Names /\ x \in s
      BY <1>4, <2>1, <3>1
    <3>4. /\ v \in Weights
          /\ \A y \in Names \ {x} : v[y] = u[y]
          /\ (Turnover(u) <= MaxTurnover /\ v = u) \/ v[x] = own[x]
      BY <3>3, CancelOneIs
    <3> HIDE DEF v
    <3>5. CASE Turnover(u) <= MaxTurnover /\ v = u
      <4>1. Good(s, v)
        BY <3>1, <3>5
      <4> QED BY <3>2, <4>1
    <3>6. CASE v[x] = own[x]
      <4>1. \A y \in Names : v[y] \in {t[y], own[y]}
        BY <3>1, <3>4, <3>6
      <4>2. CASE \A y \in s \ {x} : u[y] = own[y]
        <5>1. \A y \in s : v[y] = own[y]
          BY <1>4, <3>4, <3>6, <4>2
        <5>2. Good(s, v)
          BY <3>4, <4>1, <5>1
        <5> QED BY <3>2, <5>2
      <4>3. CASE Turnover(u) <= MaxTurnover
        <5>1. v = u
          BY <4>3 DEF v, CancelOne
        <5>2. Good(s, v)
          BY <3>1, <4>3, <5>1
        <5> QED BY <3>2, <5>2
      <4> QED BY <3>1, <4>2, <4>3
    <3> QED BY <3>4, <3>5, <3>6
  <2> QED BY <2>1, <2>2
<1>9. \A s \in SUBSET S : s \in G
  <2> HIDE DEF G
  <2> QED BY <1>4, <1>7, <1>8, SetInduction
<1>10. Good(S, c[S])
  BY <1>9
<1>11. Turnover(c[S]) <= MaxTurnover
  <2>1. CASE \A x \in S : c[S][x] = own[x]
    <3>1. \A x \in Names : c[S][x] = own[x]
      BY <1>6, <1>10, <2>1
    <3>2. Turnover(c[S]) = 0
      BY <3>1, NoTurnover
    <3>3. MaxTurnover \in Nat
      BY PipelineAssumption DEF PipelineAssumption
    <3> QED BY <3>2, <3>3
  <2> QED BY <1>10, <2>1
<1> QED BY <1>2, <1>10, <1>11
----------------------------------------------------------------------------
(* Scores, the targets they lead to, and the plan.                         *)

\* The arguments of a call are of their kinds.
CallTyped ==
    /\ offer \in [Names -> Offers \cup {NoOffer}]
    /\ known \in [Names -> KnownScores \cup {NoScore}]
    /\ own \in Weights

\* A candidate's components give an integer.
LEMMA ScoreCandidateIs ==
    ASSUME NEW o \in Offers \ {NoOffer}
    PROVE  ScoreCandidate(o) \in Int
<1> DEFINE C == DOMAIN ComponentWeights
           value(c) == IF o.components[c] = NoScore THEN NeutralScore ELSE o.components[c]
           part == [c \in C |-> (IF c = "risk" THEN -1 ELSE 1) * ComponentWeights[c] * value(c)]
           sum == Total(part, DOMAIN part) \div 100
<1>1. \A x, y \in Int : x * y \in Int
  OBVIOUS
<1>2. ASSUME NEW c \in C PROVE part[c] \in Int
  <2>1. value(c) \in Int /\ ComponentWeights[c] \in Int
    BY PipelineAssumption DEF PipelineAssumption
  <2> DEFINE sign == IF c = "risk" THEN -1 ELSE 1
  <2>2. sign \in Int
    OBVIOUS
  <2>3. part[c] = sign * ComponentWeights[c] * value(c)
    OBVIOUS
  <2> HIDE DEF sign, value, part
  <2>4. sign * ComponentWeights[c] \in Int
    BY <1>1, <2>1, <2>2
  <2> QED BY <1>1, <2>1, <2>3, <2>4
<1>3. DOMAIN part = C /\ IsFiniteSet(C)
  BY PipelineAssumption DEF PipelineAssumption
<1>4. ScoreCandidate(o) = IF sum < 0 THEN 0 ELSE IF sum > 100 THEN 100 ELSE sum
  BY Zenon DEF ScoreCandidate
<1> HIDE DEF part, C
<1>5. Whole(part, C)
  BY <1>2 DEF Whole
<1>6. Total(part, C) \in Int
  BY <1>3, <1>5, TotalOf
<1>7. sum \in Int
  BY <1>3, <1>6
<1> HIDE DEF sum
<1> QED BY <1>4, <1>7

\* A score is an integer or missing, so every name has a rank.
LEMMA ScoreIs ==
    ASSUME CallTyped
    PROVE  RanksKnown /\ \A s \in Names : Score(s) \in Int \cup {NoScore}
<1>1. ASSUME NEW s \in Names PROVE Score(s) \in Int \cup {NoScore}
  <2>1. CASE ~Candidate(s)
    <3>1. Score(s) = known[s] /\ known[s] \in KnownScores \cup {NoScore}
      BY <2>1 DEF Score, CallTyped
    <3> QED BY <3>1, PipelineAssumption DEF PipelineAssumption
  <2>2. CASE Candidate(s)
    <3>1. offer[s] \in Offers \ {NoOffer}
      BY <2>2 DEF Candidate, CallTyped
    <3>2. offer[s].score \in Int \cup {NoScore} /\ ScoreCandidate(offer[s]) \in Int
      BY <3>1, ScoreCandidateIs, PipelineAssumption DEF PipelineAssumption
    <3> QED BY <2>2, <3>2 DEF Score
  <2> QED BY <2>1, <2>2
<1>2. RanksKnown
  BY <1>1 DEF RanksKnown, CutRank
<1> QED BY <1>1, <1>2

\* A scored name is in a band to buy exactly from the lowest threshold on.
LEMMA BandIs ==
    ASSUME NEW score \in Int
    PROVE  /\ Band(score) \in BuyBands \cup {"watch"}
           /\ Band(score) # "watch" <=> score >= Starter
<1>1. Starter \in Int /\ Normal \in Int /\ HighConviction \in Int /\ Starter <= Normal
      /\ Normal <= HighConviction
  BY PipelineAssumption DEF PipelineAssumption
<1>2. CASE score >= HighConviction
  BY <1>1, <1>2 DEF Band, BuyBands
<1>3. CASE score < HighConviction /\ score >= Normal
  BY <1>1, <1>3 DEF Band, BuyBands
<1>4. CASE score < Normal /\ score >= Starter
  BY <1>1, <1>4 DEF Band, BuyBands
<1>5. CASE score < Starter
  BY <1>1, <1>5 DEF Band, BuyBands
<1> QED BY <1>1, <1>2, <1>3, <1>4, <1>5

\* The first target of a symbol is at most what it has, or a purchase.
LEMMA InitialTargetIs ==
    ASSUME CallTyped, NEW s \in Names
    PROVE  /\ InitialTarget(s) \in Nat
           /\ \/ InitialTarget(s) <= own[s]
              \/ /\ InitialTarget(s) <= MaxSingle
                 /\ Score(s) \in Int /\ Score(s) >= Starter
<1> DEFINE w == own[s]
           score == Score(s)
           band == Band(score)
           lo == Bands[band].lo
           hi == Bands[band].hi
           middle == (lo + hi) \div 2
           raised == IF band = "watch" \/ (lo <= w /\ w <= hi) THEN w
                     ELSE IF w > hi THEN hi
                     ELSE IF middle > MaxSingle THEN MaxSingle ELSE middle
           result == InitialTarget(s)
<1>1. result = CASE score = NoScore -> w
                 [] score # NoScore /\ score < ExitBelow /\ w > 0 -> 0
                 [] score # NoScore /\ score >= ExitBelow /\ score < ReduceBelow /\ w > 0 -> w \div 2
                 [] OTHER -> raised
  BY Zenon DEF InitialTarget
<1>2. w \in Nat /\ score \in Int \cup {NoScore}
  BY ScoreIs DEF CallTyped, Weights
<1>3. /\ MaxSingle \in Nat /\ ExitBelow \in Int /\ ReduceBelow \in Int /\ NoScore \notin Int
      /\ \A b \in BuyBands : Bands[b].lo \in Nat /\ Bands[b].hi \in Nat
  BY PipelineAssumption DEF PipelineAssumption
<1> HIDE DEF w, score, raised, result
<1>4. CASE score = NoScore
  BY <1>1, <1>2, <1>3, <1>4 DEF w, result
<1>5. CASE score # NoScore
  <2>1. score \in Int
    BY <1>2, <1>5
  <2>2. CASE score < ExitBelow /\ w > 0
    <3>1. result = 0
      BY <1>1, <1>3, <1>5, <2>1, <2>2
    <3> QED BY <1>2, <3>1 DEF w, result
  <2>3. CASE score >= ExitBelow /\ score < ReduceBelow /\ w > 0
    <3>1. result = w \div 2
      BY <1>1, <1>3, <1>5, <2>1, <2>3
    <3>2. w \div 2 \in Nat /\ w \div 2 <= w
      BY <1>2
    <3> QED BY <3>1, <3>2 DEF w, result
  <2>4. CASE /\ ~(score < ExitBelow /\ w > 0)
             /\ ~(score >= ExitBelow /\ score < ReduceBelow /\ w > 0)
    <3>1. result = raised
      BY <1>1, <1>5, <2>4
    <3>2. band \in BuyBands \cup {"watch"} /\ (band # "watch" <=> score >= Starter)
      BY <2>1, BandIs
    <3> HIDE DEF band, lo, hi, middle
    <3>3. CASE band = "watch"
      BY <1>2, <3>1, <3>3 DEF raised, w, result
    <3>4. CASE band # "watch"
      <4>1. lo \in Nat /\ hi \in Nat
        BY <1>3, <3>2, <3>4 DEF lo, hi
      <4>2. middle \in Nat
        BY <4>1 DEF middle
      <4>3. raised \in Nat /\ (raised <= w \/ raised <= MaxSingle)
        BY <1>2, <1>3, <4>1, <4>2 DEF raised
      <4> QED BY <2>1, <3>1, <3>2, <3>4, <4>3 DEF w, result, score
    <3> QED BY <3>3, <3>4
  <2> QED BY <2>2, <2>3, <2>4
<1> QED BY <1>4, <1>5

\* Lowering keeps purchases within their limits.
LEMMA LowerBought ==
    ASSUME CallTyped, NEW t \in Weights, NEW u \in Weights, Bought(t),
           \A x \in Names : u[x] <= t[x]
    PROVE  Bought(u)
<1> SUFFICES ASSUME NEW s \in Names
             PROVE  u[s] <= own[s] \/ (u[s] <= MaxSingle /\ Score(s) \in Int /\ Score(s) >= Starter)
  BY DEF Bought
<1>1. u[s] \in Nat /\ t[s] \in Nat /\ own[s] \in Nat /\ u[s] <= t[s] /\ MaxSingle \in Nat
  BY PipelineAssumption DEF CallTyped, Weights, PipelineAssumption
<1>2. t[s] <= own[s] \/ (t[s] <= MaxSingle /\ Score(s) \in Int /\ Score(s) >= Starter)
  BY DEF Bought
<1>3. CASE t[s] <= own[s]
  BY <1>1, <1>3
<1>4. CASE t[s] <= MaxSingle /\ Score(s) \in Int /\ Score(s) >= Starter
  BY <1>1, <1>4
<1> QED BY <1>2, <1>3, <1>4

\* Lowering keeps every group within its cap.
LEMMA LowerCaps ==
    ASSUME NEW t \in Weights, NEW u \in Weights, WithinCaps(t),
           \A x \in Names : u[x] <= t[x]
    PROVE  WithinCaps(u)
<1> SUFFICES ASSUME NEW field \in Range(Groupings), NEW s \in Names
             PROVE  Total(u, Members(field, s)) <= GroupCap[field]
  BY DEF WithinCaps
<1> DEFINE M == Members(field, s)
           cap == GroupCap[field]
<1>1. M \in SUBSET Names
  BY DEF Members
<1>2. cap \in Int
  BY FieldsKnown, PipelineAssumption DEF Range, PipelineAssumption
<1>3. Total(t, M) <= cap
  BY DEF WithinCaps
<1> HIDE DEF M, cap
<1>4. Total(u, M) <= cap
  BY <1>1, <1>2, <1>3, LowerTotal
<1> QED BY <1>4 DEF M, cap

\* The first targets.
LEMMA SizesAre ==
    ASSUME CallTyped, NEW t, t = [s \in Names |-> IF s \in States THEN InitialTarget(s) ELSE 0]
    PROVE  t \in Weights /\ Bought(t) /\ OnlyStates(t)
<1>1. ASSUME NEW s \in Names
      PROVE  /\ t[s] \in Nat
             /\ \/ t[s] <= own[s]
                \/ t[s] <= MaxSingle /\ Score(s) \in Int /\ Score(s) >= Starter
  <2>1. CASE s \in States
    BY <2>1, InitialTargetIs
  <2>2. CASE s \notin States
    <3>1. t[s] = 0 /\ own[s] \in Nat
      BY <2>2 DEF CallTyped, Weights
    <3> QED BY <3>1
  <2> QED BY <2>1, <2>2
<1>2. t \in Weights
  BY <1>1 DEF Weights
<1>3. Bought(t)
  BY <1>1 DEF Bought
<1>4. OnlyStates(t)
  BY DEF OnlyStates, States
<1> QED BY <1>2, <1>3, <1>4

\* What the caps leave.
LEMMA CappedIs ==
    ASSUME CallTyped, NEW t \in Weights, Bought(t), OnlyStates(t),
           NEW u, u = FoldLeft(CapField, t, Groupings)
    PROVE  u \in Weights /\ Bought(u) /\ OnlyStates(u) /\ WithinCaps(u)
<1>1. RanksKnown
  BY ScoreIs
<1>2. /\ u \in Weights /\ OnlyStates(u) /\ WithinCaps(u)
      /\ \A x \in Names : u[x] <= t[x]
  BY <1>1, CapsAreKept
<1>3. Bought(u)
  BY <1>2, LowerBought
<1> QED BY <1>2, <1>3

\* What the budget leaves.
LEMMA BudgetedIs ==
    ASSUME CallTyped, NEW t \in Weights, Bought(t), OnlyStates(t), WithinCaps(t),
           NEW u, u = CutToFit(t, States, RegimeBudget)
    PROVE  u \in Weights /\ Bought(u) /\ WithinCaps(u) /\ Total(u, Names) <= RegimeBudget
<1>1. RanksKnown
  BY ScoreIs
<1>2. States \in SUBSET Names
  BY DEF States
<1>3. RegimeBudget \in Nat
  BY PipelineAssumption DEF PipelineAssumption
<1>4. /\ u \in Weights
      /\ \A x \in Names : u[x] <= t[x]
      /\ \A x \in Names \ States : u[x] = t[x]
      /\ Total(u, States) <= RegimeBudget
  BY <1>1, <1>2, <1>3, CutToFitIs
<1>5. Bought(u) /\ WithinCaps(u)
  BY <1>4, LowerBought, LowerCaps
<1>6. OnlyStates(u)
  BY <1>4 DEF OnlyStates
<1>7. Names \in SUBSET Names /\ Names \cap States = States
  BY <1>2
<1>8. Total(u, Names) = Total(u, Names \cap States)
  BY <1>4, <1>6, <1>7, OnlyStatesCount
<1>9. Total(u, Names) <= RegimeBudget
  BY <1>4, <1>7, <1>8
<1> QED BY <1>4, <1>5, <1>9

\* What turnover control leaves.
LEMMA LimitedIs ==
    ASSUME CallTyped, NEW t \in Weights, NEW u, u = Cancel(DropSmall(t))
    PROVE  /\ u \in Weights /\ Turnover(u) <= MaxTurnover
           /\ \A s \in Names : u[s] \in {t[s], own[s]}
<1> DEFINE d == DropSmall(t)
<1>1. d \in Weights /\ \A s \in Names : d[s] \in {t[s], own[s]}
  BY DEF DropSmall, Weights, CallTyped
<1> HIDE DEF d
<1>2. own \in Weights
  BY DEF CallTyped
<1>3. /\ Cancel(d) \in Weights /\ Turnover(Cancel(d)) <= MaxTurnover
      /\ \A x \in Names : Cancel(d)[x] \in {d[x], own[x]}
  BY <1>1, <1>2, CancelIs
<1>4. u = Cancel(d)
  BY DEF d
<1>5. \A s \in Names : u[s] \in {t[s], own[s]}
  BY <1>1, <1>3, <1>4
<1> QED BY <1>3, <1>4, <1>5

\* What the invariant says of a state, by its stage.
LEMMA InvariantTyped ==
    ASSUME PlanInvariant
    PROVE  CallTyped
  BY DEF PlanInvariant, CallTyped

\* Nothing is planned before the call.
LEMMA PlanStarts ==
    ASSUME PipelineInit
    PROVE  PlanInvariant
<1>1. own = [s \in Names |-> 0] /\ target = own /\ planned = own /\ stage = "idle"
  BY DEF PipelineInit
<1>2. own \in Weights /\ target \in Weights /\ planned \in Weights
  BY <1>1 DEF Weights
<1>3. /\ offer \in [Names -> Offers \cup {NoOffer}]
      /\ known \in [Names -> KnownScores \cup {NoScore}]
  BY DEF PipelineInit
<1> QED BY <1>1, <1>2, <1>3 DEF PlanInvariant

\* The arguments of a call do not change while it runs.
LEMMA SameCall ==
    ASSUME UNCHANGED <<offer, own, known>>
    PROVE  /\ CallTyped => CallTyped'
           /\ \A s \in Names : Score(s)' = Score(s)
           /\ States' = States
           /\ \A t : Bought(t) => Bought(t)'
           /\ \A t : OnlyStates(t) => OnlyStates(t)'
           /\ \A t : Turnover(t)' = Turnover(t)
  BY DEF CallTyped, Score, Candidate, Bought, OnlyStates, States, Turnover

\* The kinds of the call and of the targets after a step.
LEMMA SameKinds ==
    ASSUME PlanInvariant, UNCHANGED <<offer, own, known>>
    PROVE  /\ offer' \in [Names -> Offers \cup {NoOffer}]
           /\ known' \in [Names -> KnownScores \cup {NoScore}]
           /\ own' \in Weights
           /\ CallTyped
  BY DEF PlanInvariant, CallTyped

\* The call starts with the current weights.
LEMMA ReceiveKeeps ==
    ASSUME PlanInvariant, Receive
    PROVE  PlanInvariant'
<1>1. /\ stage' = "received" /\ planned' = own' /\ target' = own'
      /\ offer' \in [Names -> Offers] /\ known' \in [Names -> KnownScores]
      /\ own' \in [Names -> Holdings]
  BY DEF Receive
<1>2. Holdings \subseteq Nat
  BY PipelineAssumption DEF PipelineAssumption
<1>3. /\ offer' \in [Names -> Offers \cup {NoOffer}]
      /\ known' \in [Names -> KnownScores \cup {NoScore}]
      /\ own' \in Weights /\ target' \in Weights /\ planned' \in Weights
  BY <1>1, <1>2 DEF Weights
<1> QED BY <1>1, <1>3 DEF PlanInvariant

\* Targets are sized.
LEMMA SizeTargetsKeeps ==
    ASSUME PlanInvariant, SizeTargets
    PROVE  PlanInvariant'
<1>1. /\ stage' = "sized" /\ UNCHANGED <<offer, own, known, planned, action>>
      /\ target' = [s \in Names |-> IF s \in States THEN InitialTarget(s) ELSE 0]
  BY DEF SizeTargets
<1>2. CallTyped /\ planned \in Weights
  BY InvariantTyped DEF PlanInvariant
<1>0. PICK u : u = target'
  OBVIOUS
<1>3. u = [s \in Names |-> IF s \in States THEN InitialTarget(s) ELSE 0]
  BY <1>0, <1>1
<1>4. u \in Weights /\ Bought(u) /\ OnlyStates(u)
  BY <1>2, <1>3, SizesAre
<1>5. Bought(target)' /\ OnlyStates(target)'
  BY <1>0, <1>1, <1>4, SameCall DEF Bought, OnlyStates
<1>6. target' \in Weights /\ planned' \in Weights
  BY <1>0, <1>1, <1>2, <1>4 DEF Weights
<1> QED BY <1>1, <1>5, <1>6, SameKinds DEF PlanInvariant, Weights

\* Groups are capped.
LEMMA CapGroupsKeeps ==
    ASSUME PlanInvariant, CapGroups
    PROVE  PlanInvariant'
<1>1. /\ stage = "sized" /\ stage' = "capped"
      /\ UNCHANGED <<offer, own, known, planned, action>>
      /\ target' = FoldLeft(CapField, target, Groupings)
  BY DEF CapGroups
<1>2. CallTyped /\ planned \in Weights /\ target \in Weights /\ Bought(target) /\ OnlyStates(target)
  BY <1>1, InvariantTyped DEF PlanInvariant
<1>0. PICK u : u = target'
  OBVIOUS
<1>3. u = FoldLeft(CapField, target, Groupings)
  BY <1>0, <1>1
<1>4. u \in Weights /\ Bought(u) /\ OnlyStates(u) /\ WithinCaps(u)
  BY <1>2, <1>3, CappedIs
<1>5. Bought(target)' /\ OnlyStates(target)'
  BY <1>0, <1>1, <1>4, SameCall DEF Bought, OnlyStates
<1>6. target' \in Weights /\ planned' \in Weights
  BY <1>0, <1>1, <1>2, <1>4 DEF Weights
<1>7. WithinCaps(target)'
  BY <1>0, <1>4
<1> QED BY <1>1, <1>5, <1>6, <1>7, SameKinds DEF PlanInvariant, Weights

\* The budget is fitted.
LEMMA FitBudgetKeeps ==
    ASSUME PlanInvariant, FitBudget
    PROVE  PlanInvariant'
<1>1. /\ stage = "capped" /\ stage' = "budgeted"
      /\ UNCHANGED <<offer, own, known, action>>
      /\ target' = CutToFit(target, States, RegimeBudget) /\ planned' = target'
  BY DEF FitBudget
<1>2. /\ CallTyped /\ target \in Weights /\ Bought(target) /\ OnlyStates(target)
      /\ WithinCaps(target)
  BY <1>1, InvariantTyped DEF PlanInvariant
<1>0. PICK u : u = target'
  OBVIOUS
<1>3. u = CutToFit(target, States, RegimeBudget)
  BY <1>0, <1>1
<1>4. u \in Weights /\ Bought(u) /\ WithinCaps(u) /\ Total(u, Names) <= RegimeBudget
  BY <1>2, <1>3, BudgetedIs
<1>5. Bought(planned)'
  BY <1>0, <1>1, <1>4, SameCall DEF Bought
<1>6. target' \in Weights /\ planned' \in Weights
  BY <1>0, <1>1, <1>4 DEF Weights
<1>7. WithinCaps(planned)' /\ (Total(planned, Names) <= RegimeBudget)'
  BY <1>0, <1>1, <1>4
<1> QED BY <1>1, <1>5, <1>6, <1>7, SameKinds DEF PlanInvariant, Weights

\* Once the budget is fitted, the plan and what it must satisfy do not change.
LEMMA PlanStays ==
    ASSUME PlanInvariant, stage \in {"budgeted", "limited", "done"},
           UNCHANGED <<offer, own, known, planned>>
    PROVE  /\ planned' \in Weights /\ Bought(planned)' /\ WithinCaps(planned)'
           /\ (Total(planned, Names) <= RegimeBudget)'
<1>1. /\ planned \in Weights /\ Bought(planned) /\ WithinCaps(planned)
      /\ Total(planned, Names) <= RegimeBudget
  BY DEF PlanInvariant
<1>2. Bought(planned)'
  BY <1>1, SameCall DEF Bought
<1>3. WithinCaps(planned)' /\ (Total(planned, Names) <= RegimeBudget)'
  BY <1>1
<1> QED BY <1>1, <1>2, <1>3 DEF Weights

\* The turnover is limited.
LEMMA LimitTurnoverKeeps ==
    ASSUME PlanInvariant, LimitTurnover
    PROVE  PlanInvariant'
<1>1. /\ stage = "budgeted" /\ stage' = "limited"
      /\ UNCHANGED <<offer, own, known, planned, action>>
      /\ target' = Cancel(DropSmall(target))
  BY DEF LimitTurnover
<1>2. CallTyped /\ target \in Weights /\ target = planned
  BY <1>1, InvariantTyped DEF PlanInvariant
<1>0. PICK u : u = target'
  OBVIOUS
<1>3. u = Cancel(DropSmall(target))
  BY <1>0, <1>1
<1>4. /\ u \in Weights /\ Turnover(u) <= MaxTurnover
      /\ \A s \in Names : u[s] \in {target[s], own[s]}
  BY <1>2, <1>3, LimitedIs
<1>5. (Turnover(target) <= MaxTurnover)'
  BY <1>0, <1>1, <1>4 DEF Turnover
<1>6. target' \in Weights
  BY <1>0, <1>4 DEF Weights
<1>7. (\A s \in Names : target[s] \in {planned[s], own[s]})'
  BY <1>0, <1>1, <1>2, <1>4
<1>8. /\ planned' \in Weights /\ Bought(planned)' /\ WithinCaps(planned)'
      /\ (Total(planned, Names) <= RegimeBudget)'
  BY <1>1, PlanStays
<1> QED BY <1>1, <1>5, <1>6, <1>7, <1>8, SameKinds DEF PlanInvariant, Weights

\* The action of a symbol depends on the call and its target only.
LEMMA SameActions ==
    ASSUME UNCHANGED <<offer, own, known, target>>
    PROVE  [s \in Names |-> ActionOf(s)]' = [s \in Names |-> ActionOf(s)]
<1>1. ASSUME NEW s \in Names PROVE ActionOf(s)' = ActionOf(s)
  <2>1. Score(s)' = Score(s) /\ States' = States
    BY SameCall
  <2> QED BY <2>1 DEF ActionOf, Band
<1> QED BY <1>1

\* Once the turnover is limited, the targets do not change.
LEMMA LimitsStay ==
    ASSUME PlanInvariant, stage \in {"limited", "done"},
           UNCHANGED <<offer, own, known, planned, target>>
    PROVE  /\ target' \in Weights
           /\ (Turnover(target) <= MaxTurnover)'
           /\ (\A s \in Names : target[s] \in {planned[s], own[s]})'
<1>1. /\ target \in Weights /\ Turnover(target) <= MaxTurnover
      /\ \A s \in Names : target[s] \in {planned[s], own[s]}
  BY DEF PlanInvariant
<1>2. (Turnover(target) <= MaxTurnover)'
  BY <1>1 DEF Turnover
<1>3. (\A s \in Names : target[s] \in {planned[s], own[s]})'
  BY <1>1
<1> QED BY <1>1, <1>2, <1>3 DEF Weights

\* The actions are emitted.
LEMMA EmitKeeps ==
    ASSUME PlanInvariant, Emit
    PROVE  PlanInvariant'
<1>1. /\ stage = "limited" /\ stage' = "done"
      /\ UNCHANGED <<offer, own, known, planned, target>>
      /\ action' = [s \in Names |-> ActionOf(s)]
  BY DEF Emit
<1>2. /\ planned' \in Weights /\ Bought(planned)' /\ WithinCaps(planned)'
      /\ (Total(planned, Names) <= RegimeBudget)'
  BY <1>1, PlanStays
<1>3. /\ target' \in Weights
      /\ (Turnover(target) <= MaxTurnover)'
      /\ (\A s \in Names : target[s] \in {planned[s], own[s]})'
  BY <1>1, LimitsStay
<1>4. (action = [s \in Names |-> ActionOf(s)])'
  BY <1>1, SameActions
<1> QED BY <1>1, <1>2, <1>3, <1>4, SameKinds DEF PlanInvariant, Weights

\* A step of another component.
LEMMA PipelineStutters ==
    ASSUME PlanInvariant, UNCHANGED pipelineVars
    PROVE  PlanInvariant'
<1>1. UNCHANGED <<stage, offer, own, known, planned, target, action>>
  BY DEF pipelineVars
<1>2. target' \in Weights /\ planned' \in Weights
  BY <1>1 DEF PlanInvariant, Weights
<1>3. ASSUME stage \in {"sized", "capped"} PROVE Bought(target)' /\ OnlyStates(target)'
  BY <1>1, <1>3, SameCall DEF PlanInvariant, Bought, OnlyStates
<1>4. ASSUME stage = "capped" PROVE WithinCaps(target)'
  BY <1>1, <1>4 DEF PlanInvariant
<1>5. ASSUME stage \in {"budgeted", "limited", "done"}
      PROVE  Bought(planned)' /\ WithinCaps(planned)' /\ (Total(planned, Names) <= RegimeBudget)'
  BY <1>1, <1>5, PlanStays
<1>6. ASSUME stage \in {"limited", "done"}
      PROVE  /\ (Turnover(target) <= MaxTurnover)'
             /\ (\A s \in Names : target[s] \in {planned[s], own[s]})'
  BY <1>1, <1>6, LimitsStay
<1>7. ASSUME stage = "done" PROVE (action = [s \in Names |-> ActionOf(s)])'
  <2>1. action = [s \in Names |-> ActionOf(s)]
    BY <1>7 DEF PlanInvariant
  <2> QED BY <1>1, <2>1, SameActions
<1>8. stage = "budgeted" => target' = planned'
  BY <1>1 DEF PlanInvariant
<1>9. stage \in {"idle", "received", "sized", "capped", "budgeted", "limited", "done"}
  BY DEF PlanInvariant
<1> QED BY <1>1, <1>2, <1>3, <1>4, <1>5, <1>6, <1>7, <1>8, <1>9, SameKinds DEF PlanInvariant, Weights

\* The stages of the pipeline keep what makes its plan right.
THEOREM PlanInvariance == PipelineSpec => []PlanInvariant
<1>1. PipelineInit => PlanInvariant
  BY PlanStarts
<1>2. PlanInvariant /\ [PipelineNext]_pipelineVars => PlanInvariant'
  BY ReceiveKeeps, SizeTargetsKeeps, CapGroupsKeeps, FitBudgetKeeps, LimitTurnoverKeeps,
     EmitKeeps, PipelineStutters DEF PipelineNext
<1> QED BY <1>1, <1>2, PTL DEF PipelineSpec

\* In a plan that is emitted a purchase is of a scored name and within the
\* single-stock limit, and a watched name is not held.
LEMMA EmittedIs ==
    ASSUME PlanInvariant, stage = "done", NEW s \in Names
    PROVE  /\ action[s] \in BuyBands => target[s] <= MaxSingle /\ Score(s) >= Starter
           /\ action[s] = "watch" => target[s] = 0
<1>1. /\ action[s] = ActionOf(s)
      /\ target[s] \in {planned[s], own[s]}
      /\ planned[s] <= own[s] \/ (planned[s] <= MaxSingle /\ Score(s) \in Int /\ Score(s) >= Starter)
  BY DEF PlanInvariant, Bought
<1>2. target[s] \in Nat /\ own[s] \in Nat
  BY DEF PlanInvariant, Weights
<1>3. CASE s \notin States
  <2>1. action[s] = "none"
    BY <1>1, <1>3 DEF ActionOf
  <2> QED BY <2>1 DEF BuyBands
<1>4. CASE s \in States /\ target[s] > own[s]
  <2>1. action[s] = IF Band(Score(s)) \in BuyBands THEN Band(Score(s)) ELSE "normal"
    BY <1>1, <1>2, <1>4 DEF ActionOf
  <2>2. target[s] <= MaxSingle /\ Score(s) \in Int /\ Score(s) >= Starter
    BY <1>1, <1>2, <1>4
  <2>3. action[s] # "watch"
    BY <2>1 DEF BuyBands
  <2> QED BY <2>2, <2>3
<1>5. CASE s \in States /\ target[s] < own[s]
  <2>1. action[s] \in {"exit", "reduce"}
    BY <1>1, <1>2, <1>5 DEF ActionOf
  <2> QED BY <2>1 DEF BuyBands
<1>6. CASE s \in States /\ target[s] = own[s]
  <2>1. action[s] = IF own[s] > 0 THEN "hold" ELSE "watch"
    BY <1>1, <1>2, <1>6 DEF ActionOf
  <2>2. CASE own[s] > 0
    BY <2>1, <2>2 DEF BuyBands
  <2>3. CASE own[s] = 0
    BY <1>6, <2>1, <2>3 DEF BuyBands
  <2> QED BY <1>2, <2>2, <2>3
<1> QED BY <1>2, <1>3, <1>4, <1>5, <1>6

\* The plan before turnover control satisfies every cap and the budget at
\* once, and what is emitted is a purchase within the single-stock limit, a
\* cancelled move, or a name that is not held (run_portfolio_pipeline).
THEOREM PlanFits == PipelineSpec => []PlanIsWithinLimits
<1>1. PlanInvariant => PlanIsWithinLimits
  <2> SUFFICES ASSUME PlanInvariant PROVE PlanIsWithinLimits
    OBVIOUS
  <2>1. ASSUME stage \in {"budgeted", "limited", "done"}
        PROVE  Total(planned, Names) <= RegimeBudget /\ WithinCaps(planned)
    BY <2>1 DEF PlanInvariant
  <2>2. ASSUME stage = "done"
        PROVE  /\ Turnover(target) <= MaxTurnover
               /\ \A s \in Names : target[s] \in {planned[s], own[s]}
    BY <2>2 DEF PlanInvariant
  <2> QED BY <2>1, <2>2, EmittedIs DEF PlanIsWithinLimits, WithinCaps
<1> QED BY <1>1, PlanInvariance, PTL

----------------------------------------------------------------------------
(* Portfolio backtest.                                                     *)

(* The lots of a symbol.                                                   *)

\* Shares of the lots I of a symbol that are for sale, and of those that are
\* not yet.
ForSale(lots, I) == Total(SharesOf(lots), {i \in I : lots[i].available <= day})

NotYet(lots, I) == Total(SharesOf(lots), {i \in I : lots[i].available > day})

\* Lots are finitely many, and their shares are whole.
LEMMA LotsCount ==
    ASSUME NEW lots \in Seq(Lots), NEW I \in SUBSET DOMAIN lots
    PROVE  /\ IsFiniteSet(I) /\ Whole(SharesOf(lots), I)
           /\ \A i \in I : SharesOf(lots)[i] = lots[i].shares /\ lots[i].shares \in Nat
<1>1. IsFiniteSet(I)
  BY PositionsKnown, FS_Subset
<1>2. \A i \in DOMAIN lots : lots[i] \in Lots
  OBVIOUS
<1>3. \A i \in I : SharesOf(lots)[i] = lots[i].shares /\ lots[i].shares \in Nat
  BY <1>2 DEF SharesOf, Lots
<1>4. Whole(SharesOf(lots), I)
  BY <1>3 DEF Whole
<1> QED BY <1>1, <1>3, <1>4

\* A lot counts for the one or for the other.
LEMMA LotIn ==
    ASSUME NEW lots \in Seq(Lots), day \in Int, NEW I \in SUBSET DOMAIN lots, NEW i \in I
    PROVE  /\ lots[i].available > day =>
                 /\ ForSale(lots, I) = ForSale(lots, I \ {i})
                 /\ NotYet(lots, I) = NotYet(lots, I \ {i}) + lots[i].shares
           /\ ~(lots[i].available > day) =>
                 /\ ForSale(lots, I) = ForSale(lots, I \ {i}) + lots[i].shares
                 /\ NotYet(lots, I) = NotYet(lots, I \ {i})
           /\ Total(SharesOf(lots), I) = Total(SharesOf(lots), I \ {i}) + lots[i].shares
           /\ ForSale(lots, I) \in Int /\ NotYet(lots, I) \in Int
           /\ Total(SharesOf(lots), I) \in Int
<1> DEFINE f == SharesOf(lots)
           A(J) == {j \in J : lots[j].available <= day}
           B(J) == {j \in J : lots[j].available > day}
           D == DOMAIN lots
<1>1. /\ IsFiniteSet(D) /\ Whole(f, D)
      /\ \A j \in D : f[j] = lots[j].shares /\ lots[j].shares \in Nat
  BY LotsCount
<1>2. \A s \in SUBSET D : \A x \in s :
         /\ Total(f, s) = f[x] + Total(f, s \ {x})
         /\ f[x] \in Int /\ Total(f, s) \in Int /\ Total(f, s \ {x}) \in Int
  BY <1>1, TotalOf
<1>3. ASSUME NEW s \in SUBSET D PROVE Total(f, s) \in Int
  <2>1. IsFiniteSet(s) /\ Whole(f, s)
    BY <1>1, FS_Subset DEF Whole
  <2> QED BY <2>1, TotalOf
<1>4. lots[i].available \in Int /\ f[i] = lots[i].shares /\ f[i] \in Nat
  <2>1. lots[i] \in Lots
    OBVIOUS
  <2> QED BY <1>1, <2>1 DEF Lots
<1>5. A(I) \in SUBSET D /\ B(I) \in SUBSET D /\ A(I \ {i}) \in SUBSET D /\ B(I \ {i}) \in SUBSET D
  OBVIOUS
<1>6. ASSUME lots[i].available > day
      PROVE  A(I) = A(I \ {i}) /\ i \in B(I) /\ B(I) \ {i} = B(I \ {i})
  BY <1>4, <1>6
<1>7. ASSUME ~(lots[i].available > day)
      PROVE  B(I) = B(I \ {i}) /\ i \in A(I) /\ A(I) \ {i} = A(I \ {i})
  BY <1>4, <1>7
<1>8. Total(f, I) = Total(f, I \ {i}) + lots[i].shares
  BY <1>2, <1>4
<1> HIDE DEF f, A, B, D
<1>9. ASSUME lots[i].available > day
      PROVE  Total(f, A(I)) = Total(f, A(I \ {i})) /\ Total(f, B(I)) = Total(f, B(I \ {i})) + lots[i].shares
  <2>1. Total(f, B(I)) = f[i] + Total(f, B(I) \ {i}) /\ Total(f, B(I) \ {i}) \in Int
    BY <1>2, <1>5, <1>6, <1>9
  <2>2. Total(f, B(I) \ {i}) = Total(f, B(I \ {i}))
    BY <1>6, <1>9
  <2>3. Total(f, A(I)) = Total(f, A(I \ {i}))
    BY <1>6, <1>9
  <2> QED BY <1>4, <2>1, <2>2, <2>3
<1>10. ASSUME ~(lots[i].available > day)
       PROVE  Total(f, B(I)) = Total(f, B(I \ {i})) /\ Total(f, A(I)) = Total(f, A(I \ {i})) + lots[i].shares
  <2>1. Total(f, A(I)) = f[i] + Total(f, A(I) \ {i}) /\ Total(f, A(I) \ {i}) \in Int
    BY <1>2, <1>5, <1>7, <1>10
  <2>2. Total(f, A(I) \ {i}) = Total(f, A(I \ {i}))
    BY <1>7, <1>10
  <2>3. Total(f, B(I)) = Total(f, B(I \ {i}))
    BY <1>7, <1>10
  <2> QED BY <1>4, <2>1, <2>2, <2>3
<1>11. /\ ForSale(lots, I) = Total(f, A(I)) /\ ForSale(lots, I \ {i}) = Total(f, A(I \ {i}))
       /\ NotYet(lots, I) = Total(f, B(I)) /\ NotYet(lots, I \ {i}) = Total(f, B(I \ {i}))
  BY Zenon DEF ForSale, NotYet, A, B, f
<1>12. Total(f, I) \in Int
  BY <1>3 DEF D
<1> QED BY <1>3, <1>5, <1>8, <1>9, <1>10, <1>11, <1>12 DEF f

\* Nothing is in no lot.
LEMMA NoLots ==
    ASSUME NEW lots \in Seq(Lots)
    PROVE  ForSale(lots, {}) = 0 /\ NotYet(lots, {}) = 0 /\ Total(SharesOf(lots), {}) = 0
<1> DEFINE none == {}
<1>1. IsFiniteSet(none) /\ Whole(SharesOf(lots), none)
  BY FS_EmptySet DEF Whole
<1>2. Total(SharesOf(lots), {}) = 0
  <2> HIDE DEF Whole
  <2> QED BY <1>1, TotalOf
<1>3. {i \in none : lots[i].available <= day} = {} /\ {i \in none : lots[i].available > day} = {}
  OBVIOUS
<1> QED BY <1>2, <1>3, Zenon DEF ForSale, NotYet

\* Every lot is one of the two.
LEMMA LotsSplit ==
    ASSUME NEW lots \in Seq(Lots), day \in Int
    PROVE  \A I \in SUBSET DOMAIN lots :
              /\ ForSale(lots, I) \in Nat /\ NotYet(lots, I) \in Nat
              /\ Total(SharesOf(lots), I) = ForSale(lots, I) + NotYet(lots, I)
<1> DEFINE f == SharesOf(lots)
           D == DOMAIN lots
           Good(I) == /\ ForSale(lots, I) \in Nat /\ NotYet(lots, I) \in Nat
                      /\ Total(f, I) = ForSale(lots, I) + NotYet(lots, I)
           G == {I \in SUBSET D : Good(I)}
<1>1. IsFiniteSet(D)
  BY LotsCount
<1>3. {} \in G
  BY NoLots
<1>4. ASSUME NEW I \in SUBSET D, I # {} PROVE \E x \in I : (I \ {x} \in G => I \in G)
  <2>1. PICK x \in I : TRUE
    BY <1>4
  <2>2. lots[x].shares \in Nat
    BY LotsCount
  <2>3. ASSUME Good(I \ {x}) PROVE Good(I)
    <3>1. Total(f, I) = Total(f, I \ {x}) + lots[x].shares
      BY LotIn
    <3>2. CASE lots[x].available > day
      <4>1. /\ ForSale(lots, I) = ForSale(lots, I \ {x})
            /\ NotYet(lots, I) = NotYet(lots, I \ {x}) + lots[x].shares
        BY <3>2, LotIn
      <4> QED BY <2>2, <2>3, <3>1, <4>1
    <3>3. CASE ~(lots[x].available > day)
      <4>1. /\ ForSale(lots, I) = ForSale(lots, I \ {x}) + lots[x].shares
            /\ NotYet(lots, I) = NotYet(lots, I \ {x})
        BY <3>3, LotIn
      <4> QED BY <2>2, <2>3, <3>1, <4>1
    <3> QED BY <3>2, <3>3
  <2> QED BY <2>3
<1>5. \A I \in SUBSET D : I \in G
  <2> HIDE DEF G
  <2> QED BY <1>1, <1>3, <1>4, SetInduction
<1> QED BY <1>5

\* What a lot adds to the lots before it.
LEMMA LotAdds ==
    ASSUME NEW lots \in Seq(Lots), NEW lot \in Lots, day \in Int
    PROVE  LET more == Append(lots, lot) IN
           /\ more \in Seq(Lots)
           /\ DOMAIN more = DOMAIN lots \cup {Len(lots) + 1}
           /\ \A i \in DOMAIN lots : more[i] = lots[i]
           /\ more[Len(lots) + 1] = lot
           /\ SharesIn(more) = SharesIn(lots) + lot.shares
           /\ NotYet(more, DOMAIN more) =
                 NotYet(lots, DOMAIN lots) + IF lot.available > day THEN lot.shares ELSE 0
<1> DEFINE more == Append(lots, lot)
           n == Len(lots) + 1
           D == DOMAIN lots
           E == DOMAIN more
           f == SharesOf(lots)
           h == SharesOf(more)
           B == {i \in D : lots[i].available > day}
           C == {i \in E : more[i].available > day}
<1>1. /\ more \in Seq(Lots) /\ E = D \cup {n} /\ n \notin D
      /\ \A i \in D : more[i] = lots[i]
      /\ more[n] = lot
  OBVIOUS
<1>2. lot.shares \in Nat /\ lot.available \in Int
  BY DEF Lots
<1> HIDE DEF more, n
<1>3. /\ IsFiniteSet(D) /\ Whole(f, D) /\ IsFiniteSet(E) /\ Whole(h, E)
      /\ \A i \in D : f[i] = lots[i].shares
      /\ \A i \in E : h[i] = more[i].shares
  BY <1>1, LotsCount
<1>4. \A i \in D : h[i] = f[i]
  BY <1>1, <1>3
<1>5. h[n] = lot.shares
  BY <1>1, <1>3
<1> HIDE DEF f, h
<1>6. \A s \in SUBSET E : \A x \in s :
         /\ Total(h, s) = h[x] + Total(h, s \ {x})
         /\ h[x] \in Int /\ Total(h, s) \in Int /\ Total(h, s \ {x}) \in Int
  BY <1>3, TotalOf
<1>7. ASSUME NEW I \in SUBSET D
      PROVE  Total(h, I) = Total(f, I) /\ Total(f, I) \in Int
  <2>1. IsFiniteSet(I) /\ Whole(h, I) /\ Whole(f, I) /\ \A i \in I : h[i] = f[i]
    BY <1>1, <1>3, <1>4, FS_Subset DEF Whole
  <2> QED BY <2>1, TotalSame, TotalOf
<1>8. Total(h, E) = Total(f, D) + lot.shares
  <2>1. n \in E /\ E \ {n} = D
    BY <1>1
  <2> HIDE DEF D, E
  <2>2. Total(h, E) = h[n] + Total(h, D)
    BY <1>6, <2>1
  <2>3. Total(h, D) = Total(f, D) /\ Total(f, D) \in Int
    BY <1>7
  <2> QED BY <1>2, <1>5, <2>2, <2>3
<1>9. Total(h, C) = Total(f, B) + IF lot.available > day THEN lot.shares ELSE 0
  <2>1. B \in SUBSET D /\ C \in SUBSET E
    OBVIOUS
  <2>2. Total(h, B) = Total(f, B) /\ Total(f, B) \in Int
    BY <1>7, <2>1
  <2>3. CASE lot.available > day
    <3>1. n \in C /\ C \ {n} = B
      BY <1>1, <2>3
    <3> HIDE DEF B, C, E
    <3>2. Total(h, C) = h[n] + Total(h, B)
      BY <1>6, <2>1, <3>1
    <3> QED BY <1>2, <1>5, <2>2, <2>3, <3>2
  <2>4. CASE ~(lot.available > day)
    <3>1. C = B
      BY <1>1, <2>4
    <3> HIDE DEF B, C
    <3> QED BY <2>2, <2>4, <3>1
  <2> QED BY <2>3, <2>4
<1> QED BY <1>1, <1>8, <1>9 DEF SharesIn, NotYet, f, h, more, n

\* What pop_available has still to take, and the lots it has left in place.
Takings == [left : Nat, lots : Seq(Lots)]

\* No lot is for sale later than tomorrow.
Soon(lots) == \A i \in DOMAIN lots : lots[i].available <= day + 1

\* One lot gives what is still wanted, if it may be sold.
LEMMA TakeIs ==
    ASSUME NEW acc \in Takings, NEW lot \in Lots, day \in Int
    PROVE  LET next == Take(acc, lot)
               n == IF lot.available > day THEN 0 ELSE Less(lot.shares, acc.left) IN
           /\ next \in Takings
           /\ next.left = acc.left - n
           /\ NotYet(next.lots, DOMAIN next.lots) =
                 NotYet(acc.lots, DOMAIN acc.lots) + IF lot.available > day THEN lot.shares ELSE 0
           /\ SharesIn(next.lots) = SharesIn(acc.lots) + lot.shares - n
           /\ Soon(acc.lots) /\ lot.available <= day + 1 => Soon(next.lots)
<1> DEFINE next == Take(acc, lot)
           n == IF lot.available > day THEN 0 ELSE Less(lot.shares, acc.left)
           rest == lot.shares - n
           part == [lot EXCEPT !.shares = rest]
<1>1. lot.shares \in Nat /\ lot.available \in Int
  BY DEF Lots
<1>2. acc.left \in Nat /\ acc.lots \in Seq(Lots)
  BY DEF Takings
<1>3. n \in Nat /\ rest \in Nat /\ acc.left - n \in Nat
  BY <1>1, <1>2 DEF Less
<1>4. part \in Lots /\ part.shares = rest /\ part.available = lot.available
  BY <1>3 DEF Lots
<1>5. next = [left |-> acc.left - n,
              lots |-> IF rest > 0 THEN Append(acc.lots, part) ELSE acc.lots]
  BY Zenon DEF Take
<1>6. lot.available > day => n = 0 /\ rest = lot.shares
  BY <1>1
<1>7. SharesIn(acc.lots) \in Int /\ NotYet(acc.lots, DOMAIN acc.lots) \in Int
  <2>1. DOMAIN acc.lots \in SUBSET DOMAIN acc.lots
    OBVIOUS
  <2>2. /\ NotYet(acc.lots, DOMAIN acc.lots) \in Nat /\ ForSale(acc.lots, DOMAIN acc.lots) \in Nat
        /\ SharesIn(acc.lots) = ForSale(acc.lots, DOMAIN acc.lots) + NotYet(acc.lots, DOMAIN acc.lots)
    BY <1>2, <2>1, LotsSplit DEF SharesIn
  <2> QED BY <2>2
<1> HIDE DEF next, n, rest, part
<1>8. next.left = acc.left - n /\ next.lots = IF rest > 0 THEN Append(acc.lots, part) ELSE acc.lots
  BY <1>5
<1>9. CASE rest > 0
  <2>1. next.lots = Append(acc.lots, part)
    BY <1>8, <1>9
  <2>2. /\ next.lots \in Seq(Lots)
        /\ DOMAIN next.lots = DOMAIN acc.lots \cup {Len(acc.lots) + 1}
        /\ \A i \in DOMAIN acc.lots : next.lots[i] = acc.lots[i]
        /\ next.lots[Len(acc.lots) + 1] = part
        /\ SharesIn(next.lots) = SharesIn(acc.lots) + part.shares
        /\ NotYet(next.lots, DOMAIN next.lots) =
              NotYet(acc.lots, DOMAIN acc.lots) + IF part.available > day THEN part.shares ELSE 0
    BY <1>2, <1>4, <2>1, LotAdds
  <2>3. next \in Takings
    BY <1>3, <1>5, <1>8, <2>2 DEF Takings
  <2>4. SharesIn(next.lots) = SharesIn(acc.lots) + lot.shares - n
    BY <1>1, <1>3, <1>4, <1>7, <2>2 DEF rest
  <2>5. NotYet(next.lots, DOMAIN next.lots) =
           NotYet(acc.lots, DOMAIN acc.lots) + IF lot.available > day THEN lot.shares ELSE 0
    BY <1>4, <1>6, <2>2
  <2>6. Soon(acc.lots) /\ lot.available <= day + 1 => Soon(next.lots)
    BY <1>4, <2>2 DEF Soon
  <2> QED BY <1>8, <2>3, <2>4, <2>5, <2>6 DEF next, n
<1>10. CASE ~(rest > 0)
  <2>1. next.lots = acc.lots
    BY <1>8, <1>10
  <2>2. next \in Takings
    BY <1>2, <1>3, <1>5, <1>8, <2>1 DEF Takings
  <2>3. lot.shares - n = 0 /\ lot.shares = n
    BY <1>1, <1>3, <1>10 DEF rest
  <2>4. SharesIn(next.lots) = SharesIn(acc.lots) + lot.shares - n
    BY <1>1, <1>3, <1>7, <2>1, <2>3
  <2>5. NotYet(next.lots, DOMAIN next.lots) =
           NotYet(acc.lots, DOMAIN acc.lots) + IF lot.available > day THEN lot.shares ELSE 0
    BY <1>1, <1>6, <1>7, <2>1, <2>3
  <2> QED BY <1>8, <2>1, <2>2, <2>4, <2>5 DEF next, n
<1> QED BY <1>9, <1>10

\* One step of pop_available over the positions s of the lots.
TakeStep(g, base, lots, s) ==
    IF s = {} THEN base ELSE Take(g[s \ {Max(s)}], lots[Max(s)])

\* g takes from the lots of every set of positions.
Takes(g, base, lots) == g = [s \in SUBSET DOMAIN lots |-> TakeStep(g, base, lots, s)]

\* pop_available applies the function that its fold chooses.
LEMMA TakesAreChosen ==
    ASSUME NEW base, NEW lots
    PROVE  FoldLeft(Take, base, lots) = (CHOOSE g : Takes(g, base, lots))[DOMAIN lots]
  BY Zenon DEF FoldLeft, MapThenFoldSet, Takes, TakeStep

\* There is such a function.
LEMMA TakesExist ==
    ASSUME NEW base \in Takings, NEW lots \in Seq(Lots), day \in Int
    PROVE  \E g \in [SUBSET DOMAIN lots -> Takings] : Takes(g, base, lots)
<1> DEFINE P == DOMAIN lots
           pick == [s \in SUBSET P |-> Max(s)]
           op == [p \in P \X Takings |-> Take(p[2], lots[p[1]])]
<1>1. IsFiniteSet(P)
  BY PositionsKnown
<1>2. \A s \in SUBSET P : pick[s] = Max(s) /\ (s # {} => pick[s] \in s)
  BY PositionsKnown
<1>3. \A i \in P, u \in Takings : op[<<i, u>>] = Take(u, lots[i])
  OBVIOUS
<1> HIDE DEF pick, op
<1>4. \A i \in P, u \in Takings : op[<<i, u>>] \in Takings
  <2> SUFFICES ASSUME NEW i \in P, NEW u \in Takings PROVE op[<<i, u>>] \in Takings
    OBVIOUS
  <2>1. lots[i] \in Lots
    OBVIOUS
  <2>2. Take(u, lots[i]) \in Takings
    BY <2>1, TakeIs
  <2> QED BY <1>3, <2>2
<1> HIDE DEF P
<1>5. Foldable(P, Takings, op, pick)
  BY <1>2, <1>4, Zenon DEF Foldable
<1>6. PICK g \in [SUBSET P -> Takings] : Folds(g, op, base, pick, P)
  BY <1>1, <1>5, FoldExists
<1>7. \A s \in SUBSET P : g[s] = FoldStep(g, op, base, pick, s)
  BY <1>6, Zenon DEF Folds
<1>8. ASSUME NEW s \in SUBSET P PROVE g[s] = TakeStep(g, base, lots, s)
  <2>1. CASE s = {}
    BY <1>7, <2>1 DEF FoldStep, TakeStep
  <2>2. CASE s # {}
    <3>1. pick[s] \in P /\ s \ {pick[s]} \in SUBSET P
      BY <1>2, <2>2
    <3>2. g[s] = op[<<pick[s], g[s \ {pick[s]}]>>]
      BY <1>7, <2>2 DEF FoldStep
    <3>3. g[s] = Take(g[s \ {pick[s]}], lots[pick[s]])
      BY <1>3, <3>1, <3>2
    <3> QED BY <1>2, <2>2, <3>3 DEF TakeStep
  <2> QED BY <2>1, <2>2
<1>9. g = [s \in SUBSET P |-> TakeStep(g, base, lots, s)]
  BY <1>8
<1> QED BY <1>9 DEF Takes, P

\* What has been taken from the lots in I, of a wish for so many shares.
Taken(acc, lots, I, shares) ==
    /\ acc \in Takings
    /\ acc.left = shares - Less(ForSale(lots, I), shares)
    /\ NotYet(acc.lots, DOMAIN acc.lots) = NotYet(lots, I)
    /\ SharesIn(acc.lots) = Total(SharesOf(lots), I) - Less(ForSale(lots, I), shares)
    /\ Soon(acc.lots)

\* Another lot.
LEMMA TakenOne ==
    ASSUME NEW lots \in Seq(Lots), day \in Int, Soon(lots), NEW shares \in Nat,
           NEW I \in SUBSET DOMAIN lots, NEW i \in I, NEW acc, Taken(acc, lots, I \ {i}, shares)
    PROVE  Taken(Take(acc, lots[i]), lots, I, shares)
<1> DEFINE next == Take(acc, lots[i])
           n == IF lots[i].available > day THEN 0 ELSE Less(lots[i].shares, acc.left)
           A == ForSale(lots, I)
           B == ForSale(lots, I \ {i})
<1>1. /\ acc \in Takings
      /\ acc.left = shares - Less(B, shares)
      /\ NotYet(acc.lots, DOMAIN acc.lots) = NotYet(lots, I \ {i})
      /\ SharesIn(acc.lots) = Total(SharesOf(lots), I \ {i}) - Less(B, shares)
      /\ Soon(acc.lots)
  BY Zenon DEF Taken
<1>2. lots[i] \in Lots /\ lots[i].available <= day + 1
  BY DEF Soon
<1>3. /\ next \in Takings
      /\ next.left = acc.left - n
      /\ NotYet(next.lots, DOMAIN next.lots) = NotYet(acc.lots, DOMAIN acc.lots)
            + IF lots[i].available > day THEN lots[i].shares ELSE 0
      /\ SharesIn(next.lots) = SharesIn(acc.lots) + lots[i].shares - n
      /\ Soon(next.lots)
  BY <1>1, <1>2, TakeIs
<1>4. lots[i].shares \in Nat
  BY <1>2 DEF Lots
<1>5. I \ {i} \in SUBSET DOMAIN lots
  OBVIOUS
<1>6. /\ B \in Nat /\ A \in Nat
      /\ NotYet(lots, I \ {i}) \in Int /\ Total(SharesOf(lots), I \ {i}) \in Int
  BY <1>5, LotsSplit
<1>7. Total(SharesOf(lots), I) = Total(SharesOf(lots), I \ {i}) + lots[i].shares
  BY LotIn
<1>8. CASE lots[i].available > day
  <2>1. A = B /\ NotYet(lots, I) = NotYet(lots, I \ {i}) + lots[i].shares
    BY <1>8, LotIn
  <2>2. n = 0
    BY <1>8
  <2> HIDE DEF A, B, n, next
  <2>3. next.left = shares - Less(A, shares)
    BY <1>1, <1>3, <1>6, <2>1, <2>2 DEF Less
  <2>4. NotYet(next.lots, DOMAIN next.lots) = NotYet(lots, I)
    BY <1>1, <1>3, <1>8, <2>1
  <2>5. SharesIn(next.lots) = Total(SharesOf(lots), I) - Less(A, shares)
    BY <1>1, <1>3, <1>4, <1>6, <1>7, <2>1, <2>2 DEF Less
  <2> QED BY <1>3, <2>3, <2>4, <2>5 DEF Taken, A, next
<1>9. CASE ~(lots[i].available > day)
  <2>1. A = B + lots[i].shares /\ NotYet(lots, I) = NotYet(lots, I \ {i})
    BY <1>9, LotIn
  <2>2. n = Less(lots[i].shares, acc.left)
    BY <1>9
  <2> HIDE DEF A, B, n, next
  <2>3. Less(A, shares) = Less(B, shares) + n
    BY <1>1, <1>4, <1>6, <2>1, <2>2 DEF Less
  <2>4. n \in Int /\ Less(B, shares) \in Int
    BY <1>1, <1>4, <1>6, <2>2 DEF Less
  <2>5. next.left = shares - Less(A, shares)
    BY <1>1, <1>3, <1>6, <2>3, <2>4
  <2>6. NotYet(next.lots, DOMAIN next.lots) = NotYet(lots, I)
    BY <1>1, <1>3, <1>6, <1>9, <2>1
  <2>7. SharesIn(next.lots) = Total(SharesOf(lots), I) - Less(A, shares)
    BY <1>1, <1>3, <1>4, <1>6, <1>7, <2>3, <2>4
  <2> QED BY <1>3, <2>5, <2>6, <2>7 DEF Taken, A, next
<1> QED BY <1>8, <1>9

\* pop_available takes what it was asked for from the lots that may be sold,
\* as far as they reach, and leaves the others as they are.
LEMMA PoppedTaken ==
    ASSUME NEW lots \in Seq(Lots), day \in Int, Soon(lots), NEW shares \in Nat,
           NEW base, base = [left |-> shares, lots |-> <<>>]
    PROVE  Taken(FoldLeft(Take, base, lots), lots, DOMAIN lots, shares)
<1> DEFINE P == DOMAIN lots
           c == CHOOSE g : Takes(g, base, lots)
<1>1. base \in Takings
  BY DEF Takings
<1>2. Takes(c, base, lots)
  <2>1. \E g : Takes(g, base, lots)
    BY <1>1, TakesExist
  <2> QED BY <2>1
<1>3. FoldLeft(Take, base, lots) = c[P]
  BY TakesAreChosen
<1> HIDE DEF c
<1>4. \A s \in SUBSET P : c[s] = TakeStep(c, base, lots, s)
  BY <1>2, Zenon DEF Takes
<1> DEFINE G == {s \in SUBSET P : Taken(c[s], lots, s, shares)}
<1>5. {} \in G
  <2>1. c[{}] = base
    BY <1>4 DEF TakeStep
  <2>2. base.lots = <<>> /\ base.left = shares
    OBVIOUS
  <2>3. ForSale(lots, {}) = 0 /\ NotYet(lots, {}) = 0 /\ Total(SharesOf(lots), {}) = 0
    BY NoLots
  <2>4. <<>> \in Seq(Lots) /\ DOMAIN <<>> = {}
    OBVIOUS
  <2>5. NotYet(<<>>, {}) = 0 /\ Total(SharesOf(<<>>), {}) = 0
    BY <2>4, NoLots
  <2>6. SharesIn(<<>>) = 0 /\ Soon(<<>>)
    BY <2>4, <2>5 DEF SharesIn, Soon
  <2>7. Less(0, shares) = 0 /\ shares - 0 = shares
    BY DEF Less
  <2>8. Taken(base, lots, {}, shares)
    BY <1>1, <2>2, <2>3, <2>4, <2>5, <2>6, <2>7 DEF Taken
  <2> QED BY <2>1, <2>8
<1>6. ASSUME NEW s \in SUBSET P, s # {} PROVE \E x \in s : (s \ {x} \in G => s \in G)
  <2>1. Max(s) \in s
    BY <1>6, PositionsKnown
  <2>2. ASSUME s \ {Max(s)} \in G PROVE s \in G
    <3>1. Taken(c[s \ {Max(s)}], lots, s \ {Max(s)}, shares)
      BY <2>2
    <3>2. Taken(Take(c[s \ {Max(s)}], lots[Max(s)]), lots, s, shares)
      BY <2>1, <3>1, TakenOne
    <3>3. c[s] = Take(c[s \ {Max(s)}], lots[Max(s)])
      BY <1>4, <1>6 DEF TakeStep
    <3> QED BY <3>2, <3>3
  <2> QED BY <2>1, <2>2
<1>7. IsFiniteSet(P)
  BY PositionsKnown
<1>8. P \in G
  <2>1. \A s \in SUBSET P : s \in G
    <3> HIDE DEF G, P
    <3> QED BY <1>5, <1>6, <1>7, SetInduction
  <2> QED BY <2>1
<1> QED BY <1>3, <1>8

\* What selling leaves of a symbol's lots.
LEMMA PoppedIs ==
    ASSUME NEW s \in Symbols, book[s] \in Seq(Lots), day \in Int, Soon(book[s]),
           NEW n \in Nat, n <= AvailableShares(s)
    PROVE  /\ Popped(s, n) \in Seq(Lots) /\ Soon(Popped(s, n))
           /\ SharesIn(Popped(s, n)) = Shares(s) - n
           /\ NotYet(Popped(s, n), DOMAIN Popped(s, n)) = NotYet(book[s], DOMAIN book[s])
<1> DEFINE base == [left |-> n, lots |-> <<>>]
           lots == book[s]
           acc == FoldLeft(Take, base, lots)
<1>1. Taken(acc, lots, DOMAIN lots, n)
  BY PoppedTaken
<1>2. AvailableShares(s) = ForSale(lots, DOMAIN lots)
  BY Zenon DEF AvailableShares, ForSale
<1>3. ForSale(lots, DOMAIN lots) \in Nat
  BY LotsSplit
<1>4. Less(ForSale(lots, DOMAIN lots), n) = n
  BY <1>2, <1>3 DEF Less
<1>5. Popped(s, n) = acc.lots
  BY Zenon DEF Popped
<1> HIDE DEF acc
<1>6. /\ acc \in Takings
      /\ NotYet(acc.lots, DOMAIN acc.lots) = NotYet(lots, DOMAIN lots)
      /\ SharesIn(acc.lots) = Total(SharesOf(lots), DOMAIN lots) - n
      /\ Soon(acc.lots)
  BY <1>1, <1>4, Zenon DEF Taken
<1>7. acc.lots \in Seq(Lots)
  BY <1>6 DEF Takings
<1> QED BY <1>5, <1>6, <1>7 DEF Shares, SharesIn
----------------------------------------------------------------------------
(* The names of a rebalance.                                               *)

\* A set of symbols put in sequence.
LEMMA SequenceIn ==
    ASSUME NEW S \in SUBSET Symbols, NEW q \in [1 .. Cardinality(S) -> S]
    PROVE  q \in Seq(Symbols) /\ \A i \in DOMAIN q : q[i] \in S
<1>1. Cardinality(S) \in Nat
  BY BacktestAssumption, OneLess DEF BacktestAssumption
<1>2. q \in [1 .. Cardinality(S) -> Symbols]
  OBVIOUS
<1> QED BY <1>1, <1>2

LEMMA SetToSeqIn ==
    ASSUME NEW S \in SUBSET Symbols
    PROVE  SetToSeq(S) \in Seq(Symbols)
<1>1. IsFiniteSet(S)
  BY BacktestAssumption, FS_Subset DEF BacktestAssumption
<1>2. ExistsBijection(1 .. Cardinality(S), S)
  BY <1>1, FS_CardinalityType
<1>3. \E f \in [1 .. Cardinality(S) -> S] : IsInjective(f)
  BY <1>2, Zenon DEF ExistsBijection, Bijection, Injection
<1>4. SetToSeq(S) \in [1 .. Cardinality(S) -> S]
  BY <1>3, Zenon DEF SetToSeq
<1> QED BY <1>4, SequenceIn

\* q has every name of S at one of its places, the better ones first.
InOrder(q, S, b) ==
    /\ q \in [1 .. Cardinality(S) -> S]
    /\ \A i, j \in 1 .. Cardinality(S) : i < j => Outranks(b, q[i], q[j])

\* Names can be put in the order of their scores.
LEMMA OrderExists ==
    ASSUME NEW b, \A s \in Symbols : b[s].score \in Int
    PROVE  \A S \in SUBSET Symbols : \E q : InOrder(q, S, b)
<1> DEFINE R == {p \in Symbols \X Symbols : Outranks(b, p[1], p[2])}
           Ordered(S) == \E q : InOrder(q, S, b)
           G == {S \in SUBSET Symbols : Ordered(S)}
<1>1. /\ IsFiniteSet(Symbols)
      /\ \A s \in Symbols : Position[s] \in Int
      /\ \A s, r \in Symbols : s # r => Position[s] # Position[r]
  BY BacktestAssumption, Zenon DEF BacktestAssumption
<1>2. \A x, y \in Symbols : <<x, y>> \in R <=> Outranks(b, x, y)
  OBVIOUS
<1>3. \A x, y \in Symbols : x # y => <<x, y>> \in R \/ <<y, x>> \in R
  BY <1>1, <1>2 DEF Outranks
<1>4. \A x, y, z \in Symbols : <<x, y>> \in R /\ <<y, z>> \in R => <<x, z>> \in R
  BY <1>1, <1>2 DEF Outranks
<1> HIDE DEF R
<1>5. \A s \in SUBSET Symbols : s # {} => \E m \in s : \A x \in s \ {m} : <<x, m>> \in R
  BY <1>1, <1>3, <1>4, LastExists
<1>6. {} \in G
  <2> DEFINE none == {}
  <2>1. Cardinality(none) = 0
    BY FS_EmptySet
  <2>2. 1 .. Cardinality(none) = {}
    BY <2>1
  <2>3. InOrder(<<>>, none, b)
    BY <2>2 DEF InOrder
  <2> QED BY <2>3
<1>7. ASSUME NEW S \in SUBSET Symbols, S # {}
      PROVE  \E x \in S : (S \ {x} \in G => S \in G)
  <2>1. PICK m \in S : \A x \in S \ {m} : <<x, m>> \in R
    BY <1>5, <1>7
  <2>2. ASSUME Ordered(S \ {m}) PROVE Ordered(S)
    <3> DEFINE T == S \ {m}
               n == Cardinality(S)
    <3>1. PICK q : InOrder(q, T, b)
      BY <2>2
    <3>2. n \in Nat /\ Cardinality(T) = n - 1 /\ n - 1 \in Nat
      BY <1>1, OneLess
    <3>3. /\ q \in [1 .. n - 1 -> T]
          /\ \A i, j \in 1 .. n - 1 : i < j => Outranks(b, q[i], q[j])
      BY <3>1, <3>2 DEF InOrder
    <3> HIDE DEF n
    <3> DEFINE h == [i \in 1 .. n |-> IF i = n THEN m ELSE q[i]]
    <3>4. \A i \in 1 .. n : i # n => i \in 1 .. n - 1
      BY <3>2
    <3>5. h \in [1 .. n -> S]
      BY <3>3, <3>4
    <3>6. ASSUME NEW i \in 1 .. n, NEW j \in 1 .. n, i < j
          PROVE  Outranks(b, h[i], h[j])
      <4>1. i # n
        BY <3>2, <3>6
      <4>2. h[i] = q[i] /\ q[i] \in T /\ i \in 1 .. n - 1
        BY <3>3, <3>4, <4>1
      <4>3. CASE j = n
        <5>1. h[j] = m
          BY <4>3
        <5>2. Outranks(b, q[i], m)
          BY <1>2, <2>1, <4>2
        <5> QED BY <4>2, <5>1, <5>2
      <4>4. CASE j # n
        <5>1. h[j] = q[j] /\ j \in 1 .. n - 1
          BY <3>4, <4>4
        <5> QED BY <3>3, <3>6, <4>2, <5>1
      <4> QED BY <4>3, <4>4
    <3> HIDE DEF h
    <3>7. InOrder(h, S, b)
      BY <3>5, <3>6 DEF InOrder, n
    <3> QED BY <3>7
  <2> HIDE DEF Ordered
  <2> QED BY <2>2
<1>8. \A S \in SUBSET Symbols : S \in G
  <2> HIDE DEF G
  <2> QED BY <1>1, <1>6, <1>7, SetInduction
<1> QED BY <1>8

\* The best of a set of names are of the set.
LEMMA TopIn ==
    ASSUME NEW b, \A s \in Symbols : b[s].score \in Int, NEW S \in SUBSET Symbols
    PROVE  /\ Top(ByScore(S, b)) \in Seq(Symbols)
           /\ \A i \in DOMAIN Top(ByScore(S, b)) : Top(ByScore(S, b))[i] \in S
<1> DEFINE q == ByScore(S, b)
           k == Less(TopK, Len(q))
<1>1. \E r : InOrder(r, S, b)
  BY OrderExists
<1>2. \E r \in [1 .. Cardinality(S) -> S] :
         \A i, j \in 1 .. Cardinality(S) : i < j => Outranks(b, r[i], r[j])
  BY <1>1, Zenon DEF InOrder
<1>3. q \in [1 .. Cardinality(S) -> S]
  BY <1>2, Zenon DEF ByScore
<1> HIDE DEF q
<1>4. q \in Seq(Symbols) /\ \A i \in DOMAIN q : q[i] \in S
  BY <1>3, SequenceIn
<1>5. TopK \in Nat
  BY BacktestAssumption DEF BacktestAssumption
<1>6. k \in Nat /\ k <= Len(q)
  BY <1>4, <1>5 DEF Less
<1>7. Top(q) = SubSeq(q, 1, k)
  BY Zenon DEF Top
<1> HIDE DEF k
<1>8. SubSeq(q, 1, k) \in Seq(Symbols) /\ \A i \in DOMAIN SubSeq(q, 1, k) : SubSeq(q, 1, k)[i] \in S
  BY <1>4, <1>6
<1> QED BY <1>7, <1>8 DEF q

\* The target names of a rebalance trade.
LEMMA RankedIn ==
    ASSUME \A s \in Symbols : bar[s].score \in Int
    PROVE  Ranked \in Seq(Symbols) /\ \A i \in DOMAIN Ranked : Trading(Ranked[i])
<1> DEFINE E == Eligible(bar)
           F == {s \in Eligible(bar) : Reachable(s)}
<1>1. E \in SUBSET Symbols /\ F \in SUBSET Symbols /\ \A s \in E : Trading(s)
  BY DEF Eligible, Trading
<1>2. \A s \in F : Trading(s)
  BY <1>1
<1>3. Ranked = Top(ByScore(E, bar)) \/ Ranked = Top(ByScore(F, bar))
  BY Zenon DEF Ranked, Best
<1> HIDE DEF E, F
<1>4. /\ Top(ByScore(E, bar)) \in Seq(Symbols)
      /\ \A i \in DOMAIN Top(ByScore(E, bar)) : Top(ByScore(E, bar))[i] \in E
  BY <1>1, TopIn
<1>5. /\ Top(ByScore(F, bar)) \in Seq(Symbols)
      /\ \A i \in DOMAIN Top(ByScore(F, bar)) : Top(ByScore(F, bar))[i] \in F
  BY <1>1, TopIn
<1> QED BY <1>1, <1>2, <1>3, <1>4, <1>5
----------------------------------------------------------------------------
(* Money.                                                                  *)

\* A quotient is whole.
LEMMA QuotientWhole ==
    ASSUME NEW a \in Int, NEW d \in Nat \ {0}
    PROVE  a \div d \in Int /\ (a >= 0 => a \div d >= 0)
<1>1. d \in Int /\ d > 0
  OBVIOUS
<1>2. a \div d \in Int
  BY <1>1
<1>3. ASSUME a >= 0 PROVE a \div d >= 0
  BY <1>1, <1>3
<1> QED BY <1>2, <1>3

\* A cost is whole.
LEMMA CostWhole ==
    ASSUME NEW value \in Int, NEW side
    PROVE  CostOf(value, side) \in Int
<1>1. /\ CommissionMin \in Nat /\ CommissionPer \in Nat \ {0}
      /\ StampPer \in Nat \ {0} /\ SlippagePer \in Nat \ {0}
  BY BacktestAssumption DEF BacktestAssumption
<1>2. /\ value \div CommissionPer \in Int /\ value \div StampPer \in Int
      /\ value \div SlippagePer \in Int
  BY <1>1, QuotientWhole
<1> QED BY <1>1, <1>2 DEF CostOf, More

\* A purchase is of a whole number of shares that the cash pays for.
LEMMA BuySharesPaid ==
    ASSUME cash \in Int, NEW value \in Int, NEW price \in Nat \ {0}
    PROVE  /\ BuyShares(value, price) \in Nat
           /\ BuyShares(value, price) # 0 =>
                 BuyShares(value, price) * price + CostOf(BuyShares(value, price) * price, "buy") <= cash
<1> DEFINE wanted == Less(value, cash)
           fitted == Fit(Fit(wanted))
           first == RoundLots(fitted \div price)
           cost == CostOf(first * price, "buy")
           room == More(cash - cost, 0)
           second == RoundLots(room \div price)
           n == BuyShares(value, price)
<1>1. Lot \in Nat \ {0}
  BY BacktestAssumption DEF BacktestAssumption
<1>2. wanted \in Int
  BY DEF Less
<1>3. ASSUME NEW v \in Int PROVE Fit(v) \in Int
  <2>1. CostOf(v, "buy") \in Int
    BY CostWhole
  <2> QED BY <2>1 DEF Fit, More
<1>4. fitted \in Int
  BY <1>2, <1>3
<1>5. ASSUME NEW v \in Int, v >= 0 PROVE RoundLots(v \div price) \in Nat
  <2>1. v \div price \in Int /\ v \div price >= 0
    BY <1>5, QuotientWhole
  <2> DEFINE k == (v \div price) \div Lot
  <2>2. k \in Int /\ k >= 0
    BY <1>1, <2>1, QuotientWhole
  <2>3. RoundLots(v \div price) = k * Lot
    BY DEF RoundLots
  <2> HIDE DEF k
  <2> QED BY <1>1, <2>2, <2>3
<1>6. \/ n = 0
      \/ fitted > MinTrade /\ n = first /\ n * price + CostOf(n * price, "buy") <= cash
      \/ fitted > MinTrade /\ n = second /\ n * price + CostOf(n * price, "buy") <= cash
  <2> HIDE DEF wanted, fitted, first, second
  <2>1. n = IF wanted <= MinTrade \/ fitted <= MinTrade THEN 0
            ELSE IF first * price <= MinTrade THEN 0
            ELSE IF first * price + CostOf(first * price, "buy") <= cash THEN first
            ELSE IF second * price + CostOf(second * price, "buy") <= cash THEN second
            ELSE 0
    BY Zenon DEF BuyShares, wanted, fitted, first, second
  <2> HIDE DEF n
  <2> DEFINE low == wanted <= MinTrade \/ fitted <= MinTrade
             tiny == first * price <= MinTrade
             paid1 == first * price + CostOf(first * price, "buy") <= cash
             paid2 == second * price + CostOf(second * price, "buy") <= cash
  <2>2. n = 0 \/ (~low /\ n = first /\ paid1) \/ (~low /\ n = second /\ paid2)
    <3> HIDE DEF low, tiny, paid1, paid2
    <3>1. n = IF low THEN 0 ELSE IF tiny THEN 0 ELSE IF paid1 THEN first ELSE IF paid2 THEN second ELSE 0
      BY <2>1 DEF low, tiny, paid1, paid2
    <3> QED BY <3>1
  <2>3. ~low => fitted > MinTrade
    BY <1>4 DEF MinTrade
  <2> QED BY <2>2, <2>3
<1> HIDE DEF n, wanted, fitted
<1>7. CASE fitted > MinTrade
  <2>1. fitted >= 0
    BY <1>4, <1>7 DEF MinTrade
  <2>2. first \in Nat
    BY <1>4, <1>5, <2>1
  <2> HIDE DEF first
  <2>3. first * price \in Int
    BY <2>2
  <2>4. room \in Int /\ room >= 0
    BY <2>3, CostWhole DEF More
  <2> HIDE DEF room
  <2>5. second \in Nat
    BY <1>5, <2>4
  <2> QED BY <1>6, <2>2, <2>5 DEF n
<1>8. CASE ~(fitted > MinTrade)
  BY <1>6, <1>8 DEF n
<1> QED BY <1>7, <1>8

\* Marks, values and equity are whole.
LEMMA ValuesWhole ==
    ASSUME BacktestTyped
    PROVE  /\ \A s \in Symbols : Shares(s) \in Nat /\ Value(s) \in Int /\ AvailableShares(s) \in Nat
           /\ Equity \in Int
<1>1. /\ day \in Int /\ cash \in Int
      /\ \A s \in Symbols : book[s] \in Seq(Lots) /\ bar[s].price \in Int /\ lastClose[s] \in Int
  BY DEF BacktestTyped
<1>2. ASSUME NEW s \in Symbols
      PROVE  Shares(s) \in Nat /\ Value(s) \in Int /\ AvailableShares(s) \in Nat
  <2> DEFINE D == DOMAIN book[s]
  <2>1. /\ ForSale(book[s], D) \in Nat /\ NotYet(book[s], D) \in Nat
        /\ Total(SharesOf(book[s]), D) = ForSale(book[s], D) + NotYet(book[s], D)
    BY <1>1, LotsSplit
  <2>2. AvailableShares(s) = ForSale(book[s], D) /\ Shares(s) = Total(SharesOf(book[s]), D)
    BY Zenon DEF AvailableShares, ForSale, Shares, SharesIn
  <2> HIDE DEF D
  <2>3. MarkPrice(s) \in Int
    BY <1>1 DEF MarkPrice
  <2> QED BY <2>1, <2>2, <2>3 DEF Value
<1> DEFINE f == [s \in Symbols |-> Value(s)]
<1>3. Whole(f, Symbols) /\ IsFiniteSet(Symbols)
  BY <1>2, BacktestAssumption DEF Whole, BacktestAssumption
<1> HIDE DEF f
<1>4. Total(f, Symbols) \in Int
  BY <1>3, TotalOf
<1> QED BY <1>1, <1>2, <1>4 DEF Equity, f
----------------------------------------------------------------------------
(* The trade log of a symbol.                                              *)

\* The days.
TradeDays == 0 .. Days - 1

SoldOf(log) == [e \in DOMAIN log |-> log[e].sold]

BoughtOf(log) == [e \in DOMAIN log |-> log[e].bought]

\* The total up to a day: the day's own amount is the last.
LEMMA UpTo ==
    ASSUME NEW f \in [TradeDays -> Nat]
    PROVE  /\ \A d \in -1 .. Days - 1 : Total(f, 0 .. d) \in Int
           /\ \A d \in TradeDays : Total(f, 0 .. d) = Total(f, 0 .. d - 1) + f[d]
<1>1. Days \in Nat \ {0}
  BY BacktestAssumption DEF BacktestAssumption
<1>2. ASSUME NEW d \in -1 .. Days - 1
      PROVE  /\ IsFiniteSet(0 .. d) /\ Whole(f, 0 .. d)
             /\ Total(f, 0 .. d) \in Int
  <2>1. IsFiniteSet(0 .. d)
    BY FS_Interval
  <2>2. 0 .. d \subseteq TradeDays
    BY <1>1 DEF TradeDays
  <2>3. Whole(f, 0 .. d)
    BY <2>2 DEF Whole
  <2> QED BY <2>1, <2>3, TotalOf
<1>3. ASSUME NEW d \in TradeDays
      PROVE  Total(f, 0 .. d) = Total(f, 0 .. d - 1) + f[d]
  <2>1. d \in 0 .. d /\ d \in -1 .. Days - 1 /\ (0 .. d) \ {d} = 0 .. d - 1 /\ d - 1 \in -1 .. Days - 1
    BY <1>1 DEF TradeDays
  <2> DEFINE S == 0 .. d
  <2>2. IsFiniteSet(S) /\ Whole(f, S) /\ d \in S
    BY <1>2, <2>1
  <2>3. S \ {d} = 0 .. d - 1
    BY <2>1
  <2> HIDE DEF S
  <2>4. Total(f, S) = f[d] + Total(f, S \ {d}) /\ f[d] \in Int /\ Total(f, S \ {d}) \in Int
    BY <2>2, TotalOf
  <2>5. Total(f, S \ {d}) = Total(f, 0 .. d - 1)
    BY <2>3, Zenon
  <2> DEFINE rest == Total(f, S \ {d})
  <2>6. Total(f, S) = f[d] + rest /\ f[d] \in Int /\ rest \in Int
    BY <2>4, Zenon
  <2> HIDE DEF rest
  <2>7. Total(f, S) = rest + f[d]
    BY <2>6
  <2>8. rest = Total(f, 0 .. d - 1)
    BY <2>5 DEF rest
  <2> QED BY <2>7, <2>8 DEF S
<1> QED BY <1>2, <1>3

\* Days without amounts add nothing.
LEMMA QuietAfter ==
    ASSUME NEW f \in [TradeDays -> Nat], NEW k \in TradeDays, \A e \in TradeDays : e > k => f[e] = 0
    PROVE  Total(f, 0 .. Days - 1) = Total(f, 0 .. k)
<1>1. Days \in Nat \ {0}
  BY BacktestAssumption DEF BacktestAssumption
<1> DEFINE S == 0 .. Days - 1
           T == 0 .. k
<1>2. /\ IsFiniteSet(S) /\ T \in SUBSET S
      /\ \A x \in S : f[x] \in Int
      /\ \A x \in S \ T : f[x] = 0
  <2>1. IsFiniteSet(S)
    BY <1>1, FS_Interval
  <2>2. k \in Nat /\ k <= Days - 1
    BY <1>1 DEF TradeDays
  <2>3. \A x \in S : f[x] \in Int /\ (x \notin T => f[x] = 0)
    BY <1>1, <2>2 DEF TradeDays
  <2>4. T \in SUBSET S
    BY <1>1, <2>2
  <2> QED BY <2>1, <2>3, <2>4
<1>3. Whole(f, S)
  BY <1>2 DEF Whole
<1> HIDE DEF S, T
<1>4. Total(f, S) = Total(f, T)
  BY <1>2, <1>3, TotalOutside
<1> QED BY <1>4 DEF S, T

\* On day k, g has n more than f.
Adds(f, g, k, n) == g[k] = f[k] + n /\ \A e \in TradeDays : e # k => g[e] = f[e]

\* What is added on a day counts from that day on.
LEMMA AddedOn ==
    ASSUME NEW f \in [TradeDays -> Nat], NEW k \in TradeDays, NEW n \in Nat,
           NEW g \in [TradeDays -> Nat], Adds(f, g, k, n)
    PROVE  \A d \in -1 .. Days - 1 :
              Total(g, 0 .. d) = Total(f, 0 .. d) + IF k <= d THEN n ELSE 0
<1>1. Days \in Nat \ {0}
  BY BacktestAssumption DEF BacktestAssumption
<1> SUFFICES ASSUME NEW d \in -1 .. Days - 1
             PROVE  Total(g, 0 .. d) = Total(f, 0 .. d) + IF k <= d THEN n ELSE 0
  OBVIOUS
<1> DEFINE S == 0 .. d
<1>2. /\ IsFiniteSet(S)
      /\ \A x \in S : f[x] \in Nat /\ g[x] \in Nat /\ (x # k => g[x] = f[x])
      /\ k <= d => k \in S
      /\ ~(k <= d) => k \notin S
  <2>1. IsFiniteSet(S)
    BY <1>1, FS_Interval
  <2>2. \A x \in S : x \in TradeDays /\ f[x] \in Nat /\ g[x] \in Nat /\ (x # k => g[x] = f[x])
    <3>1. \A x \in S : x \in TradeDays
      BY <1>1 DEF TradeDays
    <3> HIDE DEF S
    <3> QED BY <3>1 DEF Adds
  <2>3. /\ k <= d => k \in S
        /\ ~(k <= d) => k \notin S
    BY <1>1 DEF TradeDays
  <2> HIDE DEF S
  <2> QED BY <2>1, <2>2, <2>3
<1>3. Whole(f, S) /\ Whole(g, S)
  BY <1>2 DEF Whole
<1>4. f[k] \in Nat /\ g[k] \in Nat
  OBVIOUS
<1> HIDE DEF S
<1>5. Total(f, S) \in Int
  BY <1>2, <1>3, TotalOf
<1>6. CASE k <= d
  <2>1. Total(g, S) = Total(f, S) - f[k] + g[k]
    BY <1>2, <1>3, <1>6, TotalChanged
  <2>2. Total(g, S) = Total(f, S) + n
    BY <1>4, <1>5, <2>1 DEF Adds
  <2> QED BY <1>6, <2>2 DEF S
<1>7. CASE ~(k <= d)
  <2>1. \A x \in S : f[x] = g[x]
    BY <1>2, <1>7
  <2>2. Total(f, S) = Total(g, S)
    BY <1>2, <1>3, <2>1, TotalSame
  <2>3. Total(g, S) = Total(f, S) + 0
    BY <1>5, <2>2
  <2> QED BY <1>7, <2>3 DEF S
<1> QED BY <1>6, <1>7

\* The lots and the log of a symbol on day k: the log explains the lots, no
\* share was sold on the day it was bought, and the lots that may not be
\* sold yet are those of today's purchases.
Settled(lots, log) ==
    /\ SharesIn(lots) = Total(BoughtOf(log), TradeDays) - Total(SoldOf(log), TradeDays)
    /\ \A d \in TradeDays :
           log[d].sold > 0 => Total(SoldOf(log), 0 .. d) <= Total(BoughtOf(log), 0 .. d - 1)

LotsOfToday(lots, log, k) ==
    /\ \A i \in DOMAIN lots : lots[i].available <= k + 1
    /\ \A d \in TradeDays : d > k => log[d].bought = 0 /\ log[d].sold = 0
    /\ k < Days => Total(SharesOf(lots), {i \in DOMAIN lots : lots[i].available > k}) = log[k].bought

Account(lots, log, k) ==
    /\ lots \in Seq(Lots) /\ log \in [TradeDays -> DayTrades]
    /\ Settled(lots, log) /\ LotsOfToday(lots, log, k)

\* A log's amounts.
LEMMA LogIs ==
    ASSUME NEW log \in [TradeDays -> DayTrades]
    PROVE  /\ BoughtOf(log) \in [TradeDays -> Nat] /\ SoldOf(log) \in [TradeDays -> Nat]
           /\ \A d \in TradeDays : /\ BoughtOf(log)[d] = log[d].bought /\ SoldOf(log)[d] = log[d].sold
                                   /\ log[d].bought \in Nat /\ log[d].sold \in Nat
<1>1. \A d \in TradeDays : log[d].bought \in Nat /\ log[d].sold \in Nat
  BY DEF DayTrades
<1> QED BY <1>1 DEF BoughtOf, SoldOf

\* The totals of a log up to a day are whole.
LEMMA LogTotals ==
    ASSUME NEW log \in [TradeDays -> DayTrades]
    PROVE  \A d \in -1 .. Days - 1 : Total(BoughtOf(log), 0 .. d) \in Int /\ Total(SoldOf(log), 0 .. d) \in Int
  BY LogIs, UpTo

\* What is for sale was bought before today and is not sold yet.
LEMMA ForSaleIs ==
    ASSUME day \in TradeDays, NEW lots, NEW log, Account(lots, log, day)
    PROVE  ForSale(lots, DOMAIN lots) = Total(BoughtOf(log), 0 .. day - 1) - Total(SoldOf(log), 0 .. day)
<1> DEFINE b == BoughtOf(log)
           f == SoldOf(log)
<1>1. /\ lots \in Seq(Lots) /\ log \in [TradeDays -> DayTrades]
      /\ Settled(lots, log) /\ LotsOfToday(lots, log, day)
  BY Zenon DEF Account
<1>2. /\ b \in [TradeDays -> Nat] /\ f \in [TradeDays -> Nat]
      /\ \A d \in TradeDays : b[d] = log[d].bought /\ f[d] = log[d].sold
  BY <1>1, LogIs
<1>3. \A e \in TradeDays : e > day => b[e] = 0 /\ f[e] = 0
  BY <1>1, <1>2 DEF LotsOfToday
<1>4. SharesIn(lots) = Total(b, 0 .. Days - 1) - Total(f, 0 .. Days - 1)
  BY <1>1, Zenon DEF Settled, TradeDays
<1>5. day \in Int /\ day < Days /\ day \in -1 .. Days - 1 /\ day - 1 \in -1 .. Days - 1
  BY BacktestAssumption DEF BacktestAssumption, TradeDays
<1>6. NotYet(lots, DOMAIN lots) = b[day]
  <2>1. Total(SharesOf(lots), {i \in DOMAIN lots : lots[i].available > day}) = log[day].bought
    BY <1>1, <1>5 DEF LotsOfToday
  <2>2. NotYet(lots, DOMAIN lots) = log[day].bought
    BY <2>1, Zenon DEF NotYet
  <2> QED BY <1>2, <2>2
<1> HIDE DEF b, f
<1>7. Total(b, 0 .. Days - 1) = Total(b, 0 .. day) /\ Total(f, 0 .. Days - 1) = Total(f, 0 .. day)
  BY <1>2, <1>3, QuietAfter
<1>8. Total(b, 0 .. day) = Total(b, 0 .. day - 1) + b[day]
  BY <1>2, UpTo
<1>9. Total(b, 0 .. day - 1) \in Int /\ Total(f, 0 .. day) \in Int /\ b[day] \in Int
  BY <1>2, <1>5, UpTo
<1>10. /\ ForSale(lots, DOMAIN lots) \in Nat
       /\ SharesIn(lots) = ForSale(lots, DOMAIN lots) + NotYet(lots, DOMAIN lots)
  BY <1>1, <1>5, LotsSplit DEF SharesIn
<1>11. ForSale(lots, DOMAIN lots) = Total(b, 0 .. day - 1) - Total(f, 0 .. day)
  BY <1>4, <1>6, <1>7, <1>8, <1>9, <1>10
<1> QED BY <1>11 DEF b, f

\* Functions with the same values are the same.
LEMMA SameFunction ==
    ASSUME NEW S, NEW T, NEW f \in [S -> T], NEW g \in [S -> T], \A x \in S : f[x] = g[x]
    PROVE  f = g
  OBVIOUS

\* A sale, and a purchase, of n shares on day k.
Sale(log, next, k, n) == next = [log EXCEPT ![k].sold = @ + n]

Purchase(log, next, k, n) == next = [log EXCEPT ![k].bought = @ + n]

\* A sale in the log.
LEMMA SaleLogged ==
    ASSUME NEW log \in [TradeDays -> DayTrades], NEW k \in TradeDays, NEW n \in Nat,
           NEW next, Sale(log, next, k, n)
    PROVE  /\ next \in [TradeDays -> DayTrades]
           /\ next[k].sold = log[k].sold + n /\ next[k].bought = log[k].bought
           /\ \A d \in TradeDays : d # k => next[d] = log[d]
           /\ \A d \in -1 .. Days - 1 :
                 /\ Total(SoldOf(next), 0 .. d) = Total(SoldOf(log), 0 .. d) + IF k <= d THEN n ELSE 0
                 /\ Total(BoughtOf(next), 0 .. d) = Total(BoughtOf(log), 0 .. d)
<1>1. log[k].bought \in Nat /\ log[k].sold \in Nat
  BY LogIs
<1>2. PICK now : now = [log[k] EXCEPT !.sold = @ + n]
  OBVIOUS
<1>3. log[k] \in DayTrades
  OBVIOUS
<1>4. now \in DayTrades /\ now.sold = log[k].sold + n /\ now.bought = log[k].bought
  BY <1>1, <1>2, <1>3 DEF DayTrades
<1>5. next = [log EXCEPT ![k] = now]
  BY <1>2, Zenon DEF Sale
<1>6. /\ next \in [TradeDays -> DayTrades] /\ next[k] = now
      /\ \A d \in TradeDays : d # k => next[d] = log[d]
  BY <1>4, <1>5
<1> DEFINE f == SoldOf(log)
           g == SoldOf(next)
           b == BoughtOf(log)
           c == BoughtOf(next)
<1>7. /\ f \in [TradeDays -> Nat] /\ g \in [TradeDays -> Nat]
      /\ b \in [TradeDays -> Nat] /\ c \in [TradeDays -> Nat]
      /\ \A d \in TradeDays : /\ f[d] = log[d].sold /\ g[d] = next[d].sold
                              /\ b[d] = log[d].bought /\ c[d] = next[d].bought
  BY <1>6, LogIs
<1> HIDE DEF f, g, b, c
<1>8. Adds(f, g, k, n)
  BY <1>4, <1>6, <1>7 DEF Adds
<1>9. c = b
  <2>1. ASSUME NEW d \in TradeDays PROVE c[d] = b[d]
    <3>1. CASE d = k
      BY <1>4, <1>6, <1>7, <3>1
    <3>2. CASE d # k
      BY <1>6, <1>7, <3>2
    <3> QED BY <3>1, <3>2
  <2>2. c \in [TradeDays -> Nat] /\ b \in [TradeDays -> Nat]
    BY <1>7
  <2> QED BY <2>1, <2>2, SameFunction
<1>10. \A d \in -1 .. Days - 1 : Total(g, 0 .. d) = Total(f, 0 .. d) + IF k <= d THEN n ELSE 0
  <2>1. f \in [TradeDays -> Nat] /\ g \in [TradeDays -> Nat]
    BY <1>7
  <2> QED BY <1>8, <2>1, AddedOn, Zenon
<1>11. next[k].sold = log[k].sold + n /\ next[k].bought = log[k].bought
  BY <1>4, <1>6
<1> QED BY <1>6, <1>9, <1>10, <1>11 DEF f, g, b, c

\* A purchase in the log.
LEMMA PurchaseLogged ==
    ASSUME NEW log \in [TradeDays -> DayTrades], NEW k \in TradeDays, NEW n \in Nat,
           NEW next, Purchase(log, next, k, n)
    PROVE  /\ next \in [TradeDays -> DayTrades]
           /\ next[k].bought = log[k].bought + n /\ next[k].sold = log[k].sold
           /\ \A d \in TradeDays : d # k => next[d] = log[d]
           /\ \A d \in -1 .. Days - 1 :
                 /\ Total(BoughtOf(next), 0 .. d) = Total(BoughtOf(log), 0 .. d) + IF k <= d THEN n ELSE 0
                 /\ Total(SoldOf(next), 0 .. d) = Total(SoldOf(log), 0 .. d)
<1>1. log[k].bought \in Nat /\ log[k].sold \in Nat
  BY LogIs
<1>2. PICK now : now = [log[k] EXCEPT !.bought = @ + n]
  OBVIOUS
<1>3. log[k] \in DayTrades
  OBVIOUS
<1>4. now \in DayTrades /\ now.bought = log[k].bought + n /\ now.sold = log[k].sold
  BY <1>1, <1>2, <1>3 DEF DayTrades
<1>5. next = [log EXCEPT ![k] = now]
  BY <1>2, Zenon DEF Purchase
<1>6. /\ next \in [TradeDays -> DayTrades] /\ next[k] = now
      /\ \A d \in TradeDays : d # k => next[d] = log[d]
  BY <1>4, <1>5
<1> DEFINE f == SoldOf(log)
           g == SoldOf(next)
           b == BoughtOf(log)
           c == BoughtOf(next)
<1>7. /\ f \in [TradeDays -> Nat] /\ g \in [TradeDays -> Nat]
      /\ b \in [TradeDays -> Nat] /\ c \in [TradeDays -> Nat]
      /\ \A d \in TradeDays : /\ f[d] = log[d].sold /\ g[d] = next[d].sold
                              /\ b[d] = log[d].bought /\ c[d] = next[d].bought
  BY <1>6, LogIs
<1> HIDE DEF f, g, b, c
<1>8. Adds(b, c, k, n)
  BY <1>4, <1>6, <1>7 DEF Adds
<1>9. g = f
  <2>1. ASSUME NEW d \in TradeDays PROVE g[d] = f[d]
    <3>1. CASE d = k
      BY <1>4, <1>6, <1>7, <3>1
    <3>2. CASE d # k
      BY <1>6, <1>7, <3>2
    <3> QED BY <3>1, <3>2
  <2>2. g \in [TradeDays -> Nat] /\ f \in [TradeDays -> Nat]
    BY <1>7
  <2> QED BY <2>1, <2>2, SameFunction
<1>10. \A d \in -1 .. Days - 1 : Total(c, 0 .. d) = Total(b, 0 .. d) + IF k <= d THEN n ELSE 0
  <2>1. b \in [TradeDays -> Nat] /\ c \in [TradeDays -> Nat]
    BY <1>7
  <2> QED BY <1>8, <2>1, AddedOn, Zenon
<1>11. next[k].bought = log[k].bought + n /\ next[k].sold = log[k].sold
  BY <1>4, <1>6
<1> QED BY <1>6, <1>9, <1>10, <1>11 DEF f, g, b, c

\* The last day is the end of the log.
LEMMA WholeLog ==
    /\ Days \in Nat \ {0} /\ Days - 1 \in -1 .. Days - 1
    /\ \A d \in TradeDays : d \in Int /\ 0 <= d /\ d < Days /\ d \in -1 .. Days - 1 /\ d - 1 \in -1 .. Days - 1
    /\ TradeDays = 0 .. Days - 1
  BY BacktestAssumption DEF BacktestAssumption, TradeDays

\* A sale of shares that are for sale keeps an account.
LEMMA SaleKeeps ==
    ASSUME day \in TradeDays, NEW lots, NEW log, Account(lots, log, day),
           NEW n \in Nat, n <= ForSale(lots, DOMAIN lots),
           NEW rest \in Seq(Lots), Soon(rest), SharesIn(rest) = SharesIn(lots) - n,
           NotYet(rest, DOMAIN rest) = NotYet(lots, DOMAIN lots),
           NEW next, Sale(log, next, day, n)
    PROVE  Account(rest, next, day)
<1>1. /\ lots \in Seq(Lots) /\ log \in [TradeDays -> DayTrades]
      /\ Settled(lots, log) /\ LotsOfToday(lots, log, day)
  BY Zenon DEF Account
<1>2. /\ next \in [TradeDays -> DayTrades]
      /\ next[day].sold = log[day].sold + n /\ next[day].bought = log[day].bought
      /\ \A d \in TradeDays : d # day => next[d] = log[d]
      /\ \A d \in -1 .. Days - 1 :
            /\ Total(SoldOf(next), 0 .. d) = Total(SoldOf(log), 0 .. d) + IF day <= d THEN n ELSE 0
            /\ Total(BoughtOf(next), 0 .. d) = Total(BoughtOf(log), 0 .. d)
  BY <1>1, SaleLogged
<1>3. ForSale(lots, DOMAIN lots) = Total(BoughtOf(log), 0 .. day - 1) - Total(SoldOf(log), 0 .. day)
  BY ForSaleIs
<1>4. \A d \in -1 .. Days - 1 : Total(BoughtOf(log), 0 .. d) \in Int /\ Total(SoldOf(log), 0 .. d) \in Int
  BY <1>1, LogTotals
<1>5. SharesIn(rest) = Total(BoughtOf(next), TradeDays) - Total(SoldOf(next), TradeDays)
  <2>1. SharesIn(lots) = Total(BoughtOf(log), 0 .. Days - 1) - Total(SoldOf(log), 0 .. Days - 1)
    BY <1>1, Zenon DEF Settled, TradeDays
  <2>2. /\ Total(SoldOf(next), 0 .. Days - 1) = Total(SoldOf(log), 0 .. Days - 1) + n
        /\ Total(BoughtOf(next), 0 .. Days - 1) = Total(BoughtOf(log), 0 .. Days - 1)
    BY <1>2, WholeLog
  <2>3. Total(BoughtOf(log), 0 .. Days - 1) \in Int /\ Total(SoldOf(log), 0 .. Days - 1) \in Int
    BY <1>4, WholeLog
  <2>4. SharesIn(rest) = Total(BoughtOf(next), 0 .. Days - 1) - Total(SoldOf(next), 0 .. Days - 1)
    BY <2>1, <2>2, <2>3
  <2> QED BY <2>4 DEF TradeDays
<1>6. ASSUME NEW d \in TradeDays, next[d].sold > 0
      PROVE  Total(SoldOf(next), 0 .. d) <= Total(BoughtOf(next), 0 .. d - 1)
  <2>0. /\ d \in Int /\ d \in -1 .. Days - 1 /\ d - 1 \in -1 .. Days - 1 /\ day \in Int
    BY WholeLog
  <2>1. /\ Total(SoldOf(next), 0 .. d) = Total(SoldOf(log), 0 .. d) + IF day <= d THEN n ELSE 0
        /\ Total(BoughtOf(next), 0 .. d - 1) = Total(BoughtOf(log), 0 .. d - 1)
        /\ Total(SoldOf(log), 0 .. d) \in Int /\ Total(BoughtOf(log), 0 .. d - 1) \in Int
    BY <1>2, <1>4, <2>0
  <2>2. CASE d = day
    BY <1>3, <2>0, <2>1, <2>2
  <2>3. CASE d # day
    <3>1. next[d] = log[d]
      BY <1>2, <2>3
    <3>2. log[d].sold > 0
      BY <1>6, <3>1
    <3>3. Total(SoldOf(log), 0 .. d) <= Total(BoughtOf(log), 0 .. d - 1)
      BY <1>1, <3>2 DEF Settled
    <3>4. ~(d > day)
      <4>1. d > day => log[d].sold = 0
        BY <1>1 DEF LotsOfToday
      <4> QED BY <3>2, <4>1
    <3>5. ~(day <= d)
      BY <2>0, <2>3, <3>4
    <3> QED BY <2>1, <3>3, <3>5
  <2> QED BY <2>2, <2>3
<1>7. Settled(rest, next)
  BY <1>5, <1>6 DEF Settled
<1>8. \A d \in TradeDays : d > day => next[d].bought = 0 /\ next[d].sold = 0
  <2> SUFFICES ASSUME NEW d \in TradeDays, d > day PROVE next[d].bought = 0 /\ next[d].sold = 0
    OBVIOUS
  <2>1. d # day
    BY WholeLog
  <2>2. next[d] = log[d] /\ log[d].bought = 0 /\ log[d].sold = 0
    BY <1>1, <1>2, <2>1 DEF LotsOfToday
  <2> QED BY <2>2
<1>9. day < Days => NotYet(rest, DOMAIN rest) = next[day].bought
  BY <1>1, <1>2 DEF LotsOfToday, NotYet
<1>10. LotsOfToday(rest, next, day)
  BY <1>8, <1>9 DEF LotsOfToday, Soon, NotYet
<1> QED BY <1>2, <1>7, <1>10 DEF Account

\* A purchase keeps an account.
LEMMA PurchaseKeeps ==
    ASSUME day \in TradeDays, NEW lots, NEW log, Account(lots, log, day), NEW n \in Nat,
           NEW next, Purchase(log, next, day, n)
    PROVE  Account(Append(lots, NewLot(n)), next, day)
<1> DEFINE lot == NewLot(n)
           more == Append(lots, lot)
<1>0. day \in Int /\ day < Days
  BY WholeLog
<1>1. /\ lots \in Seq(Lots) /\ log \in [TradeDays -> DayTrades]
      /\ Settled(lots, log) /\ LotsOfToday(lots, log, day)
  BY Zenon DEF Account
<1>2. /\ next \in [TradeDays -> DayTrades]
      /\ next[day].bought = log[day].bought + n /\ next[day].sold = log[day].sold
      /\ \A d \in TradeDays : d # day => next[d] = log[d]
      /\ \A d \in -1 .. Days - 1 :
            /\ Total(BoughtOf(next), 0 .. d) = Total(BoughtOf(log), 0 .. d) + IF day <= d THEN n ELSE 0
            /\ Total(SoldOf(next), 0 .. d) = Total(SoldOf(log), 0 .. d)
  BY <1>1, PurchaseLogged
<1>3. lot \in Lots /\ lot.shares = n /\ lot.available = day + 1 /\ lot.available > day
  BY <1>0 DEF NewLot, Lots
<1> HIDE DEF lot
<1>4. /\ more \in Seq(Lots)
      /\ DOMAIN more = DOMAIN lots \cup {Len(lots) + 1}
      /\ \A i \in DOMAIN lots : more[i] = lots[i]
      /\ more[Len(lots) + 1] = lot
      /\ SharesIn(more) = SharesIn(lots) + n
      /\ NotYet(more, DOMAIN more) = NotYet(lots, DOMAIN lots) + n
  BY <1>0, <1>1, <1>3, LotAdds
<1> HIDE DEF more
<1>5. \A d \in -1 .. Days - 1 : Total(BoughtOf(log), 0 .. d) \in Int /\ Total(SoldOf(log), 0 .. d) \in Int
  BY <1>1, LogTotals
<1>6. SharesIn(more) = Total(BoughtOf(next), TradeDays) - Total(SoldOf(next), TradeDays)
  <2>1. SharesIn(lots) = Total(BoughtOf(log), 0 .. Days - 1) - Total(SoldOf(log), 0 .. Days - 1)
    BY <1>1, Zenon DEF Settled, TradeDays
  <2>2. /\ Total(BoughtOf(next), 0 .. Days - 1) = Total(BoughtOf(log), 0 .. Days - 1) + n
        /\ Total(SoldOf(next), 0 .. Days - 1) = Total(SoldOf(log), 0 .. Days - 1)
    BY <1>2, WholeLog
  <2>3. Total(BoughtOf(log), 0 .. Days - 1) \in Int /\ Total(SoldOf(log), 0 .. Days - 1) \in Int
    BY <1>5, WholeLog
  <2>4. SharesIn(more) = Total(BoughtOf(next), 0 .. Days - 1) - Total(SoldOf(next), 0 .. Days - 1)
    BY <1>4, <2>1, <2>2, <2>3
  <2> QED BY <2>4 DEF TradeDays
<1>7. ASSUME NEW d \in TradeDays, next[d].sold > 0
      PROVE  Total(SoldOf(next), 0 .. d) <= Total(BoughtOf(next), 0 .. d - 1)
  <2>0. /\ d \in Int /\ d \in -1 .. Days - 1 /\ d - 1 \in -1 .. Days - 1
    BY WholeLog
  <2>1. /\ Total(BoughtOf(next), 0 .. d - 1) = Total(BoughtOf(log), 0 .. d - 1) + IF day <= d - 1 THEN n ELSE 0
        /\ Total(SoldOf(next), 0 .. d) = Total(SoldOf(log), 0 .. d)
        /\ Total(SoldOf(log), 0 .. d) \in Int /\ Total(BoughtOf(log), 0 .. d - 1) \in Int
    BY <1>2, <1>5, <2>0
  <2>2. next[d].sold = log[d].sold
    BY <1>2
  <2>3. Total(SoldOf(log), 0 .. d) <= Total(BoughtOf(log), 0 .. d - 1)
    BY <1>1, <1>7, <2>2 DEF Settled
  <2> QED BY <2>1, <2>3
<1>8. Settled(more, next)
  BY <1>6, <1>7 DEF Settled
<1>9. \A d \in TradeDays : d > day => next[d].bought = 0 /\ next[d].sold = 0
  <2> SUFFICES ASSUME NEW d \in TradeDays, d > day PROVE next[d].bought = 0 /\ next[d].sold = 0
    OBVIOUS
  <2>1. d # day
    BY WholeLog
  <2>2. next[d] = log[d] /\ log[d].bought = 0 /\ log[d].sold = 0
    BY <1>1, <1>2, <2>1 DEF LotsOfToday
  <2> QED BY <2>2
<1>10. NotYet(more, DOMAIN more) = next[day].bought
  <2>1. NotYet(lots, DOMAIN lots) = log[day].bought
    BY <1>0, <1>1 DEF LotsOfToday, NotYet
  <2> QED BY <1>2, <1>4, <2>1
<1>11. \A i \in DOMAIN more : more[i].available <= day + 1
  <2>1. \A i \in DOMAIN lots : lots[i].available <= day + 1
    BY <1>1 DEF LotsOfToday
  <2> QED BY <1>0, <1>3, <1>4, <2>1
<1>12. LotsOfToday(more, next, day)
  BY <1>9, <1>10, <1>11 DEF LotsOfToday, NotYet
<1> QED BY <1>2, <1>4, <1>8, <1>12 DEF Account, more, lot

\* The next day, every lot may be sold.
LEMMA DayKeeps ==
    ASSUME day \in TradeDays, NEW lots, NEW log, Account(lots, log, day)
    PROVE  Account(lots, log, day + 1)
<1>0. day \in Int /\ day < Days
  BY WholeLog
<1>1. /\ lots \in Seq(Lots) /\ log \in [TradeDays -> DayTrades]
      /\ Settled(lots, log) /\ LotsOfToday(lots, log, day)
  BY Zenon DEF Account
<1>2. \A i \in DOMAIN lots : lots[i].available <= day + 1 /\ lots[i].available \in Int
  <2>1. \A i \in DOMAIN lots : lots[i] \in Lots
    BY <1>1
  <2>2. \A i \in DOMAIN lots : lots[i].available \in Int
    BY <2>1 DEF Lots
  <2> QED BY <1>1, <2>2 DEF LotsOfToday
<1>3. \A i \in DOMAIN lots : lots[i].available <= (day + 1) + 1
  BY <1>0, <1>2
<1>4. \A d \in TradeDays : d > day + 1 => log[d].bought = 0 /\ log[d].sold = 0
  <2> SUFFICES ASSUME NEW d \in TradeDays, d > day + 1 PROVE log[d].bought = 0 /\ log[d].sold = 0
    OBVIOUS
  <2>1. d > day
    BY <1>0, WholeLog
  <2> QED BY <1>1, <2>1 DEF LotsOfToday
<1>5. ASSUME day + 1 < Days
      PROVE  Total(SharesOf(lots), {i \in DOMAIN lots : lots[i].available > day + 1}) = log[day + 1].bought
  <2>1. {i \in DOMAIN lots : lots[i].available > day + 1} = {}
    BY <1>0, <1>2
  <2>2. day + 1 \in TradeDays /\ day + 1 > day
    BY <1>0, <1>5, WholeLog
  <2>3. log[day + 1].bought = 0
    BY <1>1, <2>2 DEF LotsOfToday
  <2>4. Total(SharesOf(lots), {}) = 0
    BY <1>1, NoLots
  <2> QED BY <2>1, <2>3, <2>4
<1>6. LotsOfToday(lots, log, day + 1)
  BY <1>3, <1>4, <1>5 DEF LotsOfToday
<1> QED BY <1>1, <1>6 DEF Account
----------------------------------------------------------------------------
(* The inductive invariant: BacktestInvariant, with the lots and the log   *)
(* of each symbol taken together.                                          *)

AccountsKept == \A s \in Symbols : Account(book[s], trades[s], day)

QuietStart ==
    \A s \in Symbols :
        /\ phase \in {"open", "rank"} => trades[s][day].bought = 0 /\ trades[s][day].sold = 0
        /\ phase \in {"drop", "trim"} => trades[s][day].bought = 0

AccountsInvariant == BacktestTyped /\ CandidatesTrade /\ AccountsKept /\ QuietStart /\ TradesAreExecutable

\* Today's trades of a symbol were allowed.
Fair(s) ==
    /\ trades[s][day].bought + trades[s][day].sold > 0 => Trading(s)
    /\ trades[s][day].bought > 0 /\ prevClose[s] > 0 => bar[s].price < UpperLimit(s)
    /\ trades[s][day].sold > 0 /\ prevClose[s] > 0 => bar[s].price > LowerLimit(s)

PaidFor == (\E s \in Symbols : trades[s][day].bought > 0) => cash >= 0

Rebalancing == phase \in {"drop", "trim", "buy", "close"}

\* It implies the invariant that is checked.
LEMMA InvariantHolds ==
    ASSUME AccountsInvariant
    PROVE  BacktestInvariant
<1>1. BacktestTyped /\ CandidatesTrade /\ AccountsKept /\ QuietStart /\ TradesAreExecutable
  BY DEF AccountsInvariant
<1>2. ASSUME NEW s \in Symbols
      PROVE  /\ \A i \in DOMAIN book[s] : book[s][i].available <= day + 1
             /\ \A d \in 0 .. Days - 1 : d > day => trades[s][d].bought = 0 /\ trades[s][d].sold = 0
             /\ day < Days => Total(SharesOf(book[s]), LaterLots(book[s])) = trades[s][day].bought
  <2>1. LotsOfToday(book[s], trades[s], day)
    BY <1>1 DEF AccountsKept, Account
  <2> QED BY <2>1 DEF LotsOfToday, TradeDays, LaterLots
<1>3. LotsFollowTrades
  BY <1>1, <1>2 DEF LotsFollowTrades, QuietStart
<1>4. ASSUME NEW s \in Symbols
      PROVE  /\ Shares(s) = BoughtUpTo(s, Days - 1) - SoldUpTo(s, Days - 1)
             /\ \A d \in 0 .. Days - 1 :
                    trades[s][d].sold > 0 => SoldUpTo(s, d) <= BoughtUpTo(s, d - 1)
  <2>1. Settled(book[s], trades[s])
    BY <1>1 DEF AccountsKept, Account
  <2>2. \A d : BoughtUpTo(s, d) = Total(BoughtOf(trades[s]), 0 .. d) /\ SoldUpTo(s, d) = Total(SoldOf(trades[s]), 0 .. d)
    BY Zenon DEF BoughtUpTo, SoldUpTo, BoughtOf, SoldOf
  <2>3. /\ SharesIn(book[s]) = Total(BoughtOf(trades[s]), 0 .. Days - 1) - Total(SoldOf(trades[s]), 0 .. Days - 1)
        /\ \A d \in 0 .. Days - 1 :
              trades[s][d].sold > 0 => Total(SoldOf(trades[s]), 0 .. d) <= Total(BoughtOf(trades[s]), 0 .. d - 1)
    BY <2>1, Zenon DEF Settled, TradeDays
  <2>4. Shares(s) = SharesIn(book[s])
    BY DEF Shares
  <2>5. Shares(s) = BoughtUpTo(s, Days - 1) - SoldUpTo(s, Days - 1)
    BY <2>2, <2>3, <2>4, Zenon
  <2>6. ASSUME NEW d \in 0 .. Days - 1, trades[s][d].sold > 0
        PROVE  SoldUpTo(s, d) <= BoughtUpTo(s, d - 1)
    BY <2>2, <2>3, <2>6, Zenon
  <2> QED BY <2>5, <2>6
<1>5. TradesAreSettled
  BY <1>4 DEF TradesAreSettled
<1> QED BY <1>1, <1>3, <1>5 DEF BacktestInvariant, TradesAreReal

\* The parts of the last conjunct.
LEMMA ExecutableParts ==
    TradesAreExecutable <=> (Rebalancing => (\A s \in Symbols : Fair(s)) /\ PaidFor)
  BY Zenon DEF TradesAreExecutable, Rebalancing, Fair, PaidFor, Trading

LEMMA InvariantParts ==
    ASSUME AccountsInvariant
    PROVE  /\ BacktestTyped /\ CandidatesTrade /\ AccountsKept /\ QuietStart
           /\ Rebalancing => (\A s \in Symbols : Fair(s)) /\ PaidFor
           /\ day \in 0 .. Days /\ (phase = "done" <=> day = Days)
           /\ phase # "done" => day \in TradeDays
<1>1. BacktestTyped /\ CandidatesTrade /\ AccountsKept /\ QuietStart /\ TradesAreExecutable
  BY DEF AccountsInvariant
<1>2. day \in 0 .. Days /\ (phase = "done" <=> day = Days)
  BY <1>1 DEF BacktestTyped
<1>3. phase # "done" => day \in TradeDays
  BY <1>2, WholeLog DEF TradeDays
<1> QED BY <1>1, <1>2, <1>3, ExecutableParts

\* What a step shows of each conjunct, in the next state.
LEMMA NextParts ==
    ASSUME BacktestTyped', CandidatesTrade', AccountsKept', QuietStart',
           Rebalancing' => (\A s \in Symbols : Fair(s)') /\ PaidFor'
    PROVE  AccountsInvariant'
<1>1. TradesAreExecutable'
  BY Zenon DEF TradesAreExecutable, Rebalancing, Fair, PaidFor, Trading
<1> QED BY <1>1 DEF AccountsInvariant

\* With the day, its bars, the closes and a symbol's trades, what is said of
\* its trades stays.
LEMMA FairStays ==
    ASSUME NEW s \in Symbols, UNCHANGED <<day, bar, prevClose>>, trades'[s] = trades[s], Fair(s)
    PROVE  Fair(s)'
<1>1. day' = day /\ bar' = bar /\ prevClose' = prevClose
  OBVIOUS
<1>2. UpperLimit(s)' = UpperLimit(s) /\ LowerLimit(s)' = LowerLimit(s)
  BY <1>1, Zenon DEF UpperLimit, LowerLimit
<1>3. Trading(s)' <=> Trading(s)
  BY <1>1, Zenon DEF Trading
<1>4. trades[s][day]' = trades[s][day] /\ prevClose[s]' = prevClose[s] /\ bar[s].price' = bar[s].price
  BY <1>1, Zenon
<1> QED BY <1>2, <1>3, <1>4 DEF Fair

\* A back-test starts with no trades and no lots.
LEMMA BacktestStarts ==
    ASSUME BacktestInit
    PROVE  AccountsInvariant
<1> DEFINE quiet == [d \in TradeDays |-> [bought |-> 0, sold |-> 0]]
<1>0. /\ day = 0 /\ phase = "open" /\ bar = NoBar
      /\ prevClose = [s \in Symbols |-> 0] /\ lastClose = [s \in Symbols |-> 0]
      /\ cash = InitialCash /\ book = [s \in Symbols |-> <<>>]
      /\ ranked = <<>> /\ todo = <<>> /\ targetValue = 0
      /\ trades = NoTrades
  BY Zenon DEF BacktestInit
<1>1. trades = [s \in Symbols |-> quiet]
  BY <1>0, Zenon DEF NoTrades, TradeDays
<1>2. quiet \in [TradeDays -> DayTrades] /\ \A d \in TradeDays : quiet[d].bought = 0 /\ quiet[d].sold = 0
  BY DEF DayTrades
<1> HIDE DEF quiet
<1>3. <<>> \in Seq(Lots) /\ <<>> \in Seq(Symbols) /\ DOMAIN <<>> = {}
  OBVIOUS
<1>4. InitialCash \in Int /\ 0 \in TradeDays /\ 0 \in 0 .. Days /\ 0 # Days
  BY BacktestAssumption DEF BacktestAssumption, TradeDays
<1>5. \A s \in Symbols : bar[s].price \in Int /\ bar[s].close \in Int /\ bar[s].score \in Int
  BY <1>0 DEF NoBar
<1>6. BacktestTyped
  BY <1>0, <1>1, <1>2, <1>3, <1>4, <1>5 DEF BacktestTyped, TradeDays
<1>7. CandidatesTrade
  BY <1>0 DEF CandidatesTrade
<1>8. QuietStart
  BY <1>0, <1>1, <1>2, <1>4 DEF QuietStart
<1>9. Account(<<>>, quiet, 0)
  <2>1. IsFiniteSet(TradeDays) /\ \A d \in -1 .. Days - 1 : IsFiniteSet(0 .. d) /\ 0 .. d \in SUBSET TradeDays
    BY FS_Interval, WholeLog
  <2>2. BoughtOf(quiet) \in [TradeDays -> Nat] /\ SoldOf(quiet) \in [TradeDays -> Nat]
    BY <1>2, LogIs
  <2>3. \A d \in TradeDays : BoughtOf(quiet)[d] = 0 /\ SoldOf(quiet)[d] = 0
    BY <1>2, LogIs
  <2>4. Total(BoughtOf(quiet), TradeDays) = 0 /\ Total(SoldOf(quiet), TradeDays) = 0
    BY <2>1, <2>3, TotalZero
  <2>5. SharesIn(<<>>) = 0 /\ Total(SharesOf(<<>>), {}) = 0
    BY <1>3, NoLots DEF SharesIn
  <2>6. Settled(<<>>, quiet)
    BY <1>2, <2>4, <2>5 DEF Settled
  <2>7. {i \in DOMAIN <<>> : <<>>[i].available > 0} = {}
    BY <1>3
  <2>8. LotsOfToday(<<>>, quiet, 0)
    BY <1>2, <1>3, <1>4, <2>5, <2>7 DEF LotsOfToday
  <2> QED BY <1>2, <1>3, <2>6, <2>8 DEF Account
<1>10. AccountsKept
  BY <1>0, <1>1, <1>9 DEF AccountsKept
<1>11. TradesAreExecutable
  BY <1>0 DEF TradesAreExecutable
<1> QED BY <1>6, <1>7, <1>8, <1>10, <1>11 DEF AccountsInvariant
----------------------------------------------------------------------------
(* Every step keeps it.                                                    *)

\* Book, cash and trades of the next state, whatever the step was.
Kept ==
    /\ cash' \in Int
    /\ book' \in [Symbols -> Seq(Lots)] /\ trades' \in [Symbols -> [TradeDays -> DayTrades]]
    /\ AccountsKept' /\ (\A s \in Symbols : Fair(s)') /\ PaidFor'

NothingBought == \A s \in Symbols : trades[s][day].bought = 0

\* Nothing was traded.
LEMMA NothingTraded ==
    ASSUME AccountsInvariant, Rebalancing, UNCHANGED <<day, bar, prevClose, cash, book, trades>>
    PROVE  Kept
<1>1. BacktestTyped /\ AccountsKept /\ (\A s \in Symbols : Fair(s)) /\ PaidFor
  BY InvariantParts
<1>2. day' = day /\ bar' = bar /\ prevClose' = prevClose /\ cash' = cash /\ book' = book /\ trades' = trades
  OBVIOUS
<1>3. /\ cash' \in Int /\ book' \in [Symbols -> Seq(Lots)]
      /\ trades' \in [Symbols -> [TradeDays -> DayTrades]]
  BY <1>1, <1>2 DEF BacktestTyped, TradeDays
<1>4. AccountsKept'
  BY <1>1, <1>2, Zenon DEF AccountsKept
<1>5. \A s \in Symbols : Fair(s)'
  BY <1>1, <1>2, FairStays
<1>6. PaidFor'
  BY <1>1, <1>2, Zenon DEF PaidFor
<1> QED BY <1>3, <1>4, <1>5, <1>6 DEF Kept

\* A sale of what is for sale, at a price that the limits allow.
LEMMA SellKeeps ==
    ASSUME AccountsInvariant, phase \in {"drop", "trim"}, NEW s \in Symbols, NEW wanted \in Int,
           Purchasable(s), SellAllowed(s), Sell(s, wanted), UNCHANGED <<day, bar, prevClose>>
    PROVE  Kept /\ NothingBought'
<1> DEFINE n == Less(wanted, AvailableShares(s))
<1>0. /\ BacktestTyped /\ AccountsKept /\ (\A r \in Symbols : Fair(r)) /\ PaidFor
      /\ QuietStart /\ day \in TradeDays /\ Rebalancing
  BY InvariantParts DEF Rebalancing
<1>1. AvailableShares(s) \in Nat
  BY <1>0, ValuesWhole
<1>4. NothingBought
  BY <1>0 DEF QuietStart, NothingBought
<1>2. CASE n <= 0 \/ ~Filled(s)
  <2>1. UNCHANGED <<cash, book, trades>>
    BY <1>2, Zenon DEF Sell
  <2>2. NothingBought'
    BY <1>4, <2>1, Zenon DEF NothingBought
  <2> QED BY <1>0, <2>1, <2>2, NothingTraded
<1>3. CASE ~(n <= 0 \/ ~Filled(s))
  <2>1. /\ book' = [book EXCEPT ![s] = Popped(s, n)]
        /\ cash' = cash + n * bar[s].price - CostOf(n * bar[s].price, "sell")
    BY <1>3, Zenon DEF Sell
  <2>2. trades' = [trades EXCEPT ![s][day].sold = @ + n]
    BY <1>3, Zenon DEF Sell
  <2>3. n \in Nat /\ n <= AvailableShares(s)
    BY <1>1, <1>3 DEF Less
  <2> HIDE DEF n
  <2>4. PICK next : Sale(trades[s], next, day, n)
    BY Zenon DEF Sale
  <2>5. trades' = [trades EXCEPT ![s] = next]
    BY <2>2, <2>4, Zenon DEF Sale
  <2>6. /\ cash \in Int /\ book \in [Symbols -> Seq(Lots)]
        /\ trades \in [Symbols -> [TradeDays -> DayTrades]]
        /\ bar[s].price \in Int /\ day \in Int
    BY <1>0, WholeLog DEF BacktestTyped, TradeDays
  <2>7. /\ next \in [TradeDays -> DayTrades]
        /\ next[day].sold = trades[s][day].sold + n /\ next[day].bought = trades[s][day].bought
    <3>1. trades[s] \in [TradeDays -> DayTrades]
      BY <2>6
    <3> QED BY <1>0, <2>3, <2>4, <3>1, SaleLogged
  <2>8. Account(book[s], trades[s], day)
    BY <1>0 DEF AccountsKept
  <2>9. Soon(book[s]) /\ book[s] \in Seq(Lots)
    BY <2>8 DEF Account, LotsOfToday, Soon
  <2>10. /\ Popped(s, n) \in Seq(Lots) /\ Soon(Popped(s, n))
         /\ SharesIn(Popped(s, n)) = Shares(s) - n
         /\ NotYet(Popped(s, n), DOMAIN Popped(s, n)) = NotYet(book[s], DOMAIN book[s])
    BY <2>3, <2>6, <2>9, PoppedIs
  <2>11. n <= ForSale(book[s], DOMAIN book[s]) /\ SharesIn(Popped(s, n)) = SharesIn(book[s]) - n
    <3>1. AvailableShares(s) = ForSale(book[s], DOMAIN book[s])
      BY Zenon DEF AvailableShares, ForSale
    <3>2. Shares(s) = SharesIn(book[s])
      BY DEF Shares
    <3> QED BY <2>3, <2>10, <3>1, <3>2
  <2>12. Account(Popped(s, n), next, day)
    BY <1>0, <2>3, <2>4, <2>8, <2>10, <2>11, SaleKeeps
  <2>13. PICK rest : rest = Popped(s, n)
    OBVIOUS
  <2>14. /\ book' = [book EXCEPT ![s] = rest] /\ Account(rest, next, day) /\ rest \in Seq(Lots)
    BY <2>1, <2>10, <2>12, <2>13
  <2>15. /\ book'[s] = rest /\ trades'[s] = next
         /\ \A r \in Symbols \ {s} : book'[r] = book[r] /\ trades'[r] = trades[r]
         /\ book' \in [Symbols -> Seq(Lots)] /\ trades' \in [Symbols -> [TradeDays -> DayTrades]]
    BY <2>5, <2>6, <2>7, <2>14
  <2>16. day' = day /\ bar' = bar /\ prevClose' = prevClose
    OBVIOUS
  <2>17. \A r \in Symbols : Account(book'[r], trades'[r], day')
    <3> SUFFICES ASSUME NEW r \in Symbols PROVE Account(book'[r], trades'[r], day')
      OBVIOUS
    <3>1. CASE r = s
      BY <2>14, <2>15, <2>16, <3>1
    <3>2. CASE r # s
      <4>1. Account(book[r], trades[r], day)
        BY <1>0 DEF AccountsKept
      <4> QED BY <2>15, <2>16, <3>2, <4>1
    <3> QED BY <3>1, <3>2
  <2>18. AccountsKept'
    BY <2>17, Zenon DEF AccountsKept
  <2>19. cash' \in Int
    <3>1. n * bar[s].price \in Int
      BY <2>3, <2>6
    <3>2. CostOf(n * bar[s].price, "sell") \in Int
      BY <3>1, CostWhole
    <3> QED BY <2>1, <2>6, <3>1, <3>2
  <2>20. \A r \in Symbols : trades[r][day].bought = 0
    BY <1>4 DEF NothingBought
  <2>21. \A r \in Symbols : trades'[r][day].bought = 0
    BY <2>7, <2>15, <2>20
  <2>22. PaidFor'
    <3>1. \A r \in Symbols : ~(trades'[r][day'].bought > 0)
      BY <2>16, <2>21
    <3> QED BY <3>1, Zenon DEF PaidFor
  <2>23. Fair(s)'
    <3>1. Trading(s)
      BY Zenon DEF Purchasable, Trading
    <3>2. prevClose[s] > 0 => bar[s].price > LowerLimit(s)
      <4>1. prevClose[s] > 0 => ~Unchecked(s)
        BY DEF Unchecked
      <4>2. Unchecked(s) \/ CanSell(s, bar[s].quote, day, bar[s].price, prevClose[s])
        BY Zenon DEF SellAllowed
      <4>3. CanSell(s, bar[s].quote, day, bar[s].price, prevClose[s]) => bar[s].price > LowerLimit(s)
        BY Zenon DEF CanSell, LowerLimit
      <4> QED BY <4>1, <4>2, <4>3
    <3>3. LowerLimit(s)' = LowerLimit(s) /\ (Trading(s)' <=> Trading(s))
      BY <2>16, Zenon DEF LowerLimit, Trading
    <3>4. /\ prevClose[s]' = prevClose[s] /\ bar[s].price' = bar[s].price
          /\ ~(trades[s][day].bought > 0)'
      <4>1. ~(trades'[s][day'].bought > 0)
        BY <2>16, <2>21
      <4> QED BY <2>16, <4>1, Zenon
    <3> QED BY <3>1, <3>2, <3>3, <3>4, Zenon DEF Fair
  <2>24. \A r \in Symbols : Fair(r)'
    <3> SUFFICES ASSUME NEW r \in Symbols PROVE Fair(r)'
      OBVIOUS
    <3>1. CASE r = s
      BY <2>23, <3>1
    <3>2. CASE r # s
      <4>1. trades'[r] = trades[r] /\ Fair(r)
        BY <1>0, <2>15, <3>2
      <4> QED BY <2>16, <4>1, FairStays
    <3> QED BY <3>1, <3>2
  <2>25. NothingBought'
    <3>1. \A r \in Symbols : trades'[r][day'].bought = 0
      BY <2>16, <2>21
    <3> QED BY <3>1, Zenon DEF NothingBought
  <2> QED BY <2>15, <2>18, <2>19, <2>22, <2>24, <2>25 DEF Kept
<1> QED BY <1>2, <1>3

\* A step that may sell keeps the accounts, and does not move on.
LEMMA SellStepKeeps ==
    ASSUME AccountsInvariant, phase \in {"drop", "trim"}, NEW s \in Symbols, NEW wanted \in Int,
           SellStep(s, wanted), UNCHANGED <<day, bar, prevClose>>
    PROVE  Kept /\ phase' \in {phase, "failed"} /\ NothingBought'
<1>0. Rebalancing
  BY DEF Rebalancing
<1>5. NothingBought
  BY InvariantParts DEF QuietStart, NothingBought
<1>6. UNCHANGED <<cash, book, trades>> => NothingBought'
  BY <1>5, Zenon DEF NothingBought
<1>1. CASE ~Purchasable(s)
  <2>1. UNCHANGED <<cash, book, trades, phase>>
    BY <1>1, Zenon DEF SellStep
  <2> QED BY <1>0, <1>6, <2>1, NothingTraded
<1>2. CASE Purchasable(s) /\ SellRaises(s)
  <2>1. phase' = "failed" /\ UNCHANGED <<cash, book, trades>>
    BY <1>2, Zenon DEF SellStep
  <2> QED BY <1>0, <1>6, <2>1, NothingTraded
<1>3. CASE Purchasable(s) /\ ~SellRaises(s) /\ ~SellAllowed(s)
  <2>1. UNCHANGED <<cash, book, trades, phase>>
    BY <1>3, Zenon DEF SellStep
  <2> QED BY <1>0, <1>6, <2>1, NothingTraded
<1>4. CASE Purchasable(s) /\ ~SellRaises(s) /\ SellAllowed(s)
  <2>1. Sell(s, wanted) /\ UNCHANGED phase
    BY <1>4, Zenon DEF SellStep
  <2> QED BY <1>4, <2>1, SellKeeps
<1> QED BY <1>1, <1>2, <1>3, <1>4

\* A step of a rebalance that leaves the day as it is.
LEMMA SameDay ==
    ASSUME AccountsInvariant, phase # "done", Kept, UNCHANGED <<day, bar, prevClose, lastClose>>,
           phase' \in {"drop", "trim", "buy", "close", "failed"},
           targetValue' \in Int, ranked' \in Seq(Symbols), todo' \in Seq(Symbols),
           phase' \in {"drop", "trim"} => NothingBought', CandidatesTrade'
    PROVE  AccountsInvariant'
<1>1. BacktestTyped /\ (phase = "done" <=> day = Days)
  BY InvariantParts
<1>2. day' = day /\ bar' = bar /\ prevClose' = prevClose /\ lastClose' = lastClose
  OBVIOUS
<1>3. /\ cash' \in Int
      /\ book' \in [Symbols -> Seq(Lots)] /\ trades' \in [Symbols -> [TradeDays -> DayTrades]]
      /\ AccountsKept' /\ (\A s \in Symbols : Fair(s)') /\ PaidFor'
  BY Zenon DEF Kept
<1>4. phase' # "done" /\ day' # Days
  BY <1>1, <1>2
<1>5. BacktestTyped'
  <2>1. /\ day' \in 0 .. Days
        /\ \A s \in Symbols : bar'[s].price \in Int /\ bar'[s].close \in Int /\ bar'[s].score \in Int
        /\ \A s \in Symbols : prevClose'[s] \in Int /\ lastClose'[s] \in Int
    BY <1>1, <1>2 DEF BacktestTyped
  <2> QED BY <1>3, <1>4, <2>1 DEF BacktestTyped, TradeDays
<1>6. QuietStart'
  BY DEF QuietStart, NothingBought
<1> QED BY <1>3, <1>5, <1>6, NextParts

\* The head and the tail of what is to do.
LEMMA ToDo ==
    ASSUME todo \in Seq(Symbols), todo # <<>>
    PROVE  /\ Head(todo) \in Symbols /\ Tail(todo) \in Seq(Symbols)
           /\ 1 \in DOMAIN todo /\ Head(todo) = todo[1]
           /\ \A i \in DOMAIN Tail(todo) : i + 1 \in DOMAIN todo /\ Tail(todo)[i] = todo[i + 1]
  OBVIOUS

\* Names that trade do so all day.
LEMMA StillTrading ==
    ASSUME UNCHANGED bar
    PROVE  \A s : Trading(s)' <=> Trading(s)
  BY Zenon DEF Trading

LEMMA OpenDayKeeps ==
    ASSUME AccountsInvariant, NEW b \in [Symbols -> Bars], NEW m \in ScoreTimes, OpenDay(b, m)
    PROVE  AccountsInvariant'
<1>0. /\ BacktestTyped /\ AccountsKept /\ QuietStart
      /\ phase = "open" /\ day \in TradeDays /\ (phase = "done" <=> day = Days)
  BY InvariantParts DEF OpenDay
<1>1. /\ bar' = b
      /\ lastClose' = [s \in Symbols |-> IF b[s].close > 0 THEN b[s].close ELSE lastClose[s]]
      /\ UNCHANGED <<day, prevClose, cash, book, ranked, todo, targetValue, trades>>
  BY DEF OpenDay
<1>2. phase' \in {"close", "rank", "failed"}
  BY Zenon DEF OpenDay
<1>3. \A s \in Symbols : b[s].price \in Int /\ b[s].close \in Int /\ b[s].score \in Int
  BY BacktestAssumption DEF BacktestAssumption
<1>4. \A s \in Symbols : lastClose'[s] \in Int
  BY <1>0, <1>1, <1>3 DEF BacktestTyped
<1>5. BacktestTyped'
  BY <1>0, <1>1, <1>2, <1>3, <1>4 DEF BacktestTyped
<1>6. CandidatesTrade'
  BY <1>2 DEF CandidatesTrade
<1>7. AccountsKept'
  BY <1>0, <1>1, Zenon DEF AccountsKept
<1>8. \A s \in Symbols : trades'[s][day'].bought = 0 /\ trades'[s][day'].sold = 0
  BY <1>0, <1>1 DEF QuietStart
<1>9. QuietStart'
  BY <1>8 DEF QuietStart
<1>10. \A s \in Symbols : Fair(s)'
  BY <1>8 DEF Fair
<1>11. PaidFor'
  BY <1>8 DEF PaidFor
<1> QED BY <1>5, <1>6, <1>7, <1>9, <1>10, <1>11, NextParts

LEMMA RankDayKeeps ==
    ASSUME AccountsInvariant, RankDay
    PROVE  AccountsInvariant'
<1>0. /\ BacktestTyped /\ AccountsKept /\ QuietStart
      /\ phase = "rank" /\ day \in TradeDays /\ (phase = "done" <=> day = Days)
  BY InvariantParts DEF RankDay
<1>1. UNCHANGED <<day, bar, prevClose, lastClose, cash, book, targetValue, trades>>
  BY DEF RankDay
<1>2. \/ phase' = "failed" /\ UNCHANGED <<ranked, todo>>
      \/ /\ phase' = "drop" /\ ranked' = Ranked
         /\ todo' = SetToSeq({s \in Symbols : Shares(s) > 0} \ ToSet(Ranked))
  BY Zenon DEF RankDay
<1>3. Ranked \in Seq(Symbols) /\ \A i \in DOMAIN Ranked : Trading(Ranked[i])
  BY <1>0, RankedIn DEF BacktestTyped
<1>4. SetToSeq({s \in Symbols : Shares(s) > 0} \ ToSet(Ranked)) \in Seq(Symbols)
  <2>1. {s \in Symbols : Shares(s) > 0} \ ToSet(Ranked) \in SUBSET Symbols
    OBVIOUS
  <2> QED BY <2>1, SetToSeqIn
<1>5. ranked \in Seq(Symbols) /\ todo \in Seq(Symbols)
  BY <1>0 DEF BacktestTyped
<1>6. ranked' \in Seq(Symbols) /\ todo' \in Seq(Symbols)
  BY <1>2, <1>3, <1>4, <1>5, Zenon
<1>7. BacktestTyped'
  BY <1>0, <1>1, <1>2, <1>6 DEF BacktestTyped
<1>8. CandidatesTrade'
  <2>1. CASE phase' = "failed"
    BY <2>1 DEF CandidatesTrade
  <2>2. CASE phase' = "drop" /\ ranked' = Ranked
    <3>1. \A i \in DOMAIN ranked' : Trading(ranked'[i])
      BY <1>3, <2>2
    <3>2. \A i \in DOMAIN ranked' : Trading(ranked[i])'
      BY <1>1, <3>1, Zenon DEF Trading
    <3> QED BY <2>2, <3>2 DEF CandidatesTrade
  <2> QED BY <1>2, <2>1, <2>2
<1>9. AccountsKept'
  BY <1>0, <1>1, Zenon DEF AccountsKept
<1>10. \A s \in Symbols : trades'[s][day'].bought = 0 /\ trades'[s][day'].sold = 0
  BY <1>0, <1>1 DEF QuietStart
<1>11. QuietStart'
  BY <1>10 DEF QuietStart
<1>12. \A s \in Symbols : Fair(s)'
  BY <1>10 DEF Fair
<1>13. PaidFor'
  BY <1>10 DEF PaidFor
<1> QED BY <1>7, <1>8, <1>9, <1>11, <1>12, <1>13, NextParts

LEMMA DropKeeps ==
    ASSUME AccountsInvariant, Drop
    PROVE  AccountsInvariant'
<1>0. /\ BacktestTyped /\ CandidatesTrade /\ phase = "drop" /\ todo # <<>> /\ todo \in Seq(Symbols)
      /\ ranked \in Seq(Symbols) /\ targetValue \in Int
  BY InvariantParts DEF Drop, BacktestTyped
<1>1. /\ SellStep(Head(todo), Shares(Head(todo))) /\ todo' = Tail(todo)
      /\ UNCHANGED <<day, bar, prevClose, lastClose, ranked, targetValue>>
  BY Zenon DEF Drop
<1>2. Head(todo) \in Symbols /\ Tail(todo) \in Seq(Symbols)
  BY <1>0, ToDo
<1>3. Shares(Head(todo)) \in Int
  BY <1>0, <1>2, ValuesWhole
<1>4. Kept /\ phase' \in {phase, "failed"} /\ NothingBought'
  BY <1>0, <1>1, <1>2, <1>3, SellStepKeeps
<1>5. \A i \in DOMAIN ranked : Trading(ranked[i])
  BY <1>0 DEF CandidatesTrade
<1>6. \A i \in DOMAIN ranked' : Trading(ranked[i])'
  BY <1>1, <1>5, Zenon DEF Trading
<1>7. CandidatesTrade'
  BY <1>0, <1>4, <1>6 DEF CandidatesTrade
<1> QED BY <1>0, <1>1, <1>2, <1>4, <1>7, SameDay

LEMMA SizeKeeps ==
    ASSUME AccountsInvariant, Size
    PROVE  AccountsInvariant'
<1>0. /\ BacktestTyped /\ CandidatesTrade /\ QuietStart /\ phase = "drop" /\ todo = <<>> /\ todo \in Seq(Symbols)
      /\ ranked \in Seq(Symbols) /\ targetValue \in Int /\ Rebalancing
  BY InvariantParts DEF Size, BacktestTyped, Rebalancing
<1>1. UNCHANGED <<day, bar, prevClose, lastClose, cash, book, ranked, trades>>
  BY DEF Size
<1>2. \/ phase' = "close" /\ UNCHANGED <<todo, targetValue>>
      \/ /\ phase' = "trim" /\ ranked # <<>> /\ todo' = ranked
         /\ targetValue' = (Equity * 99) \div (100 * Len(ranked))
  BY Zenon DEF Size
<1>3. Kept
  BY <1>0, <1>1, NothingTraded
<1>4. NothingBought'
  BY <1>0, <1>1 DEF NothingBought, QuietStart
<1>5. ranked # <<>> => (Equity * 99) \div (100 * Len(ranked)) \in Int
  <2>1. ASSUME ranked # <<>> PROVE 100 * Len(ranked) \in Nat \ {0}
    BY <1>0, <2>1
  <2>2. Equity * 99 \in Int
    BY <1>0, ValuesWhole
  <2> QED BY <2>1, <2>2, QuotientWhole
<1>6. targetValue' \in Int /\ todo' \in Seq(Symbols) /\ ranked' \in Seq(Symbols)
  BY <1>0, <1>1, <1>2, <1>5
<1>7. \A i \in DOMAIN ranked : Trading(ranked[i])
  BY <1>0 DEF CandidatesTrade
<1>8. \A i \in DOMAIN ranked' : Trading(ranked[i])'
  BY <1>1, <1>7, Zenon DEF Trading
<1>9. phase' = "trim" => \A i \in DOMAIN todo' : Trading(todo[i])'
  <2>1. phase' = "trim" => todo' = ranked'
    BY <1>1, <1>2
  <2> QED BY <1>8, <2>1, Zenon DEF Trading
<1>10. CandidatesTrade'
  BY <1>2, <1>8, <1>9 DEF CandidatesTrade
<1> QED BY <1>0, <1>1, <1>2, <1>3, <1>4, <1>6, <1>10, SameDay

\* The names that are left to do still trade.
LEMMA TailTrades ==
    ASSUME CandidatesTrade, phase \in {"trim", "buy"}, todo \in Seq(Symbols), todo # <<>>,
           todo' = Tail(todo), UNCHANGED <<bar, ranked>>, phase' \in {phase, "failed"}
    PROVE  CandidatesTrade' /\ Trading(Head(todo))
<1>1. /\ \A i \in DOMAIN ranked : Trading(ranked[i])
      /\ \A i \in DOMAIN todo : Trading(todo[i])
  BY DEF CandidatesTrade
<1>2. \A i \in DOMAIN Tail(todo) : Trading(Tail(todo)[i])
  BY <1>1, ToDo
<1>3. \A i \in DOMAIN todo' : Trading(todo[i])'
  BY <1>2, Zenon DEF Trading
<1>4. \A i \in DOMAIN ranked' : Trading(ranked[i])'
  BY <1>1, Zenon DEF Trading
<1>5. CandidatesTrade'
  BY <1>3, <1>4 DEF CandidatesTrade
<1> QED BY <1>1, <1>5, ToDo

LEMMA TrimKeeps ==
    ASSUME AccountsInvariant, Trim
    PROVE  AccountsInvariant'
<1> DEFINE s == Head(todo)
           excess == Value(s) - targetValue
<1>0. /\ BacktestTyped /\ CandidatesTrade /\ QuietStart
      /\ phase = "trim" /\ todo # <<>> /\ todo \in Seq(Symbols)
      /\ ranked \in Seq(Symbols) /\ targetValue \in Int /\ Rebalancing
      /\ \A r \in Symbols : bar[r].price \in Int
  BY InvariantParts DEF Trim, BacktestTyped, Rebalancing
<1>1. /\ todo' = Tail(todo)
      /\ UNCHANGED <<day, bar, prevClose, lastClose, ranked, targetValue>>
  BY Zenon DEF Trim
<1>2. s \in Symbols /\ Tail(todo) \in Seq(Symbols)
  BY <1>0, ToDo
<1>3. Trading(s)
  BY <1>0, ToDo DEF CandidatesTrade
<1>4. excess \div bar[s].price \in Int
  <2>1. bar[s].price \in Nat \ {0}
    <3>1. bar[s].price \in Int /\ bar[s].price > 0
      BY <1>0, <1>2, <1>3 DEF Trading
    <3> QED BY <3>1
  <2>2. excess \in Int
    BY <1>0, <1>2, ValuesWhole
  <2> QED BY <2>1, <2>2, QuotientWhole
<1>5. UNCHANGED <<cash, book, trades, phase>> \/ SellStep(s, excess \div bar[s].price)
  BY Zenon DEF Trim
<1>6. Kept /\ phase' \in {phase, "failed"} /\ NothingBought'
  <2>1. CASE UNCHANGED <<cash, book, trades, phase>>
    <3>1. Kept
      BY <1>0, <1>1, <2>1, NothingTraded
    <3>2. NothingBought'
      BY <1>0, <1>1, <2>1 DEF NothingBought, QuietStart
    <3> QED BY <2>1, <3>1, <3>2
  <2>2. CASE SellStep(s, excess \div bar[s].price)
    BY <1>0, <1>1, <1>2, <1>4, <2>2, SellStepKeeps
  <2> QED BY <1>5, <2>1, <2>2
<1>7. CandidatesTrade'
  BY <1>0, <1>1, <1>6, TailTrades
<1> QED BY <1>0, <1>1, <1>2, <1>6, <1>7, SameDay

LEMMA TrimDoneKeeps ==
    ASSUME AccountsInvariant, TrimDone
    PROVE  AccountsInvariant'
<1>0. /\ BacktestTyped /\ CandidatesTrade /\ phase = "trim"
      /\ ranked \in Seq(Symbols) /\ targetValue \in Int /\ Rebalancing
  BY InvariantParts DEF TrimDone, BacktestTyped, Rebalancing
<1>1. /\ phase' = "buy" /\ todo' = ranked
      /\ UNCHANGED <<day, bar, prevClose, lastClose, cash, book, ranked, targetValue, trades>>
  BY DEF TrimDone
<1>2. Kept
  BY <1>0, <1>1, NothingTraded
<1>3. \A i \in DOMAIN ranked : Trading(ranked[i])
  BY <1>0 DEF CandidatesTrade
<1>4. \A i \in DOMAIN ranked' : Trading(ranked[i])'
  BY <1>1, <1>3, Zenon DEF Trading
<1>5. \A i \in DOMAIN todo' : Trading(todo[i])'
  BY <1>1, <1>3, Zenon DEF Trading
<1>6. CandidatesTrade'
  BY <1>4, <1>5 DEF CandidatesTrade
<1> QED BY <1>0, <1>1, <1>2, <1>6, SameDay

\* A purchase that the cash pays for, at a price that the limits allow.
LEMMA BuyingKeeps ==
    ASSUME AccountsInvariant, phase = "buy", NEW s \in Symbols, NEW n \in Nat,
           Trading(s), BuyAllowed(s), UNCHANGED <<day, bar, prevClose>>,
           n * bar[s].price + CostOf(n * bar[s].price, "buy") <= cash,
           cash' = cash - n * bar[s].price - CostOf(n * bar[s].price, "buy"),
           book' = [book EXCEPT ![s] = Append(@, NewLot(n))],
           NEW next, Purchase(trades[s], next, day, n), trades' = [trades EXCEPT ![s] = next]
    PROVE  Kept
<1>0. /\ BacktestTyped /\ AccountsKept /\ (\A r \in Symbols : Fair(r))
      /\ day \in TradeDays
  BY InvariantParts DEF Rebalancing
<1>1. /\ cash \in Int /\ book \in [Symbols -> Seq(Lots)]
      /\ trades \in [Symbols -> [TradeDays -> DayTrades]]
      /\ bar[s].price \in Int
  BY <1>0 DEF BacktestTyped, TradeDays
<1>2. day' = day /\ bar' = bar /\ prevClose' = prevClose
  OBVIOUS
<1>3. Account(book[s], trades[s], day)
  BY <1>0 DEF AccountsKept
<1>4. Account(Append(book[s], NewLot(n)), next, day)
  BY <1>0, <1>3, PurchaseKeeps
<1>5. PICK more : more = Append(book[s], NewLot(n))
  OBVIOUS
<1>6. /\ book' = [book EXCEPT ![s] = more] /\ Account(more, next, day)
  BY <1>4, <1>5
<1>7. more \in Seq(Lots) /\ next \in [TradeDays -> DayTrades]
  BY <1>6 DEF Account
<1>8. next[day].sold = trades[s][day].sold
  <2>1. trades[s] \in [TradeDays -> DayTrades]
    BY <1>1
  <2> QED BY <1>0, <2>1, PurchaseLogged
<1>9. /\ book'[s] = more /\ trades'[s] = next
      /\ \A r \in Symbols \ {s} : book'[r] = book[r] /\ trades'[r] = trades[r]
      /\ book' \in [Symbols -> Seq(Lots)] /\ trades' \in [Symbols -> [TradeDays -> DayTrades]]
  BY <1>1, <1>6, <1>7
<1>10. \A r \in Symbols : Account(book'[r], trades'[r], day')
  <2> SUFFICES ASSUME NEW r \in Symbols PROVE Account(book'[r], trades'[r], day')
    OBVIOUS
  <2>1. CASE r = s
    BY <1>2, <1>6, <1>9, <2>1
  <2>2. CASE r # s
    <3>1. Account(book[r], trades[r], day)
      BY <1>0 DEF AccountsKept
    <3> QED BY <1>2, <1>9, <2>2, <3>1
  <2> QED BY <2>1, <2>2
<1>11. AccountsKept'
  BY <1>10, Zenon DEF AccountsKept
<1>12. cash' \in Int /\ cash' >= 0
  <2>1. n * bar[s].price \in Int
    BY <1>1
  <2>2. CostOf(n * bar[s].price, "buy") \in Int
    BY <2>1, CostWhole
  <2> DEFINE x == n * bar[s].price
             y == CostOf(n * bar[s].price, "buy")
  <2>3. x \in Int /\ y \in Int /\ x + y <= cash /\ cash' = cash - x - y
    BY <2>1, <2>2, Zenon
  <2> HIDE DEF x, y
  <2> QED BY <1>1, <2>3
<1>13. PaidFor'
  BY <1>12 DEF PaidFor
<1>14. Fair(s)'
  <2>1. prevClose[s] > 0 => bar[s].price < UpperLimit(s)
    <3>1. prevClose[s] > 0 => ~Unchecked(s)
      BY DEF Unchecked
    <3>2. Unchecked(s) \/ CanBuy(s, bar[s].quote, day, bar[s].price, prevClose[s])
      BY Zenon DEF BuyAllowed
    <3>3. CanBuy(s, bar[s].quote, day, bar[s].price, prevClose[s]) => bar[s].price < UpperLimit(s)
      BY Zenon DEF CanBuy, UpperLimit
    <3> QED BY <3>1, <3>2, <3>3
  <2>2. trades[s][day].sold > 0 /\ prevClose[s] > 0 => bar[s].price > LowerLimit(s)
    BY <1>0 DEF Fair
  <2>3. /\ UpperLimit(s)' = UpperLimit(s) /\ LowerLimit(s)' = LowerLimit(s)
        /\ (Trading(s)' <=> Trading(s))
    BY <1>2, Zenon DEF UpperLimit, LowerLimit, Trading
  <2>4. prevClose[s]' = prevClose[s] /\ bar[s].price' = bar[s].price
    BY <1>2, Zenon
  <2>5. trades[s][day].sold' = trades[s][day].sold
    BY <1>2, <1>8, <1>9, Zenon
  <2> QED BY <2>1, <2>2, <2>3, <2>4, <2>5, Zenon DEF Fair
<1>15. \A r \in Symbols : Fair(r)'
  <2> SUFFICES ASSUME NEW r \in Symbols PROVE Fair(r)'
    OBVIOUS
  <2>1. CASE r = s
    BY <1>14, <2>1
  <2>2. CASE r # s
    <3>1. trades'[r] = trades[r] /\ Fair(r)
      BY <1>0, <1>9, <2>2
    <3> QED BY <1>2, <3>1, FairStays
  <2> QED BY <2>1, <2>2
<1> QED BY <1>9, <1>11, <1>12, <1>13, <1>15 DEF Kept

LEMMA BuyKeeps ==
    ASSUME AccountsInvariant, Buy
    PROVE  AccountsInvariant'
<1> DEFINE s == Head(todo)
           price == bar[s].price
           gap == targetValue - Value(s)
           n == BuyShares(gap, price)
           skipped == gap <= MinTrade \/ BuyRaises(s) \/ ~BuyAllowed(s) \/ n = 0 \/ ~Filled(s)
<1>0. /\ BacktestTyped /\ CandidatesTrade
      /\ phase = "buy" /\ todo # <<>> /\ todo \in Seq(Symbols)
      /\ ranked \in Seq(Symbols) /\ targetValue \in Int /\ Rebalancing /\ cash \in Int
      /\ \A r \in Symbols : bar[r].price \in Int
  BY InvariantParts DEF Buy, BacktestTyped, Rebalancing
<1>1. /\ todo' = Tail(todo)
      /\ UNCHANGED <<day, bar, prevClose, lastClose, ranked, targetValue>>
  BY Zenon DEF Buy
<1>2. s \in Symbols /\ Tail(todo) \in Seq(Symbols)
  BY <1>0, ToDo
<1>3. Trading(s)
  BY <1>0, ToDo DEF CandidatesTrade
<1>4. price \in Nat \ {0}
  <2>1. bar[s].price \in Int /\ bar[s].price > 0
    BY <1>0, <1>2, <1>3 DEF Trading
  <2> QED BY <2>1
<1>5. gap \in Int
  BY <1>0, <1>2, ValuesWhole
<1>6. n \in Nat /\ (n # 0 => n * price + CostOf(n * price, "buy") <= cash)
  BY <1>0, <1>4, <1>5, BuySharesPaid
<1>7. \/ UNCHANGED <<cash, book, trades>>
      \/ /\ BuyAllowed(s) /\ n # 0
         /\ cash' = cash - n * price - CostOf(n * price, "buy")
         /\ book' = [book EXCEPT ![s] = Append(@, NewLot(n))]
         /\ trades' = [trades EXCEPT ![s][day].bought = @ + n]
  <2>1. IF skipped
          THEN UNCHANGED <<cash, book, trades>>
          ELSE /\ cash' = cash - n * price - CostOf(n * price, "buy")
               /\ book' = [book EXCEPT ![s] = Append(@, NewLot(n))]
               /\ trades' = [trades EXCEPT ![s][day].bought = @ + n]
    BY Zenon DEF Buy
  <2>2. skipped \/ (BuyAllowed(s) /\ n # 0)
    BY Zenon
  <2> HIDE DEF skipped, n
  <2> QED BY <2>1, <2>2, Zenon
<1>8. phase' \in {phase, "failed"}
  BY Zenon DEF Buy
<1>9. Kept
  <2>1. CASE UNCHANGED <<cash, book, trades>>
    BY <1>0, <1>1, <2>1, NothingTraded
  <2>2. CASE ~UNCHANGED <<cash, book, trades>>
    <3> HIDE DEF n
    <3>1. /\ BuyAllowed(s) /\ n # 0
          /\ cash' = cash - n * price - CostOf(n * price, "buy")
          /\ book' = [book EXCEPT ![s] = Append(@, NewLot(n))]
      BY <1>7, <2>2, Zenon
    <3>2. trades' = [trades EXCEPT ![s][day].bought = @ + n]
      BY <1>7, <2>2, Zenon
    <3>3. PICK next : Purchase(trades[s], next, day, n)
      BY Zenon DEF Purchase
    <3>4. trades' = [trades EXCEPT ![s] = next]
      BY <3>2, <3>3, Zenon DEF Purchase
    <3>5. n * bar[s].price + CostOf(n * bar[s].price, "buy") <= cash
      BY <1>6, <3>1, Zenon
    <3>6. UNCHANGED <<day, bar, prevClose>>
      BY <1>1, Zenon
    <3>7. n \in Nat
      BY <1>6, Zenon
    <3> HIDE DEF s
    <3>8. cash' = cash - n * bar[s].price - CostOf(n * bar[s].price, "buy")
      BY <3>1, Zenon
    <3> QED BY <1>0, <1>2, <1>3, <3>1, <3>3, <3>4, <3>5, <3>6, <3>7, <3>8, BuyingKeeps, Zenon
  <2> QED BY <2>1, <2>2
<1>10. CandidatesTrade'
  BY <1>0, <1>1, <1>8, TailTrades
<1> QED BY <1>0, <1>1, <1>2, <1>8, <1>9, <1>10, SameDay

LEMMA BuyDoneKeeps ==
    ASSUME AccountsInvariant, BuyDone
    PROVE  AccountsInvariant'
<1>0. /\ BacktestTyped /\ phase = "buy" /\ Rebalancing
      /\ ranked \in Seq(Symbols) /\ todo \in Seq(Symbols) /\ targetValue \in Int
  BY InvariantParts DEF BuyDone, BacktestTyped, Rebalancing
<1>1. /\ phase' = "close"
      /\ UNCHANGED <<day, bar, prevClose, lastClose, cash, book, ranked, todo, targetValue, trades>>
  BY DEF BuyDone
<1>2. Kept
  BY <1>0, <1>1, NothingTraded
<1>3. CandidatesTrade'
  BY <1>1 DEF CandidatesTrade
<1> QED BY <1>0, <1>1, <1>2, <1>3, SameDay

LEMMA CloseDayKeeps ==
    ASSUME AccountsInvariant, CloseDay
    PROVE  AccountsInvariant'
<1>0. /\ BacktestTyped /\ AccountsKept /\ phase = "close" /\ day \in TradeDays
  BY InvariantParts DEF CloseDay
<1>1. /\ phase' = IF day + 1 < Days THEN "open" ELSE "done"
      /\ day' = day + 1
      /\ prevClose' = [s \in Symbols |-> bar[s].close]
      /\ ranked' = <<>> /\ targetValue' = 0 /\ bar' = NoBar
      /\ UNCHANGED <<lastClose, cash, book, todo, trades>>
  BY Zenon DEF CloseDay
<1>2. day \in Int /\ 0 <= day /\ day < Days /\ Days \in Nat
  BY <1>0, WholeLog
<1>3. day' \in 0 .. Days /\ (phase' = "done" <=> day' = Days) /\ phase' \in {"open", "done"}
  BY <1>1, <1>2
<1>4. \A s \in Symbols : bar'[s].price \in Int /\ bar'[s].close \in Int /\ bar'[s].score \in Int
  BY <1>1 DEF NoBar
<1>5. \A s \in Symbols : prevClose'[s] \in Int
  BY <1>0, <1>1 DEF BacktestTyped
<1>6. ranked' \in Seq(Symbols) /\ todo' \in Seq(Symbols)
  BY <1>0, <1>1 DEF BacktestTyped
<1>7. BacktestTyped'
  BY <1>0, <1>1, <1>3, <1>4, <1>5, <1>6 DEF BacktestTyped
<1>8. CandidatesTrade'
  BY <1>3 DEF CandidatesTrade
<1>9. \A s \in Symbols : Account(book[s], trades[s], day + 1)
  BY <1>0, DayKeeps DEF AccountsKept
<1>10. AccountsKept'
  BY <1>1, <1>9, Zenon DEF AccountsKept
<1>11. QuietStart'
  <2>1. CASE phase' = "done"
    BY <2>1 DEF QuietStart
  <2>2. CASE phase' # "done"
    <3>1. day' \in TradeDays /\ day' > day
      BY <1>1, <1>2, <1>3, <2>2, WholeLog DEF TradeDays
    <3>2. ASSUME NEW s \in Symbols PROVE trades'[s][day'].bought = 0 /\ trades'[s][day'].sold = 0
      <4>1. LotsOfToday(book[s], trades[s], day)
        BY <1>0 DEF AccountsKept, Account
      <4>2. trades[s][day'].bought = 0 /\ trades[s][day'].sold = 0
        BY <3>1, <4>1 DEF LotsOfToday
      <4> QED BY <1>1, <4>2
    <3> QED BY <3>2 DEF QuietStart
  <2> QED BY <2>1, <2>2
<1>12. ~Rebalancing'
  BY <1>3 DEF Rebalancing
<1> QED BY <1>7, <1>8, <1>10, <1>11, <1>12, NextParts

LEMMA BacktestStutters ==
    ASSUME AccountsInvariant, UNCHANGED backtestVars
    PROVE  AccountsInvariant'
<1>0. /\ BacktestTyped /\ CandidatesTrade /\ AccountsKept /\ QuietStart
      /\ Rebalancing => (\A s \in Symbols : Fair(s)) /\ PaidFor
  BY InvariantParts
<1>1. /\ day' = day /\ phase' = phase /\ bar' = bar /\ prevClose' = prevClose
      /\ lastClose' = lastClose /\ cash' = cash /\ book' = book /\ ranked' = ranked
      /\ todo' = todo /\ targetValue' = targetValue /\ trades' = trades
  BY DEF backtestVars
<1>2. BacktestTyped'
  BY <1>0, <1>1, Zenon DEF BacktestTyped
<1>3. CandidatesTrade'
  BY <1>0, <1>1, Zenon DEF CandidatesTrade, Trading
<1>4. AccountsKept' /\ QuietStart'
  BY <1>0, <1>1, Zenon DEF AccountsKept, QuietStart
<1>5. Rebalancing' <=> Rebalancing
  BY <1>1, Zenon DEF Rebalancing
<1>6. Rebalancing => \A s \in Symbols : Fair(s)'
  BY <1>0, <1>1, FairStays
<1>7. Rebalancing => PaidFor'
  BY <1>0, <1>1, Zenon DEF PaidFor
<1> QED BY <1>2, <1>3, <1>4, <1>5, <1>6, <1>7, NextParts

\* Accounts stay in order, whatever days, bars and scores come.
THEOREM AccountsInOrder == BacktestSpec => []AccountsInvariant
<1>1. BacktestInit => AccountsInvariant
  BY BacktestStarts
<1>2. AccountsInvariant /\ [BacktestNext]_backtestVars => AccountsInvariant'
  <2> SUFFICES ASSUME AccountsInvariant, [BacktestNext]_backtestVars PROVE AccountsInvariant'
    OBVIOUS
  <2>1. CASE \E b \in [Symbols -> Bars], m \in ScoreTimes : OpenDay(b, m)
    BY <2>1, OpenDayKeeps
  <2>2. CASE RankDay BY <2>2, RankDayKeeps
  <2>3. CASE Drop BY <2>3, DropKeeps
  <2>4. CASE Size BY <2>4, SizeKeeps
  <2>5. CASE Trim BY <2>5, TrimKeeps
  <2>6. CASE TrimDone BY <2>6, TrimDoneKeeps
  <2>7. CASE Buy BY <2>7, BuyKeeps
  <2>8. CASE BuyDone BY <2>8, BuyDoneKeeps
  <2>9. CASE CloseDay BY <2>9, CloseDayKeeps
  <2>10. CASE UNCHANGED backtestVars BY <2>10, BacktestStutters
  <2> QED BY <2>1, <2>2, <2>3, <2>4, <2>5, <2>6, <2>7, <2>8, <2>9, <2>10 DEF BacktestNext
<1> QED BY <1>1, <1>2, PTL DEF BacktestSpec

\* Every trade of a back-test is one a real account could have made.
THEOREM TradesHold == BacktestSpec => []TradesAreReal
<1>1. AccountsInvariant => TradesAreReal
  BY InvariantHolds DEF BacktestInvariant
<1> QED BY <1>1, AccountsInOrder, PTL

=============================================================================
