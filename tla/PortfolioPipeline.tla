-------------------------- MODULE PortfolioPipeline --------------------------
(* run_portfolio_pipeline: eligibility, score, target by score band,       *)
(* exposure caps, the budget of the regime and turnover control, one       *)
(* action per stage.  Weights are integers in a unit in which the halves   *)
(* and band middles of the configuration are whole; scores are integers.   *)
EXTENDS Totals, SequencesExt

CONSTANTS
    Names,           \* a set of integers: symbols in their sorting order
    Offers,          \* candidates a symbol may come with, NoOffer included
    Holdings,        \* weights a symbol may be held with
    KnownScores,     \* position_scores a held symbol may have, NoScore included
    NoOffer, NoScore,
    MinLiquidity, MinCoverage,
    ComponentWeights, \* the weights of the score's components, in percent
    NeutralScore,
    Starter, Normal, HighConviction, ReduceBelow, ExitBelow,   \* score thresholds
    Bands,           \* [band -> [lo, hi]], watch excluded
    MaxSingle,
    Groupings,       \* the constrained fields, in the order of _GROUP_CAPS
    GroupOf,         \* [field -> [Names -> key]], 0 when a symbol has none
    GroupCap,        \* [field -> weight]
    RegimeBudget, MinDelta, MaxTurnover

BuyBands == {"starter", "normal", "high_conviction"}

\* What the configuration and the arguments of a call are.
ASSUME PipelineAssumption ==
    /\ Names \subseteq Int /\ IsFiniteSet(Names)
    /\ NoScore \notin Int
    /\ Holdings \subseteq Nat
    /\ KnownScores \subseteq Int \cup {NoScore}
    /\ \A o \in Offers \ {NoOffer} :
          /\ o.score \in Int \cup {NoScore}
          /\ \A c \in DOMAIN ComponentWeights : o.components[c] \in Int \cup {NoScore}
    /\ IsFiniteSet(DOMAIN ComponentWeights)
    /\ \A c \in DOMAIN ComponentWeights : ComponentWeights[c] \in Int
    /\ NeutralScore \in Int
    /\ Starter \in Int /\ Normal \in Int /\ HighConviction \in Int
    /\ Starter <= Normal /\ Normal <= HighConviction
    /\ ReduceBelow \in Int /\ ExitBelow \in Int
    /\ \A band \in BuyBands : Bands[band].lo \in Nat /\ Bands[band].hi \in Nat
    /\ MaxSingle \in Nat /\ RegimeBudget \in Nat /\ MaxTurnover \in Nat /\ MinDelta \in Int
    /\ Groupings \in Seq(DOMAIN GroupCap)
    /\ \A field \in DOMAIN GroupCap : GroupCap[field] \in Nat

VARIABLES
    stage,     \* the last stage that has run
    offer,     \* the candidate of a symbol
    own,       \* its current weight
    known,     \* its position_score
    planned,   \* its target after caps and budget
    target,    \* its target so far
    action     \* the action that is returned for it

pipelineVars == <<stage, offer, own, known, planned, target, action>>

NoAction == [s \in Names |-> "none"]

PipelineInit ==
    /\ stage = "idle"
    /\ offer = [s \in Names |-> NoOffer]
    /\ own = [s \in Names |-> 0]
    /\ known = [s \in Names |-> NoScore]
    /\ planned = own
    /\ target = own
    /\ action = NoAction

\* The arguments of the call.
Receive ==
    /\ stage = "idle"
    /\ stage' = "received"
    /\ offer' \in [Names -> Offers]
    /\ own' \in [Names -> Holdings]
    /\ known' \in [Names -> KnownScores]
    /\ \A s \in Names : own'[s] = 0 => known'[s] = NoScore
    /\ planned' = own'
    /\ target' = own'
    /\ UNCHANGED action

Abs(n) == IF n < 0 THEN -n ELSE n

\* evaluate_eligibility
EligibleOffer(o) ==
    /\ o.quoted /\ ~o.suspended /\ ~o.invalidated /\ ~o.over_risk
    /\ o.liquidity = NoScore \/ o.liquidity >= MinLiquidity
    /\ o.coverage = NoScore \/ o.coverage >= MinCoverage

\* score_candidate: a missing component counts as neutral, risk subtracts.
ScoreCandidate(o) ==
    LET value(c) == IF o.components[c] = NoScore THEN NeutralScore ELSE o.components[c]
        part == [c \in DOMAIN ComponentWeights |->
                    (IF c = "risk" THEN -1 ELSE 1) * ComponentWeights[c] * value(c)]
        sum == Total(part, DOMAIN part) \div 100
    IN  IF sum < 0 THEN 0 ELSE IF sum > 100 THEN 100 ELSE sum

Candidate(s) == offer[s] # NoOffer /\ EligibleOffer(offer[s])

\* A rejected candidate that is held falls back on its position_score.
Score(s) ==
    IF ~Candidate(s) THEN known[s]
    ELSE IF offer[s].score # NoScore THEN offer[s].score ELSE ScoreCandidate(offer[s])

\* The symbols the pipeline works on.
States == {s \in Names : Candidate(s) \/ own[s] > 0}

Band(score) ==
    CASE score >= HighConviction -> "high_conviction"
      [] score < HighConviction /\ score >= Normal -> "normal"
      [] score < Normal /\ score >= Starter -> "starter"
      [] OTHER -> "watch"

\* Stage 3: a target below the band is raised to its middle, under the
\* single-stock limit, which binds only what is bought.
InitialTarget(s) ==
    LET w == own[s]
        score == Score(s)
        band == Band(score)
        lo == Bands[band].lo
        hi == Bands[band].hi
        middle == (lo + hi) \div 2
    IN  CASE score = NoScore -> w
          [] score # NoScore /\ score < ExitBelow /\ w > 0 -> 0
          [] score # NoScore /\ score >= ExitBelow /\ score < ReduceBelow /\ w > 0 -> w \div 2
          [] OTHER ->
                IF band = "watch" \/ (lo <= w /\ w <= hi) THEN w
                ELSE IF w > hi THEN hi
                ELSE IF middle > MaxSingle THEN MaxSingle ELSE middle

SizeTargets ==
    /\ stage = "received"
    /\ stage' = "sized"
    /\ target' = [s \in Names |-> IF s \in States THEN InitialTarget(s) ELSE 0]
    /\ UNCHANGED <<offer, own, known, planned, action>>

\* The lowest score goes first; a symbol without a score precedes all.
CutRank(s) == IF Score(s) = NoScore THEN -1 ELSE Score(s)

CutBefore(a, b) == CutRank(a) < CutRank(b) \/ (CutRank(a) = CutRank(b) /\ a < b)

CutLast(S) == CHOOSE s \in S : \A x \in S \ {s} : CutBefore(x, s)

\* What is left of a member of group S once it gave what exceeds the cap.
CutOne(t, s, S, cap) ==
    LET excess == Total(t, S) - cap
    IN  IF excess <= 0 THEN t
        ELSE [t EXCEPT ![s] = IF t[s] < excess THEN 0 ELSE t[s] - excess]

\* Mutant: only the first member is cut.
CutToFit_Once(t, S, cap) ==
    IF S = {} THEN t
    ELSE CutOne(t, CHOOSE s \in S : \A x \in S \ {s} : CutBefore(s, x), S, cap)

\* Members are cut, one after the other, until the group fits.
CutToFit(t, S, cap) ==
    MapThenFoldSet(LAMBDA s, acc : CutOne(acc, s, S, cap), t, LAMBDA s : s, CutLast, S)

\* The groups of one field are disjoint.
CapField(t, field) ==
    LET members(s) == {x \in States : GroupOf[field][x] = GroupOf[field][s]}
    IN  [s \in Names |->
            IF s \notin States \/ GroupOf[field][s] = 0 THEN t[s]
            ELSE CutToFit(t, members(s), GroupCap[field])[s]]

\* Stage 4.
CapGroups ==
    /\ stage = "sized"
    /\ stage' = "capped"
    /\ target' = FoldLeft(CapField, target, Groupings)
    /\ UNCHANGED <<offer, own, known, planned, action>>

\* Stage 5.
FitBudget ==
    /\ stage = "capped"
    /\ stage' = "budgeted"
    /\ target' = CutToFit(target, States, RegimeBudget)
    /\ planned' = target'
    /\ UNCHANGED <<offer, own, known, action>>

Turnover(t) == Total([s \in Names |-> Abs(t[s] - own[s])], Names)

\* Stage 6: small moves are dropped, then the smallest ones until the
\* turnover fits.  A dropped move goes back to the current weight.
DropSmall(t) ==
    [s \in Names |-> IF Abs(t[s] - own[s]) < MinDelta THEN own[s] ELSE t[s]]

\* Moves in the order of their sizes.
Move(t, s) == Abs(t[s] - own[s])

Smaller(t, a, b) == Move(t, a) < Move(t, b) \/ (Move(t, a) = Move(t, b) /\ a < b)

Largest(t, S) == CHOOSE s \in S : \A x \in S \ {s} : Smaller(t, x, s)

CancelOne(t, s) == IF Turnover(t) <= MaxTurnover THEN t ELSE [t EXCEPT ![s] = own[s]]

Cancel(t) ==
    MapThenFoldSet(LAMBDA s, acc : CancelOne(acc, s), t, LAMBDA s : s,
                   LAMBDA S : Largest(t, S), {s \in Names : Move(t, s) > 0})

LimitTurnover ==
    /\ stage = "budgeted"
    /\ stage' = "limited"
    /\ target' = Cancel(DropSmall(target))
    /\ UNCHANGED <<offer, own, known, planned, action>>

\* The answer: what to do with a symbol follows from where its target ended.
ActionOf(s) ==
    CASE s \notin States -> "none"
      [] s \in States /\ target[s] > own[s] ->
            IF Band(Score(s)) \in BuyBands THEN Band(Score(s)) ELSE "normal"
      [] s \in States /\ target[s] < own[s] -> IF target[s] = 0 THEN "exit" ELSE "reduce"
      [] OTHER -> IF own[s] > 0 THEN "hold" ELSE "watch"

Emit ==
    /\ stage = "limited"
    /\ stage' = "done"
    /\ action' = [s \in Names |-> ActionOf(s)]
    /\ UNCHANGED <<offer, own, known, planned, target>>

PipelineNext == Receive \/ SizeTargets \/ CapGroups \/ FitBudget \/ LimitTurnover \/ Emit

PipelineSpec == PipelineInit /\ [][PipelineNext]_pipelineVars

-----------------------------------------------------------------------------

\* The group that a field puts a symbol into.
Members(field, s) == {x \in Names : GroupOf[field][s] # 0 /\ GroupOf[field][x] = GroupOf[field][s]}

\* The plan before turnover control satisfies every cap and the budget at
\* once, although each is enforced after the others; what is finally bought
\* is a scored name within the single-stock limit, the turnover fits, every
\* departure from the plan is a move that was cancelled whole, and a name
\* that is only watched is not held (run_portfolio_pipeline, stages 3 to 6).
PlanIsWithinLimits ==
    /\ stage \in {"budgeted", "limited", "done"} =>
        /\ Total(planned, Names) <= RegimeBudget
        /\ \A field \in Range(Groupings), s \in Names :
             Total(planned, Members(field, s)) <= GroupCap[field]
    /\ stage = "done" =>
        /\ Turnover(target) <= MaxTurnover
        /\ \A s \in Names :
             /\ target[s] \in {planned[s], own[s]}
             /\ action[s] \in BuyBands =>
                    target[s] <= MaxSingle /\ Score(s) >= Starter
             /\ action[s] = "watch" => target[s] = 0

-----------------------------------------------------------------------------
(* Why the plan is within its limits: a later stage only lowers a target   *)
(* towards what the earlier ones allow, or goes back to the current weight. *)

\* A target above the current weight is a purchase of a scored name.
Bought(t) ==
    \A s \in Names :
        \/ t[s] <= own[s]
        \/ t[s] <= MaxSingle /\ Score(s) \in Int /\ Score(s) >= Starter

\* Only symbols the pipeline works on have a target.
OnlyStates(t) == \A s \in Names \ States : t[s] = 0

WithinCaps(t) ==
    \A field \in Range(Groupings), s \in Names :
        Total(t, Members(field, s)) <= GroupCap[field]

Weights == [Names -> Nat]

PlanInvariant ==
    /\ offer \in [Names -> Offers \cup {NoOffer}]
    /\ known \in [Names -> KnownScores \cup {NoScore}]
    /\ own \in Weights /\ target \in Weights /\ planned \in Weights
    /\ stage \in {"idle", "received", "sized", "capped", "budgeted", "limited", "done"}
    /\ stage \in {"sized", "capped"} => Bought(target) /\ OnlyStates(target)
    /\ stage = "capped" => WithinCaps(target)
    /\ stage = "budgeted" => target = planned
    /\ stage \in {"budgeted", "limited", "done"} =>
          Bought(planned) /\ WithinCaps(planned) /\ Total(planned, Names) <= RegimeBudget
    /\ stage \in {"limited", "done"} =>
          /\ Turnover(target) <= MaxTurnover
          /\ \A s \in Names : target[s] \in {planned[s], own[s]}
    /\ stage = "done" => action = [s \in Names |-> ActionOf(s)]
=============================================================================
