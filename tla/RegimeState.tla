----------------------------- MODULE RegimeState -----------------------------
(* The market regime: the classifier that turns sub-scores into            *)
(* probabilities (regime_preclassifier) and the persistent state machine   *)
(* that confirms a regime (regime_state_machine, MarketRegimeRepository).  *)
(* Scores are hundredths, memberships ten-thousandths.  The state row and  *)
(* the history rows are written in transactions of their own, and the      *)
(* process may stop between two of them.                                   *)
EXTENDS Integers, FiniteSets, Sequences

CONSTANTS
    Days,             \* trading days an evaluation may be for
    FeatureSets,      \* sub-scores that may be observed, Missing where there is none
    ConfirmationDays, \* per regime
    MinDaysInRegime,
    ConfidenceGap,
    MaxEvaluations,
    MaxStops,
    Missing

VARIABLES
    regime,     \* the row of MarketRegimeState, or Missing
    periods,    \* MarketRegimeHistory: sequence of [regime, from, to]
    writing,    \* what an advance has still to write
    stops,      \* processes lost inside an advance
    seen        \* history: evaluations that counted, [day, candidate, founded]

regimeVars == <<regime, periods, writing, stops, seen>>

-----------------------------------------------------------------------------
(* The classifier. *)

\* REGIMES, in the order in which equal probabilities are resolved.
RegimeOrder == <<"high_position_retreat", "downtrend_market", "crowding_market", "range_market",
                 "rotation_market">>

Regimes == {RegimeOrder[i] : i \in DOMAIN RegimeOrder}

\* The sub-scores the regimes depend on (_REGIME_REQUIRED_FEATURES).
FeatureNames == {"retreat", "drawdown", "breadth", "crowding", "range", "rotation"}

Emergency == {"high_position_retreat", "downtrend_market"}

\* _REGIME_REQUIRED_FEATURES
Required(r) ==
    CASE r = "high_position_retreat" -> {"retreat"}
      [] r = "downtrend_market" -> {"drawdown", "breadth"}
      [] r = "crowding_market" -> {"crowding"}
      [] r = "range_market" -> {"breadth", "range"}
      [] r = "rotation_market" -> {"rotation", "breadth"}

Clamp(x) == IF x < 0 THEN 0 ELSE IF x > 10000 THEN 10000 ELSE x

RampUp(x, lo, hi) == Clamp(((x - lo) * 10000) \div (hi - lo))

RampDown(x, lo, hi) == 10000 - RampUp(x, lo, hi)

Band(x, lo, hi, soft) ==
    CASE lo <= x /\ x <= hi -> 10000
      [] x < lo -> RampUp(x, lo - soft, lo)
      [] OTHER -> RampDown(x, hi, hi + soft)

\* A term of a membership; a missing score adds nothing.
Term(f, name, weight, value) == IF f[name] = Missing THEN 0 ELSE (weight * value) \div 100

\* compute_regime_memberships, with the thresholds of the configuration.
Membership(r, f) ==
    200 +
    CASE r = "high_position_retreat" -> Term(f, "retreat", 100, RampUp(f.retreat, 40, 70))
      [] r = "downtrend_market" ->
            Term(f, "drawdown", 60, RampUp(f.drawdown, 40, 70))
            + Term(f, "breadth", 40, RampDown(f.breadth, 25, 50))
      [] r = "crowding_market" -> Term(f, "crowding", 100, RampUp(f.crowding, 57, 82))
      [] r = "range_market" ->
            Term(f, "breadth", 50, Band(f.breadth, 35, 60, 10)) + Term(f, "range", 50, f.range * 100)
      [] r = "rotation_market" ->
            Term(f, "rotation", 55, f.rotation * 100)
            + Term(f, "breadth", 45, RampUp(f.breadth, 35, 60))

MissingSlots(f) ==
    {slot \in Regimes \X DOMAIN f : slot[2] \in Required(slot[1]) /\ f[slot[2]] = Missing}

\* The share of the eight feature slots that is missing.
UnknownMass(f) == (10000 * Cardinality(MissingSlots(f))) \div 8

\* classify_regime_probabilities: the best membership, unless the missing
\* part outweighs it.  All memberships share one denominator.
Best(f) ==
    RegimeOrder[CHOOSE i \in DOMAIN RegimeOrder : \A j \in DOMAIN RegimeOrder :
        \/ Membership(RegimeOrder[j], f) < Membership(RegimeOrder[i], f)
        \/ Membership(RegimeOrder[j], f) = Membership(RegimeOrder[i], f) /\ i <= j]

Primary(f) == IF UnknownMass(f) > Membership(Best(f), f) THEN "UNKNOWN" ELSE Best(f)

TotalMass(f) ==
    UnknownMass(f) + Membership("high_position_retreat", f) + Membership("downtrend_market", f)
    + Membership("crowding_market", f) + Membership("range_market", f)
    + Membership("rotation_market", f)

Confidence(f) ==
    IF Primary(f) = "UNKNOWN" THEN 0 ELSE (100 * Membership(Best(f), f)) \div TotalMass(f)

Founded(r, f) == r \in Regimes => \E name \in Required(r) : f[name] # Missing

-----------------------------------------------------------------------------
(* The state machine. *)

Classes == {Primary(f) : f \in FeatureSets}

\* MarketRegimeState
RegimeRows ==
    [confirmed : Classes, since : Days, days : Nat \ {0}, candidate : Classes \cup {Missing},
     candidateDays : Nat, last : Days, confidence : {Confidence(f) : f \in FeatureSets}]

ASSUME RegimeAssumption ==
    /\ MinDaysInRegime \in Nat /\ ConfidenceGap \in Nat
    /\ MaxEvaluations \in Nat /\ MaxStops \in Nat
    /\ \A r \in DOMAIN ConfirmationDays : ConfirmationDays[r] \in Nat
    /\ FeatureSets \subseteq [FeatureNames -> Int \cup {Missing}]
    /\ Missing \notin Int /\ Missing \notin Days /\ Missing \notin RegimeRows

NothingToWrite == <<>>

RegimeInit ==
    /\ regime = Missing
    /\ periods = <<>>
    /\ writing = NothingToWrite
    /\ stops = 0
    /\ seen = <<>>

NeededDays(r) == IF r \in DOMAIN ConfirmationDays THEN ConfirmationDays[r] ELSE 2

\* The state row after a counted day on which `candidate` is not confirmed.
Watched(row, candidate) ==
    IF candidate = row.candidate
    THEN [row EXCEPT !.candidateDays = @ + 1]
    ELSE [row EXCEPT !.candidate = candidate, !.candidateDays = 1]

Confirmed(candidate, day, confidence) ==
    [confirmed |-> candidate, since |-> day, days |-> 1, candidate |-> Missing,
     candidateDays |-> 0, last |-> day, confidence |-> confidence]

\* Mutant: a day in the confirmed regime leaves the candidate's count.
Reaffirmed_KeepsCandidate(row, confidence) == [row EXCEPT !.confidence = confidence]

Reaffirmed(row, confidence) ==
    [row EXCEPT !.candidate = Missing, !.candidateDays = 0, !.confidence = confidence]

\* An emergency needs its days only.
Switches(row, candidate, confidence) ==
    /\ row.candidateDays >= NeededDays(candidate)
    /\ \/ candidate \in Emergency
       \/ /\ confidence >= row.confidence + ConfidenceGap
          /\ row.days >= MinDaysInRegime

CountedRow(row, day) == [row EXCEPT !.last = day, !.days = @ + 1]

\* advance decides: the transactions that follow, in their order.
AdvanceRegime(day, f) ==
    /\ writing = NothingToWrite
    /\ Len(seen) < MaxEvaluations
    /\ LET candidate == Primary(f)
           confidence == Confidence(f)
           counted == CountedRow(regime, day)
           watched == Watched(counted, candidate)
           fresh == Confirmed(candidate, day, confidence)
           opens == [regime |-> candidate, from |-> day, to |-> Missing]
       IN  /\ writing' =
                CASE regime = Missing -> <<[save |-> fresh], [add |-> opens]>>
                  [] regime # Missing /\ regime.last = day -> <<[save |-> regime]>>
                  [] regime # Missing /\ regime.last # day /\ candidate = regime.confirmed ->
                        <<[save |-> Reaffirmed(counted, confidence)]>>
                  [] OTHER ->
                        IF Switches(watched, candidate, confidence)
                        THEN <<[close |-> day], [save |-> fresh], [add |-> opens]>>
                        ELSE <<[save |-> watched]>>
           /\ seen' = IF regime # Missing /\ regime.last = day THEN seen
                      ELSE Append(seen, [day |-> day, candidate |-> candidate,
                                         founded |-> Founded(candidate, f)])
    /\ UNCHANGED <<regime, periods, stops>>

\* close_active_history: the newest open row.
HistoryClosed(day) ==
    LET open == {i \in DOMAIN periods : periods[i].to = Missing}
    IN  IF open = {} THEN periods
        ELSE [periods EXCEPT ![CHOOSE i \in open : \A j \in open : j <= i].to = day]

\* One transaction of the repository.
Write ==
    /\ writing # NothingToWrite
    /\ LET w == Head(writing) IN
       /\ periods' = CASE "close" \in DOMAIN w -> HistoryClosed(w.close)
                    [] "add" \in DOMAIN w -> Append(periods, w.add)
                    [] OTHER -> periods
       /\ regime' = IF "save" \in DOMAIN w THEN w.save ELSE regime
    /\ writing' = Tail(writing)
    /\ UNCHANGED <<stops, seen>>

\* The process stops inside an advance.
Stop ==
    /\ writing # NothingToWrite
    /\ stops < MaxStops
    /\ stops' = stops + 1
    /\ writing' = NothingToWrite
    /\ UNCHANGED <<regime, periods, seen>>

RegimeNext ==
    \/ \E day \in Days, f \in FeatureSets : AdvanceRegime(day, f)
    \/ Write
    \/ Stop

RegimeSpec == RegimeInit /\ [][RegimeNext]_regimeVars

-----------------------------------------------------------------------------

\* The last n evaluations that counted.
LastSeen(n) == {seen[i] : i \in {j \in DOMAIN seen : j > Len(seen) - n}}

\* A regime replaces another only after its own confirmation days in a row,
\* each classified from a score that the regime needs; and unless the
\* process stopped, the one open row of the history is the confirmed
\* regime since its day (advance, classify_regime_probabilities).
RegimeIsConfirmed ==
    writing = NothingToWrite /\ regime # Missing =>
        /\ stops = 0 /\ regime.days = 1 /\ Len(periods) > 1 =>
            /\ Len(seen) >= NeededDays(regime.confirmed)
            /\ \A e \in LastSeen(NeededDays(regime.confirmed)) :
                e.candidate = regime.confirmed /\ e.founded
        /\ stops = 0 =>
            {r \in {periods[i] : i \in DOMAIN periods} : r.to = Missing}
                = {[regime |-> regime.confirmed, from |-> regime.since, to |-> Missing]}
=============================================================================
