---------------------------- MODULE PriceLimits ----------------------------
(***************************************************************************)
(* The A-share price limits of a symbol on a day: the rule that applies    *)
(* (listing stage, quoted rates, board), the two limit prices it gives and *)
(* whether an order at the execution price may buy or sell.                *)
(*                                                                         *)
(* Prices are in ticks.  A quoted rate is in hundredths of what the field  *)
(* holds: the fraction 0.10 is 10, the percentage 10 is 1000.              *)
(***************************************************************************)
EXTENDS Integers

CONSTANTS
    BoardOf,    \* the board of each symbol
    Effective,  \* the day main-board ST names go from 5% to 10%
    NoValue     \* a field that is missing

Unlimited == 1000000

\* What the day's metadata of a symbol may hold.  A risk flag can be the
\* text "false"; a name can tell the risk when the flag is missing.
Quote(stage, up, down, risk, name, upper, lower) ==
    [stage |-> stage, up |-> up, down |-> down, risk |-> risk, name |-> name,
     upper |-> upper, lower |-> lower]

FreeStages == {"IPO_FIRST_DAY", "RELISTING_FIRST_DAY", "NO_LIMIT", "NONE_LIMIT"}

\* extract_risk_warning: the flag, read as text when it is text, else the
\* name.
ExtractRisk(q) ==
    IF q.risk # NoValue THEN q.risk = "yes" ELSE IF q.name # NoValue THEN q.name = "ST" ELSE NoValue

\* _meta_risk_warning, which the execution passes on: bool() of the flag,
\* so any non-empty text is TRUE.
MetaRisk(q) == IF q.risk = NoValue THEN NoValue ELSE q.risk \in {"yes", "text false"}

Risky(q) == IF MetaRisk(q) # NoValue THEN MetaRisk(q) ELSE ExtractRisk(q) = TRUE

\* _normalize_rate: a percentage becomes a fraction; what is not in (0, 1]
\* raises.
RateOk(raw) == raw > 0 /\ (raw > 100 => raw \div 100 <= 100)

Normalized(raw) == IF raw > 100 THEN raw \div 100 ELSE raw

Limits(up, down) == [ok |-> TRUE, up |-> up, down |-> down]

Invalid == [ok |-> FALSE, up |-> 0, down |-> 0]

\* _quote_limit_rule: a missing side takes the rate of the other.
QuotedRule(q) ==
    LET up == IF q.up # NoValue THEN q.up ELSE q.down
        down == IF q.down # NoValue THEN q.down ELSE q.up
    IN  IF RateOk(up) /\ RateOk(down) THEN Limits(Normalized(up), Normalized(down)) ELSE Invalid

BoardRate(symbol, q, day) ==
    CASE BoardOf[symbol] \in {"STAR", "ChiNext"} -> 20
      [] BoardOf[symbol] = "BSE" -> 30
      [] OTHER -> IF Risky(q) /\ day < Effective THEN 5 ELSE 10

\* resolve_price_limit_rule: stage, then quoted rates, then the board's.
Rule(symbol, q, day) ==
    IF q.stage \in FreeStages THEN Limits(Unlimited, Unlimited)
    ELSE IF q.up # NoValue \/ q.down # NoValue THEN QuotedRule(q)
    ELSE Limits(BoardRate(symbol, q, day), BoardRate(symbol, q, day))

\* round_to_tick: half up.
RoundToTick(hundredths) == (hundredths + 50) \div 100

LimitUpPrice(prev, rule) ==
    IF rule.up = Unlimited THEN Unlimited ELSE RoundToTick(prev * (100 + rule.up))

LimitDownPrice(prev, rule) ==
    IF rule.down = Unlimited THEN -Unlimited ELSE RoundToTick(prev * (100 - rule.down))

\* A limit price that is there but not positive is refused.
PriceOk(p) == p = NoValue \/ p > 0

\* Mutant: an order at the limit price itself is filled.
CanBuy_AtLimit(symbol, q, day, price, prev) ==
    IF q.upper # NoValue THEN price <= q.upper
    ELSE price <= LimitUpPrice(prev, Rule(symbol, q, day))

\* can_buy_with_context: an actual limit price goes before any rate.
CanBuy(symbol, q, day, price, prev) ==
    IF q.upper # NoValue THEN price < q.upper
    ELSE price < LimitUpPrice(prev, Rule(symbol, q, day))

CanSell(symbol, q, day, price, prev) ==
    IF q.lower # NoValue THEN price > q.lower
    ELSE price > LimitDownPrice(prev, Rule(symbol, q, day))

\* Looking a side up raises on a limit price that is not one, on either
\* side, and on a bad rate when the side has no limit price.
BuyDefined(symbol, q, day) ==
    PriceOk(q.upper) /\ PriceOk(q.lower) /\ (q.upper # NoValue \/ Rule(symbol, q, day).ok)

SellDefined(symbol, q, day) ==
    PriceOk(q.upper) /\ PriceOk(q.lower) /\ (q.lower # NoValue \/ Rule(symbol, q, day).ok)

\* inspect_price_limit_meta and the ambiguity of an old main-board cell: no
\* price or rate for the side, and nothing tells ST from ordinary.
Ambiguous(symbol, q, day, price, rate) ==
    /\ day < Effective
    /\ BoardOf[symbol] = "main"
    /\ ExtractRisk(q) = NoValue /\ q.stage = NoValue
    /\ price = NoValue /\ rate = NoValue

BuyAmbiguous(symbol, q, day) == Ambiguous(symbol, q, day, q.upper, q.up)

SellAmbiguous(symbol, q, day) == Ambiguous(symbol, q, day, q.lower, q.down)
=============================================================================
