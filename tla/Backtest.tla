------------------------------ MODULE Backtest ------------------------------
(***************************************************************************)
(* run_topk_backtest: day by day, a TopK equal-weight portfolio is brought *)
(* to its targets at the day's execution price, under T+1, suspensions,    *)
(* price limits and trading costs.                                         *)
(*                                                                         *)
(* A rebalance is a sequence of steps: drop, trim, buy, one name at a      *)
(* time.  Money and shares are integers (what is rounded in a division is  *)
(* the finest unit); the day's bar of a symbol is drawn when the day opens.*)
(***************************************************************************)
EXTENDS PriceLimits, Totals, Sequences, SequencesExt

CONSTANTS
    Symbols,          \* the panel
    Position,         \* the place of a symbol in the panel
    Bars,             \* what a symbol's day may look like
    ScoreTimes,       \* when a day's scores were made, and for which day
    Days,             \* number of days
    Interval,         \* rebalance_interval
    TopK,             \* names held
    InitialCash,
    Lot,              \* shares per lot
    CommissionMin,    \* least commission of a trade
    CommissionPer,    \* value per unit of commission
    StampPer,         \* value per unit of stamp tax
    SlippagePer,      \* value per unit of slippage
    LimitOrders,      \* ExecutionModel is LIMIT_PRICE
    FailOnAmbiguous   \* fail_on_ambiguous_price_limit

\* What the arguments of a back-test are.
ASSUME BacktestAssumption ==
    /\ IsFiniteSet(Symbols)
    /\ \A s \in Symbols : Position[s] \in Int
    /\ \A s, r \in Symbols : s # r => Position[s] # Position[r]
    /\ \A b \in Bars : b.price \in Int /\ b.close \in Int /\ b.score \in Int
    /\ Days \in Nat \ {0} /\ TopK \in Nat /\ InitialCash \in Int
    /\ Lot \in Nat \ {0}
    /\ CommissionMin \in Nat /\ CommissionPer \in Nat \ {0}
    /\ StampPer \in Nat \ {0} /\ SlippagePer \in Nat \ {0}

VARIABLES
    day,       \* index of the day
    phase,     \* step of the day
    bar,       \* the day's bar of each symbol
    prevClose, \* closes of the previous day; 0 is none
    lastClose, \* last valid close of each symbol, today's included
    cash,
    book,      \* PositionBook of each symbol: its lots, oldest first
    ranked,    \* the target names, best score first
    todo,      \* names the current step has still to visit
    targetValue,
    trades     \* shares bought and sold, per symbol and day

backtestVars == <<day, phase, bar, prevClose, lastClose, cash, book, ranked, todo, targetValue, trades>>

MinTrade == 1

Less(a, b) == IF a < b THEN a ELSE b

More(a, b) == IF a > b THEN a ELSE b

\* cost_of
CostOf(value, side) ==
    IF value <= 0 THEN 0
    ELSE More(value \div CommissionPer, CommissionMin) + value \div SlippagePer
         + IF side = "sell" THEN value \div StampPer ELSE 0

----------------------------------------------------------------------------
(* PositionBook.                                                           *)

SharesOf(lots) == [i \in DOMAIN lots |-> lots[i].shares]

SharesIn(lots) == Total(SharesOf(lots), DOMAIN lots)

Shares(s) == SharesIn(book[s])

\* A buy is available from the next day.
NewLot(shares) == [shares |-> shares, available |-> day + 1]

AvailableShares(s) == Total(SharesOf(book[s]), {i \in DOMAIN book[s] : book[s][i].available <= day})

\* One lot of pop_available: what is left to take, and the lots that stay.
Take(acc, lot) ==
    LET n == IF lot.available > day THEN 0 ELSE Less(lot.shares, acc.left)
        rest == lot.shares - n
    IN  [left |-> acc.left - n,
         lots |-> IF rest > 0 THEN Append(acc.lots, [lot EXCEPT !.shares = rest]) ELSE acc.lots]

\* pop_available: first in, first out, over the lots that may be sold;
\* empty lots go.
Popped(s, shares) == FoldLeft(Take, [left |-> shares, lots |-> <<>>], book[s]).lots

----------------------------------------------------------------------------
(* What may trade.                                                         *)

\* tradable: not suspended, a valid price, and a limit order inside the
\* day's range unless the range is unknown.
Purchasable(s) ==
    /\ bar[s].volume /\ bar[s].price > 0
    /\ LimitOrders => bar[s].range # "outside"

\* resolve_fill: an order at a limit needs the range to be known.
Filled(s) == LimitOrders => bar[s].range = "inside"

\* Without a close on the previous day there is no price-limit check.
Unchecked(s) == prevClose[s] = 0

BuyAllowed(s) ==
    Unchecked(s) \/ CanBuy(s, bar[s].quote, day, bar[s].price, prevClose[s])

SellAllowed(s) ==
    Unchecked(s) \/ CanSell(s, bar[s].quote, day, bar[s].price, prevClose[s])

\* A rule that cannot be built, or an ambiguous one when that is fatal.
BuyRaises(s) ==
    /\ ~Unchecked(s)
    /\ \/ ~BuyDefined(s, bar[s].quote, day)
       \/ FailOnAmbiguous /\ BuyAmbiguous(s, bar[s].quote, day)

SellRaises(s) ==
    /\ ~Unchecked(s)
    /\ \/ ~SellDefined(s, bar[s].quote, day)
       \/ FailOnAmbiguous /\ SellAmbiguous(s, bar[s].quote, day)

\* The last valid close, which may be today's, stands in for a missing
\* execution price.
MarkPrice(s) == IF bar[s].price > 0 THEN bar[s].price ELSE lastClose[s]

Value(s) == Shares(s) * MarkPrice(s)

Equity == cash + Total([s \in Symbols |-> Value(s)], Symbols)

\* The names in the order of their scores (ties keep the panel's order).
Eligible(b) == {s \in Symbols : b[s].score > 0 /\ b[s].volume /\ b[s].price > 0
                                /\ (LimitOrders => b[s].range # "outside")}

Outranks(b, x, y) ==
    b[x].score > b[y].score \/ (b[x].score = b[y].score /\ Position[x] < Position[y])

ByScore(names, b) ==
    LET places == 1 .. Cardinality(names)
    IN  CHOOSE q \in [places -> names] : \A i, j \in places : i < j => Outranks(b, q[i], q[j])

Top(q) == SubSeq(q, 1, Less(TopK, Len(q)))

Best == Top(ByScore(Eligible(bar), bar))

Reachable(s) == BuyAllowed(s) \/ Shares(s) > 0

Passed == \E i \in DOMAIN Best : ~Reachable(Best[i])

\* The best TopK; a name that is not held and opens at its limit gives its
\* place to the next.
Ranked ==
    IF Passed THEN Top(ByScore({s \in Eligible(bar) : Reachable(s)}, bar)) ELSE Best

\* The limits of the best are looked up, and those of all once one is
\* passed over.
RankRaises ==
    \/ \E i \in DOMAIN Best : BuyRaises(Best[i])
    \/ Passed /\ \E s \in Eligible(bar) : BuyRaises(s)

----------------------------------------------------------------------------
(* The day.                                                                *)

NoTrades == [s \in Symbols |-> [d \in 0 .. Days - 1 |-> [bought |-> 0, sold |-> 0]]]

NoBar == [s \in Symbols |-> [price |-> 0, close |-> 0, volume |-> FALSE, range |-> "unknown",
                             score |-> 0, quote |-> NoValue]]

BacktestInit ==
    /\ day = 0 /\ phase = "open"
    /\ bar = NoBar
    /\ prevClose = [s \in Symbols |-> 0] /\ lastClose = [s \in Symbols |-> 0]
    /\ cash = InitialCash
    /\ book = [s \in Symbols |-> <<>>]
    /\ ranked = <<>> /\ todo = <<>> /\ targetValue = 0
    /\ trades = NoTrades

\* _check_score_time_contract
ScoreTimesOk(m) ==
    m.known /\ m.feature <= m.available /\ m.available < m.executable /\ m.for = day

RebalanceDay == day % Interval = 0

\* A day opens: scores are checked before a rebalance, and the names to
\* drop are the holdings outside the target.
OpenDay(b, m) ==
    /\ phase = "open"
    /\ bar' = b
    /\ lastClose' = [s \in Symbols |-> IF b[s].close > 0 THEN b[s].close ELSE lastClose[s]]
    /\ phase' = IF ~RebalanceDay THEN "close" ELSE IF ScoreTimesOk(m) THEN "rank" ELSE "failed"
    /\ UNCHANGED <<day, prevClose, cash, book, ranked, todo, targetValue, trades>>

RankDay ==
    /\ phase = "rank"
    /\ IF RankRaises
         THEN phase' = "failed" /\ UNCHANGED <<ranked, todo>>
         ELSE /\ phase' = "drop"
              /\ ranked' = Ranked
              /\ todo' = SetToSeq({s \in Symbols : Shares(s) > 0} \ ToSet(Ranked))
    /\ UNCHANGED <<day, bar, prevClose, lastClose, cash, book, targetValue, trades>>

\* _PortfolioState.sell of what is available, if the order is filled.
Sell(s, wanted) ==
    LET sold == Less(wanted, AvailableShares(s))
        value == sold * bar[s].price
    IN  IF sold <= 0 \/ ~Filled(s)
          THEN UNCHANGED <<cash, book, trades>>
          ELSE /\ book' = [book EXCEPT ![s] = Popped(s, sold)]
               /\ cash' = cash + value - CostOf(value, "sell")
               /\ trades' = [trades EXCEPT ![s][day].sold = @ + sold]

\* A sell order that may go out, one that is skipped, and one that raises.
SellStep(s, wanted) ==
    IF ~Purchasable(s) THEN UNCHANGED <<cash, book, trades, phase>>
    ELSE IF SellRaises(s) THEN phase' = "failed" /\ UNCHANGED <<cash, book, trades>>
    ELSE /\ IF SellAllowed(s) THEN Sell(s, wanted) ELSE UNCHANGED <<cash, book, trades>>
         /\ UNCHANGED phase

Drop ==
    /\ phase = "drop" /\ todo # <<>>
    /\ SellStep(Head(todo), Shares(Head(todo)))
    /\ todo' = Tail(todo)
    /\ UNCHANGED <<day, bar, prevClose, lastClose, ranked, targetValue>>

\* Equal weights of 99% of the portfolio at the day's prices.
Size ==
    /\ phase = "drop" /\ todo = <<>>
    /\ IF ranked = <<>>
         THEN phase' = "close" /\ UNCHANGED <<todo, targetValue>>
         ELSE /\ phase' = "trim"
              /\ targetValue' = (Equity * 99) \div (100 * Len(ranked))
              /\ todo' = ranked
    /\ UNCHANGED <<day, bar, prevClose, lastClose, cash, book, ranked, trades>>

Trim ==
    LET s == Head(todo)
        excess == Value(s) - targetValue
    IN  /\ phase = "trim" /\ todo # <<>>
        /\ IF excess <= MinTrade THEN UNCHANGED <<cash, book, trades, phase>>
           ELSE SellStep(s, excess \div bar[s].price)
        /\ todo' = Tail(todo)
        /\ UNCHANGED <<day, bar, prevClose, lastClose, ranked, targetValue>>

TrimDone ==
    /\ phase = "trim" /\ todo = <<>>
    /\ phase' = "buy" /\ todo' = ranked
    /\ UNCHANGED <<day, bar, prevClose, lastClose, cash, book, ranked, targetValue, trades>>

RoundLots(shares) == (shares \div Lot) * Lot

\* One pass of the fit of value plus cost into the cash.
Fit(value) == IF value + CostOf(value, "buy") <= cash THEN value
              ELSE More(cash - CostOf(value, "buy"), 0)

\* _PortfolioState.buy: the lots that the cash pays for, cost included.
BuyShares(value, price) ==
    LET wanted == Less(value, cash)
        fitted == Fit(Fit(wanted))
        first == RoundLots(fitted \div price)
        cost == CostOf(first * price, "buy")
        second == RoundLots(More(cash - cost, 0) \div price)
        pays(n) == n * price + CostOf(n * price, "buy") <= cash
    IN  IF wanted <= MinTrade \/ fitted <= MinTrade THEN 0
        ELSE IF first * price <= MinTrade THEN 0
        ELSE IF pays(first) THEN first
        ELSE IF pays(second) THEN second
        ELSE 0

Buy ==
    LET s == Head(todo)
        price == bar[s].price
        gap == targetValue - Value(s)
        n == BuyShares(gap, price)
    IN  /\ phase = "buy" /\ todo # <<>>
        /\ IF gap <= MinTrade \/ BuyRaises(s) \/ ~BuyAllowed(s) \/ n = 0 \/ ~Filled(s)
             THEN UNCHANGED <<cash, book, trades>>
             ELSE /\ cash' = cash - n * price - CostOf(n * price, "buy")
                  /\ book' = [book EXCEPT ![s] = Append(@, NewLot(n))]
                  /\ trades' = [trades EXCEPT ![s][day].bought = @ + n]
        /\ phase' = IF gap > MinTrade /\ BuyRaises(s) THEN "failed" ELSE phase
        /\ todo' = Tail(todo)
        /\ UNCHANGED <<day, bar, prevClose, lastClose, ranked, targetValue>>

BuyDone ==
    /\ phase = "buy" /\ todo = <<>>
    /\ phase' = "close"
    /\ UNCHANGED <<day, bar, prevClose, lastClose, cash, book, ranked, todo, targetValue, trades>>

\* The day's equity and holdings are logged; closes become the next day's
\* previous closes.
CloseDay ==
    /\ phase = "close"
    /\ phase' = IF day + 1 < Days THEN "open" ELSE "done"
    /\ day' = day + 1
    /\ prevClose' = [s \in Symbols |-> bar[s].close]
    /\ ranked' = <<>> /\ targetValue' = 0 /\ bar' = NoBar
    /\ UNCHANGED <<lastClose, cash, book, todo, trades>>

BacktestNext ==
    \/ \E b \in [Symbols -> Bars], m \in ScoreTimes : OpenDay(b, m)
    \/ RankDay \/ Drop \/ Size \/ Trim \/ TrimDone \/ Buy \/ BuyDone \/ CloseDay

BacktestSpec == BacktestInit /\ [][BacktestNext]_backtestVars

----------------------------------------------------------------------------

SoldUpTo(s, d) == Total([e \in DOMAIN trades[s] |-> trades[s][e].sold], 0 .. d)

BoughtUpTo(s, d) == Total([e \in DOMAIN trades[s] |-> trades[s][e].bought], 0 .. d)

\* The trade log explains the holdings, and no share is sold on the day it
\* was bought: by the end of any day no more has been sold of a symbol than
\* had been bought by the day before.
TradesAreSettled ==
    \A s \in Symbols :
        /\ Shares(s) = BoughtUpTo(s, Days - 1) - SoldUpTo(s, Days - 1)
        /\ \A d \in 0 .. Days - 1 :
               trades[s][d].sold > 0 => SoldUpTo(s, d) <= BoughtUpTo(s, d - 1)

UpperLimit(s) == IF bar[s].quote.upper # NoValue THEN bar[s].quote.upper
                 ELSE LimitUpPrice(prevClose[s], Rule(s, bar[s].quote, day))

LowerLimit(s) == IF bar[s].quote.lower # NoValue THEN bar[s].quote.lower
                 ELSE LimitDownPrice(prevClose[s], Rule(s, bar[s].quote, day))

\* Whatever step of a rebalance made it, a trade of today is of a name that
\* traded, strictly inside the limits that its previous close gives, and
\* was paid for: after a purchase the cash is not below zero.
TradesAreExecutable ==
    phase \in {"drop", "trim", "buy", "close"} =>
        /\ \A s \in Symbols :
              LET today == trades[s][day] IN
              /\ today.bought + today.sold > 0 => bar[s].volume /\ bar[s].price > 0
              /\ today.bought > 0 /\ prevClose[s] > 0 =>
                    bar[s].price < UpperLimit(s)
              /\ today.sold > 0 /\ prevClose[s] > 0 => bar[s].price > LowerLimit(s)
        /\ (\E s \in Symbols : trades[s][day].bought > 0) => cash >= 0

\* The trade log is one a real account could have: settled and executable
\* (_rebalance, _sell_lots, _can_buy, _can_sell of the two back-tests).
TradesAreReal == TradesAreSettled /\ TradesAreExecutable

----------------------------------------------------------------------------
(* Why the trades are real: the lots of today's purchases are kept apart   *)
(* from those that may be sold, and each step trades at most what its      *)
(* checks of the same day have allowed.                                    *)

Lots == [shares : Nat, available : Int]

DayTrades == [bought : Nat, sold : Nat]

BacktestTyped ==
    /\ day \in 0 .. Days
    /\ phase \in {"open", "rank", "drop", "trim", "buy", "close", "failed", "done"}
    /\ phase = "done" <=> day = Days
    /\ \A s \in Symbols : bar[s].price \in Int /\ bar[s].close \in Int /\ bar[s].score \in Int
    /\ \A s \in Symbols : prevClose[s] \in Int /\ lastClose[s] \in Int
    /\ cash \in Int /\ targetValue \in Int
    /\ book \in [Symbols -> Seq(Lots)]
    /\ trades \in [Symbols -> [0 .. Days - 1 -> DayTrades]]
    /\ ranked \in Seq(Symbols) /\ todo \in Seq(Symbols)

\* What is bought is of names that trade today.
Trading(s) == bar[s].volume /\ bar[s].price > 0

CandidatesTrade ==
    /\ phase \in {"drop", "trim", "buy"} => \A i \in DOMAIN ranked : Trading(ranked[i])
    /\ phase \in {"trim", "buy"} => \A i \in DOMAIN todo : Trading(todo[i])

\* The lots of a symbol that may not be sold yet.
LaterLots(lots) == {i \in DOMAIN lots : lots[i].available > day}

\* The lots that may not be sold are those that were bought today.
LotsFollowTrades ==
    \A s \in Symbols :
        /\ \A i \in DOMAIN book[s] : book[s][i].available <= day + 1
        /\ \A d \in 0 .. Days - 1 : d > day => trades[s][d].bought = 0 /\ trades[s][d].sold = 0
        /\ day < Days => Total(SharesOf(book[s]), LaterLots(book[s])) = trades[s][day].bought
        /\ phase \in {"open", "rank"} => trades[s][day].bought = 0 /\ trades[s][day].sold = 0
        /\ phase \in {"drop", "trim"} => trades[s][day].bought = 0

BacktestInvariant == BacktestTyped /\ CandidatesTrade /\ LotsFollowTrades /\ TradesAreReal
=============================================================================
