---------------------------- MODULE TradingClock ----------------------------
(***************************************************************************)
(* The business clock's calendar: the quant-backed adapter, its snapshot   *)
(* of a window of days around the last day it had to load, and the         *)
(* questions asked of it.                                                  *)
(*                                                                         *)
(* Days are integers.  The source publishes the calendar up to a horizon   *)
(* that moves; the window asked for may reach beyond it.                   *)
(***************************************************************************)
EXTENDS Integers, FiniteSets, FiniteSetsExt

CONSTANTS
    CalendarDays,  \* days of the calendar
    OpenDays,      \* those the exchange trades on
    Back,          \* days loaded before the day asked about (370)
    Ahead,         \* days loaded after it (30)
    Unavailable    \* CalendarUnavailable

ASSUME CalendarAssumption ==
    /\ CalendarDays \subseteq Int /\ OpenDays \subseteq CalendarDays
    /\ Back \in Nat /\ Ahead \in Nat /\ Ahead <= Back
    /\ Unavailable \notin Int

VARIABLES
    horizon,   \* last day the source has published
    window,    \* _loaded_range, or the empty window
    snapshot,  \* open days of the loaded window
    answered   \* the last question and its answer

clockVars == <<horizon, window, snapshot, answered>>

Window(from, to) == [from |-> from, to |-> to]

NoWindow == Window(1, 0)

Inside(w, d) == w.from <= d /\ d <= w.to

NoQuestion == [about |-> "none", day |-> 0, sessions |-> 0, is |-> Unavailable]

ClockInit ==
    /\ horizon \in CalendarDays
    /\ window = NoWindow
    /\ snapshot = {}
    /\ answered = NoQuestion

Around(d) == Window(d - Back, d + Ahead)

\* What a fetch of a window returns today.
Fetched(w) == {d \in OpenDays : Inside(w, d) /\ d <= horizon}

\* _refresh: nothing is fetched for a day inside the window.
Loaded(w, s, d) ==
    IF Inside(w, d) THEN [window |-> w, open |-> s]
    ELSE [window |-> Around(d), open |-> Fetched(Around(d))]

\* SnapshotTradingCalendar
After(open, d) == LET later == {e \in open : e > d} IN IF later = {} THEN Unavailable ELSE Min(later)

Before(open, d) == LET sooner == {e \in open : e < d} IN IF sooner = {} THEN Unavailable ELSE Max(sooner)

AtOrBefore(open, d) == Before(open, d + 1)

\* Mutant: the second load starts at the day it could not answer.
NextReload_Narrow(d) == [window |-> Window(d + Ahead + 1, d + Ahead + 1 + Ahead),
                         open |-> Fetched(Window(d + Ahead + 1, d + Ahead + 1 + Ahead))]

\* The second load of next_session, a window further on.
NextReload(d) == [window |-> Around(d + Ahead + 1), open |-> Fetched(Around(d + Ahead + 1))]

\* next_session: once more with a later window when there is no session.
NextSession(at, d) ==
    LET first == Loaded(at.window, at.open, d) IN
    IF After(first.open, d) # Unavailable THEN first ELSE NextReload(d)

\* previous_session: once more with the window of the day before.
PreviousSession(at, d) ==
    LET first == Loaded(at.window, at.open, d) IN
    IF Before(first.open, d) # Unavailable THEN first
    ELSE [window |-> Around(d - 1), open |-> Fetched(Around(d - 1))]

\* advance_sessions: from the normalized day, one session at a time; the
\* first that is unavailable ends it.
AdvanceDays(at, d, n) ==
    LET start == Loaded(at.window, at.open, d)
        walk[i \in 0 .. n] ==
            IF i = 0 THEN [at |-> start, day |-> AtOrBefore(start.open, d)]
            ELSE LET was == walk[i - 1]
                     next == NextSession(was.at, was.day)
                 IN  IF was.day = Unavailable THEN was
                     ELSE [at |-> next, day |-> After(next.open, was.day)]
    IN  walk[n]

Answers(about, d, n, at, is) ==
    /\ answered' = [about |-> about, day |-> d, sessions |-> n, is |-> is]
    /\ window' = at.window /\ snapshot' = at.open
    /\ UNCHANGED horizon

Now == [window |-> window, open |-> snapshot]

AskNext(d) == LET at == NextSession(Now, d) IN Answers("next", d, 1, at, After(at.open, d))

AskPrevious(d) == LET at == PreviousSession(Now, d) IN Answers("previous", d, 1, at, Before(at.open, d))

AskNormalize(d) ==
    LET at == Loaded(window, snapshot, d) IN Answers("normalize", d, 0, at, AtOrBefore(at.open, d))

\* is_trading_day, which is also where session_phase answers CLOSED.
AskTradingDay(d) ==
    LET at == Loaded(window, snapshot, d) IN
    Answers("trading", d, 0, at, IF d \in at.open THEN d ELSE Unavailable)

AskAdvance(d, n) == LET end == AdvanceDays(Now, d, n) IN Answers("advance", d, n, end.at, end.day)

\* The source does not answer, or with another contract: a first load changes
\* nothing, the second one of next_session has already dropped the window.
FetchFails(d) ==
    LET first == Loaded(window, snapshot, d) IN
    \/ /\ ~ Inside(window, d)
       /\ Answers("next", d, 1, Now, Unavailable)
    \/ /\ After(first.open, d) = Unavailable
       /\ Answers("next", d, 1, [first EXCEPT !.window = NoWindow], Unavailable)

\* The source publishes another day.
Publish ==
    /\ horizon + 1 \in CalendarDays
    /\ horizon' = horizon + 1
    /\ UNCHANGED <<window, snapshot, answered>>

ClockNext ==
    \/ Publish
    \/ \E d \in CalendarDays :
          \/ AskNext(d) \/ AskPrevious(d) \/ AskNormalize(d) \/ AskTradingDay(d) \/ FetchFails(d)
          \/ \E n \in 1 .. 2 : AskAdvance(d, n)

ClockSpec == ClockInit /\ [][ClockNext]_clockVars

----------------------------------------------------------------------------

\* Days strictly between two days on which the exchange trades.
Skipped(a, b) == {d \in OpenDays : a < d /\ d < b}

\* Whatever was loaded before, and however far the calendar was published
\* then, the next session answered is the next day the exchange trades; the
\* other answers are days it trades on, on the side that was asked for.
NoSessionIsSkipped ==
    answered.is # Unavailable =>
        /\ answered.is \in OpenDays
        /\ answered.about = "next" =>
              answered.day < answered.is /\ Skipped(answered.day, answered.is) = {}
        /\ answered.about = "previous" => answered.is < answered.day
        /\ answered.about = "normalize" => answered.is <= answered.day
=============================================================================
