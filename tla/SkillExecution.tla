--------------------------- MODULE SkillExecution ---------------------------
(***************************************************************************)
(* A turn of the chat endpoint: a session is found or made, the agent      *)
(* picks a skill, the model and the tools take turns until the contract of *)
(* the skill is met or its rounds are used up, and the question is stored  *)
(* with what the caller is told.                                           *)
(*                                                                         *)
(* All turns of a process share one pool of tool threads.  A call that     *)
(* times out is abandoned, not stopped: its tool keeps its thread, or its  *)
(* place in the queue.  Every exception of a run becomes the text of a     *)
(* degraded report (run_narrative).  A tool result is the set of facts the *)
(* contract looks for in it; text is "report", "degraded" or "nothing".    *)
(***************************************************************************)
EXTENDS Integers, Sequences, FiniteSets

CONSTANTS
    ChatCallers,    \* requests, one turn each
    ChatSessions,   \* session ids
    ContractsOf,    \* the skills a request may be routed to, as contracts
    FlagsOf,        \* the query flags of a request
    PlansOf,        \* tool calls the model may ask for in one round of it
    ResultsOf,      \* what each registered tool may answer
    PoolSize,       \* threads of the pool (8)
    Skew,           \* how far ahead a market timestamp may be (5 min)
    DayLength,      \* time units of a trading session
    OpenAt,         \* when in a session the market opens
    MaxTime,        \* bound on time
    NoStamp         \* no timestamp, no policy, no contract

\* What a tool hands to record_tool_result.
ToolResults ==
    [error : BOOLEAN, age : Nat \cup {NoStamp}, memories : BOOLEAN, evidence : SUBSET STRING,
     specialists : SUBSET STRING, risk : BOOLEAN, policy : BOOLEAN, large : BOOLEAN]

\* A contract says its version; the model asks for named tools, at least
\* one in a round of tools.
ASSUME ChatAssumption ==
    /\ \A c \in ChatCallers :
        /\ \A k \in ContractsOf[c] : k.version \in Nat
        /\ \A plan \in PlansOf[c] : plan \in Seq(STRING) /\ plan # <<>>
    /\ \A tool \in DOMAIN ResultsOf : tool \in STRING /\ ResultsOf[tool] \subseteq ToolResults

VARIABLES
    turn,       \* where each request is, and its SkillExecutionState
    sessions,   \* the stored sessions and their messages, by id
    waiting,    \* tool calls queued for the pool
    working,    \* tool calls that have a thread
    chatTime

chatVars == <<turn, sessions, waiting, working, chatTime>>

MarketTools == {"get_market_snapshot", "get_technical_evidence"}

MemoryTools == {"search_memory", "search_strategy_memory", "search_decision_memory",
                "search_user_preferences"}

\* A result without any of the facts.
Blank == [error |-> FALSE, age |-> NoStamp, memories |-> FALSE, evidence |-> {},
          specialists |-> {}, risk |-> FALSE, policy |-> FALSE, large |-> FALSE]

Failure == [Blank EXCEPT !.error = TRUE]

NothingSeen == [called |-> {}, succeeded |-> {}, failed |-> {}, stamp |-> NoStamp,
                regime |-> FALSE, memory |-> FALSE, evidence |-> {}, specialists |-> {},
                risk |-> FALSE, policy |-> FALSE]

NewTurn == [pc |-> "idle", session |-> NoStamp, contract |-> NoStamp, round |-> 0,
          asked |-> <<>>, calls |-> <<>>, seen |-> NothingSeen,
          ended |-> 0, text |-> "nothing", count |-> 0]

ChatInit ==
    /\ turn = [c \in ChatCallers |-> NewTurn]
    /\ sessions = [s \in ChatSessions |-> [state |-> "absent", messages |-> <<>>]]
    /\ waiting = <<>> /\ working = {}
    /\ chatTime = 0

----------------------------------------------------------------------------
(* What a tool result tells.                                               *)

\* _limit_output: a result over the limit is replaced by a summary, which
\* has none of the facts, an error included.
Limited(r) == IF r.large THEN Blank ELSE r

\* is_tool_result_success
Succeeds(r) == ~r.error

\* Mutant: the first reading of the market keeps its timestamp.
RecordResult_FirstStamp(seen, tool, r, stamp) ==
    IF ~Succeeds(r)
      THEN [seen EXCEPT !.called = @ \cup {tool}, !.failed = @ \cup {tool}]
      ELSE [seen EXCEPT !.called = @ \cup {tool}, !.succeeded = @ \cup {tool},
                        !.stamp = IF tool \in MarketTools /\ @ = NoStamp THEN stamp ELSE @,
                        !.evidence = @ \cup r.evidence, !.risk = @ \/ r.risk]

\* record_tool_result: the last reading of the market decides its
\* timestamp, and a reading without one clears it.
RecordResult(seen, tool, r, stamp) ==
    IF ~Succeeds(r)
      THEN [seen EXCEPT !.called = @ \cup {tool}, !.failed = @ \cup {tool}]
      ELSE [called |-> seen.called \cup {tool}, succeeded |-> seen.succeeded \cup {tool},
            failed |-> seen.failed,
            stamp |-> IF tool \in MarketTools THEN stamp ELSE seen.stamp,
            regime |-> seen.regime \/ tool = "get_market_regime",
            memory |-> seen.memory \/ (tool \in MemoryTools /\ r.memories),
            evidence |-> seen.evidence \cup r.evidence,
            specialists |-> seen.specialists \cup r.specialists,
            risk |-> seen.risk \/ r.risk, policy |-> seen.policy \/ r.policy]

----------------------------------------------------------------------------
(* SkillContractValidator.validate.                                        *)

SessionDay(t) == t \div DayLength

\* _freshness_violations: present, not from the future, young enough, of
\* the current session, after its open.
FreshAt(stamp, policy, t) ==
    /\ stamp # NoStamp
    /\ t - stamp >= -Skew
    /\ policy.maxAge # NoStamp => t - stamp <= policy.maxAge
    /\ policy.sameDay => SessionDay(stamp) = SessionDay(t)
    /\ policy.afterOpen => stamp >= SessionDay(stamp) * DayLength + OpenAt

\* From version 3 on, tools, memory and regime are not asked for: evidence,
\* specialists and governance are.
ToolsMet(k, seen, flags) ==
    /\ k.required \subseteq seen.succeeded
    /\ \A group \in k.anyOf : group \cap seen.succeeded # {}
    /\ \A when \in k.conditional : when.flag \in flags =>
          /\ when.require \subseteq seen.succeeded
          /\ when.anyOf # {} => when.anyOf \cap seen.succeeded # {}
    /\ k.memory => seen.memory
    /\ k.regime => seen.regime

EvidenceMet(k, seen) ==
    /\ k.evidence \subseteq seen.evidence
    /\ k.specialists \subseteq seen.specialists
    /\ k.risk => seen.risk
    /\ k.policy => seen.policy

ContractMet(k, seen, flags, round, sections, t) ==
    /\ IF k.version >= 3 THEN EvidenceMet(k, seen) ELSE ToolsMet(k, seen, flags)
    /\ seen.called \cap k.forbidden = {}
    /\ round >= k.minRounds
    /\ k.market # NoStamp => FreshAt(seen.stamp, k.market, t)
    /\ sections

----------------------------------------------------------------------------
(* The agent's run.                                                        *)

\* An accepted report keeps its calls; an exception loses the run's state.
Concluded(t, text) ==
    IF text = "report" THEN [t EXCEPT !.pc = "save", !.text = text, !.ended = chatTime]
    ELSE [NewTurn EXCEPT !.pc = "save", !.text = text, !.session = t.session]

\* ensure_session: a new session, or the one named, which must exist.
OpenSession(c, s) ==
    /\ turn[c].pc = "idle"
    /\ turn' = [turn EXCEPT ![c] = [@ EXCEPT !.session = s,
                    !.pc = IF sessions[s].state = "deleted" THEN "refused" ELSE "choose"]]
    /\ sessions' = [sessions EXCEPT ![s].state = IF @ = "absent" THEN "open" ELSE @]
    /\ UNCHANGED <<waiting, working, chatTime>>

\* run with a configured model: a skill that the caller forced, a keyword
\* rule or the model picked; the specialists of the preflight add only
\* context.
ChooseSkill(c, k) ==
    /\ turn[c].pc = "choose"
    /\ turn' = [turn EXCEPT ![c] = [@ EXCEPT !.pc = "plan", !.contract = k, !.round = 1]]
    /\ UNCHANGED <<sessions, waiting, working, chatTime>>

\* Without a model the fallback reads content and gives no report.
FallbackAnalysis(c) ==
    /\ turn[c].pc = "choose"
    /\ turn' = [turn EXCEPT ![c] = Concluded(@, "nothing")]
    /\ UNCHANGED <<sessions, waiting, working, chatTime>>

\* An exception: an unknown skill, a client or a preflight that raises, a
\* call without a name, an audit log that cannot be written.
RunRaises(c) ==
    /\ turn[c].pc \in {"choose", "plan", "call", "wait"}
    /\ turn' = [turn EXCEPT ![c] = Concluded(@, "degraded")]
    /\ UNCHANGED <<sessions, waiting, working, chatTime>>

\* The model asks for tools.
AskTools(c, plan) ==
    /\ turn[c].pc = "plan"
    /\ turn' = [turn EXCEPT ![c] = [@ EXCEPT !.pc = "call", !.asked = plan]]
    /\ UNCHANGED <<sessions, waiting, working, chatTime>>

\* The model answers: the report is accepted, sent back, or refused in the
\* last round.
Answer(c, sections) ==
    LET t == turn[c]
        met == ContractMet(t.contract, t.seen, FlagsOf[c], t.round, sections, chatTime)
    IN  /\ t.pc = "plan"
        /\ turn' = [turn EXCEPT ![c] =
                IF met THEN Concluded(t, "report")
                ELSE IF t.round = t.contract.maxRounds THEN Concluded(t, "degraded")
                ELSE [t EXCEPT !.round = @ + 1]]
        /\ UNCHANGED <<sessions, waiting, working, chatTime>>

\* The turn after a tool result: the next call, the next round, or the end
\* of the rounds.
AfterResult(t, tool, r) ==
    LET stamp == IF r.age = NoStamp THEN NoStamp ELSE chatTime - r.age
        done == [t EXCEPT !.asked = Tail(@), !.pc = "call",
                          !.calls = Append(@, [tool |-> tool, result |-> r, stamp |-> stamp]),
                          !.seen = RecordResult(@, tool, r, stamp)]
    IN  IF done.asked # <<>> THEN done
        ELSE IF done.round = done.contract.maxRounds THEN Concluded(done, "degraded")
        ELSE [done EXCEPT !.pc = "plan", !.round = @ + 1]

Job(c) == [caller |-> c, number |-> Len(turn[c].calls), tool |-> Head(turn[c].asked)]

\* execute: an unknown tool answers at once, a known one goes to the pool.
CallTool(c) ==
    LET tool == Head(turn[c].asked) IN
    /\ turn[c].pc = "call"
    /\ IF tool \in DOMAIN ResultsOf
         THEN /\ turn' = [turn EXCEPT ![c].pc = "wait"]
              /\ waiting' = Append(waiting, Job(c))
         ELSE /\ turn' = [turn EXCEPT ![c] = AfterResult(@, tool, Failure)]
              /\ UNCHANGED waiting
    /\ UNCHANGED <<sessions, working, chatTime>>

StartTool ==
    /\ waiting # <<>>
    /\ Cardinality(working) < PoolSize
    /\ working' = working \cup {Head(waiting)}
    /\ waiting' = Tail(waiting)
    /\ UNCHANGED <<turn, sessions, chatTime>>

\* A tool returns or raises; nobody may be waiting for it any more.
FinishTool(job, r) ==
    LET c == job.caller IN
    /\ job \in working
    /\ r \in ResultsOf[job.tool] \cup {Failure}
    /\ working' = working \ {job}
    /\ turn' = IF turn[c].pc = "wait" /\ Job(c) = job
                 THEN [turn EXCEPT ![c] = AfterResult(@, job.tool, Limited(r))]
                 ELSE turn
    /\ UNCHANGED <<sessions, waiting, chatTime>>

\* TOOL_TIMEOUT, whether the tool had a thread or not.
TimeOutTool(c) ==
    /\ turn[c].pc = "wait"
    /\ turn' = [turn EXCEPT ![c] = AfterResult(@, Head(@.asked), Failure)]
    /\ UNCHANGED <<sessions, waiting, working, chatTime>>

----------------------------------------------------------------------------
(* The chat history.                                                       *)

\* save_turn reads the session and counts its messages ...
CountMessages(c) ==
    LET s == turn[c].session IN
    /\ turn[c].pc = "save"
    /\ turn' = [turn EXCEPT ![c] = IF sessions[s].state = "open"
                    THEN [@ EXCEPT !.pc = "insert", !.count = Len(sessions[s].messages)]
                    ELSE [@ EXCEPT !.pc = "lost"]]
    /\ UNCHANGED <<sessions, waiting, working, chatTime>>

Message(c, role, ordinal, text) == [caller |-> c, role |-> role, ordinal |-> ordinal, text |-> text]

\* ... and inserts two; another turn may have been saved in between.  The
\* update of a session that is gone fails the transaction.
InsertMessages(c) ==
    LET t == turn[c] s == turn[c].session IN
    /\ t.pc = "insert"
    /\ IF sessions[s].state = "open"
         THEN /\ sessions' = [sessions EXCEPT ![s].messages = @ \o
                    <<Message(c, "user", t.count, "question"),
                      Message(c, "assistant", t.count + 1, t.text)>>]
              /\ turn' = [turn EXCEPT ![c].pc = "answered"]
         ELSE turn' = [turn EXCEPT ![c].pc = "lost"] /\ UNCHANGED sessions
    /\ UNCHANGED <<waiting, working, chatTime>>

DeleteSession(s) ==
    /\ sessions[s].state = "open"
    /\ sessions' = [sessions EXCEPT ![s] = [state |-> "deleted", messages |-> <<>>]]
    /\ UNCHANGED <<turn, waiting, working, chatTime>>

ChatTick ==
    /\ chatTime < MaxTime
    /\ chatTime' = chatTime + 1
    /\ UNCHANGED <<turn, sessions, waiting, working>>

ChatStep(c) ==
    \/ \E s \in ChatSessions : OpenSession(c, s)
    \/ \E k \in ContractsOf[c] : ChooseSkill(c, k)
    \/ FallbackAnalysis(c) \/ RunRaises(c)
    \/ \E plan \in PlansOf[c] : AskTools(c, plan)
    \/ \E sections \in BOOLEAN : Answer(c, sections)
    \/ CallTool(c) \/ TimeOutTool(c)
    \/ CountMessages(c) \/ InsertMessages(c)

ChatNext ==
    \/ \E c \in ChatCallers : ChatStep(c)
    \/ StartTool
    \/ \E job \in working : \E r \in ResultsOf[job.tool] \cup {Failure} : FinishTool(job, r)
    \/ \E s \in ChatSessions : DeleteSession(s)
    \/ ChatTick

ChatSpec == ChatInit /\ [][ChatNext]_chatVars

----------------------------------------------------------------------------

\* The calls of a turn that did not fail, and what they told.
Good(t) == {i \in DOMAIN t.calls : ~t.calls[i].result.error}

Told(t, field) == UNION {t.calls[i].result[field] : i \in Good(t)}

Used(t) == {t.calls[i].tool : i \in Good(t)}

\* The last reading of the market that did not fail.
LastReading(t) ==
    LET readings == {i \in Good(t) : t.calls[i].tool \in MarketTools}
    IN  IF readings = {} THEN NoStamp
        ELSE t.calls[CHOOSE i \in readings : \A j \in readings : j <= i].stamp

\* What the calls handed to the caller show: the report was earned.
Earned(t) ==
    LET k == t.contract IN
    /\ \A i \in DOMAIN t.calls : t.calls[i].tool \notin k.forbidden
    /\ k.market # NoStamp => FreshAt(LastReading(t), k.market, t.ended)
    /\ k.version < 3 =>
         /\ k.required \subseteq Used(t)
         /\ \A group \in k.anyOf : group \cap Used(t) # {}
         /\ k.regime => "get_market_regime" \in Used(t)
         /\ k.memory => \E i \in Good(t) : t.calls[i].result.memories
    /\ k.version >= 3 =>
         /\ k.evidence \subseteq Told(t, "evidence")
         /\ k.specialists \subseteq Told(t, "specialists")
         /\ k.risk => \E i \in Good(t) : t.calls[i].result.risk

\* A report that a session holds was earned by the calls of its own run:
\* whatever the other runs, abandoned tools and late results did, the
\* required tools succeeded, no forbidden one was called, the last reading
\* of the market was fresh when the report was accepted; and it is read
\* after its own question.  Everything else is stored as what it is.
StoredReportsAreEarned ==
    \A s \in ChatSessions : \A i \in DOMAIN sessions[s].messages :
        LET m == sessions[s].messages[i] t == turn[m.caller] IN
        m.role = "assistant" =>
            /\ m.text = "report" => Earned(t)
            /\ t.session = s
            /\ \E j \in DOMAIN sessions[s].messages :
                  LET q == sessions[s].messages[j] IN
                  q.caller = m.caller /\ q.role = "user" /\ q.ordinal < m.ordinal
=============================================================================
