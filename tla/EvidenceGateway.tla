--------------------------- MODULE EvidenceGateway ---------------------------
(* Collecting the evidence of a formal decision (services/evidence) and    *)
(* freezing it into the input bundle (BundleFreezeComponent.freeze).  The  *)
(* gateway asks the upstream services one request after the other; what    *)
(* they answer is external.  Times are integers and the decision is taken  *)
(* at DecisionTime.  An item of evidence is identified by its type, its    *)
(* subject and its data, which its evidence_id hashes.                     *)
EXTENDS Integers, FiniteSets, Sequences, SequencesExt

CONSTANTS
    Skills,           \* required_evidence of the skills, sequences of types
    Subjects,         \* subjects of the decision, a sequence
    Replies(_),       \* what the services may answer to a request
    DecisionTime,
    NoBundle,         \* nothing frozen yet
    Refused           \* freezing raised

VARIABLES
    skill,      \* the types that the active skill requires
    asked,      \* requests answered so far
    evidence,   \* validated items
    statuses,   \* the status each answer gave its system
    bundle      \* the frozen bundle, or why there is none

gatherVars == <<skill, asked, evidence, statuses, bundle>>

FactorTypes == {"FACTOR_SCORE", "FACTOR_SET", "FACTOR_RESEARCH_RESULT"}

ContentTypes == {"KNOWLEDGE_CLAIM", "CATALYST", "RISK_EVENT", "VALUATION_FACT", "EARNINGS_FACT"}

\* The system that owns a type of evidence.
SystemOf(type) ==
    CASE type \in FactorTypes -> "factor"
      [] type \in ContentTypes -> "content"
      [] OTHER -> "quant"

\* Operations of the gateway, the system of each and the types it may give.
Operations ==
    [market_snapshot |-> [system |-> "quant", types |-> {"MARKET_SNAPSHOT"}],
     market_regime |-> [system |-> "quant", types |-> {"MARKET_REGIME"}],
     sector_strength |-> [system |-> "quant", types |-> {"SECTOR_STRENGTH"}],
     technical_evidence |-> [system |-> "quant", types |-> {"TECHNICAL_SIGNAL", "TECHNICAL_PROFILE", "LIQUIDITY"}],
     portfolio_snapshot |-> [system |-> "quant", types |-> {"PORTFOLIO_POSITION", "PORTFOLIO_EXPOSURE"}],
     portfolio_risk |-> [system |-> "quant", types |-> {"PORTFOLIO_RISK"}],
     content_search |-> [system |-> "content", types |-> {"KNOWLEDGE_CLAIM", "CATALYST", "RISK_EVENT"}]]

\* A request of the plan, or one for each subject.
AskOnce(type, operation, subject) == <<[type |-> type, operation |-> operation, subject |-> subject]>>

AskEach(type, operation) ==
    [i \in DOMAIN Subjects |-> [type |-> type, operation |-> operation, subject |-> Subjects[i]]]

\* evidence_request_plan: the requests for a type.  The content types are
\* all searched for; a factor type asks for no factor, and the types that
\* are not named ask for nothing.
RequestsFor(type) ==
    CASE type = "MARKET_SNAPSHOT" -> AskOnce(type, "market_snapshot", "market")
      [] type = "MARKET_REGIME" -> AskOnce(type, "market_regime", "market")
      [] type = "SECTOR_STRENGTH" -> AskOnce(type, "sector_strength", "market")
      [] type \in {"TECHNICAL_SIGNAL", "TECHNICAL_PROFILE"} -> AskEach(type, "technical_evidence")
      [] type \in {"PORTFOLIO_POSITION", "PORTFOLIO_EXPOSURE"} ->
            AskOnce(type, "portfolio_snapshot", "portfolio")
      [] type = "PORTFOLIO_RISK" -> AskOnce(type, "portfolio_risk", "portfolio")
      [] type \in ContentTypes -> AskEach(type, "content_search")
      [] OTHER -> <<>>

\* What the skills may ask for.
Requests == UNION {UNION {Range(RequestsFor(s[i])) : i \in DOMAIN s} : s \in Skills}

\* EvidenceQuality
Qualities == {"VERIFIED", "PARTIAL", "UNVERIFIED", "DEGRADED", "STALE", "REJECTED"}

ASSUME EvidenceAssumption ==
    /\ Skills \subseteq Seq(STRING) /\ Subjects \in Seq(STRING)
    /\ DecisionTime \in Int
    /\ \A r \in Requests : \A a \in Replies(r) :
        a.kind = "payload" => a.asOf \in Int /\ a.available \in Int /\ a.quality \in Qualities

Plan == FlattenSeq([i \in DOMAIN skill |-> RequestsFor(skill[i])])

RequiredEvidence == {skill[i] : i \in DOMAIN skill}

\* _collect_one: an operation that does not give the type raises, and with
\* it the whole collection, once the service has answered.
Refusable(r, a) ==
    a.kind = "payload" /\ (SystemOf(r.type) # Operations[r.operation].system
                           \/ r.type \notin Operations[r.operation].types)

GatherInit ==
    /\ skill \in Skills
    /\ asked = 0
    /\ evidence = {}
    /\ statuses = {}
    /\ bundle = NoBundle

\* The quality is the producer's: no request of the plan has max_age_seconds.
Item(r, a) ==
    [type |-> r.type, system |-> SystemOf(r.type), subject |-> r.subject, data |-> a.data,
     asOf |-> a.asOf, available |-> a.available, quality |-> a.quality]

\* An answer that becomes evidence: it violates no contract, is not
\* rejected by its producer and looks at nothing after the decision.
Accepted(a) ==
    /\ a.kind = "payload"
    /\ a.asOf <= DecisionTime
    /\ a.quality # "REJECTED"
    /\ a.available <= DecisionTime

\* _failure_status and _dependency_failure: what a failed request says of
\* its system.
FailureStatus(code) ==
    CASE code = "STALE_DATA" -> "STALE"
      [] code \in {"CONTRACT_MISMATCH", "INVALID_SNAPSHOT"} -> "DEGRADED"
      [] OTHER -> "UNAVAILABLE"

\* The status an answer gives to its system (collect and its handlers).
StatusOf(a) ==
    CASE a.kind # "payload" -> FailureStatus(a.kind)
      [] a.kind = "payload" /\ ~Accepted(a) ->
            IF a.asOf > DecisionTime \/ a.quality # "REJECTED" THEN "STALE" ELSE "DEGRADED"
      [] OTHER ->
            CASE a.quality = "STALE" -> "STALE"
              [] a.quality \in {"PARTIAL", "DEGRADED", "UNVERIFIED"} -> "DEGRADED"
              [] OTHER -> "OK"

\* One request of the plan and its answer.
Collect ==
    /\ bundle = NoBundle
    /\ asked < Len(Plan)
    /\ LET r == Plan[asked + 1] IN
       \E a \in Replies(r) :
          /\ bundle' = IF Refusable(r, a) THEN Refused ELSE NoBundle
          /\ evidence' = IF Accepted(a) THEN evidence \cup {Item(r, a)} ELSE evidence
          /\ statuses' = statuses \cup {[system |-> SystemOf(r.type), status |-> StatusOf(a)]}
    /\ asked' = asked + 1
    /\ UNCHANGED skill

Rank(status) ==
    CASE status = "UNAVAILABLE" -> 4 [] status = "STALE" -> 3
      [] status = "DEGRADED" -> 2 [] OTHER -> 1

\* Mutant: a system is as healthy as its best answer.
WorstOf_Best(all) == CHOOSE s \in all : \A t \in all : Rank(s) <= Rank(t)

\* _consolidate_statuses: a system is as healthy as its worst answer.
WorstOf(all) == CHOOSE s \in all : \A t \in all : Rank(t) <= Rank(s)

\* A system that was needed and never asked is unavailable.
Health ==
    LET seen == {s.system : s \in statuses}
        needed == {SystemOf(t) : t \in RequiredEvidence}
        of(sys) == {s.status : s \in {x \in statuses : x.system = sys}}
    IN  [sys \in seen \cup needed |-> IF sys \in seen THEN WorstOf(of(sys)) ELSE "UNAVAILABLE"]

\* Two items with the id of one and different contents (deduplicate).
Conflicting ==
    \E i, j \in evidence :
        i # j /\ i.type = j.type /\ i.subject = j.subject /\ i.data = j.data

\* The bundle is built and saved; a conflict raises.
Freeze ==
    /\ bundle = NoBundle
    /\ asked = Len(Plan)
    /\ bundle' = IF Conflicting THEN Refused ELSE [items |-> evidence, health |-> Health]
    /\ UNCHANGED <<skill, asked, evidence, statuses>>

Frozen == bundle \notin {NoBundle, Refused}

GatherStep == Collect \/ Freeze
=============================================================================
