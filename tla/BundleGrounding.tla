--------------------------- MODULE BundleGrounding ---------------------------
(* From the bundle that the content service sends to the conclusion that   *)
(* is published: fail-closed validation of contracts v1 and v2             *)
(* (bundle_validator), citations, attribution and direction of a model's   *)
(* findings (grounding, synthesis), and the conclusion built without a     *)
(* model (deterministic_fallback).  A text is what the checks can see of   *)
(* it; a hash is the value it was taken of.  The locked schemas leave an   *)
(* evidence row no owner, weights or source of its own, so the code takes  *)
(* its defaults: one source, weight 1 in v1 and 0 in v2.                   *)
EXTENDS Integers, Sequences, FiniteSets, FiniteSetsExt

CONSTANTS
    BundleRequests,    \* KnowledgeBundleRequests
    Payloads,    \* what the content service may answer
    Proposals,   \* what the model may answer
    Nothing,     \* absent
    Raised       \* the conclusion could not be built

\* The locked schemas: what a request, a bundle and a model result have.
ASSUME GroundingAssumption ==
    /\ Nothing \notin Payloads
    /\ \A r \in BundleRequests : {"contract", "asOf"} \subseteq DOMAIN r
    /\ \A b \in Payloads :
        /\ IsFiniteSet(DOMAIN b.items)
        /\ \A i \in DOMAIN b.items :
            /\ IsFiniteSet(b.items[i].evidence)
            /\ b.items[i].grade \in {"PRIMARY", "SECONDARY", "SOURCE_ASSERTION", "UNKNOWN"}
            /\ b.items[i].verified \in BOOLEAN
    /\ \A p \in Proposals : IsFiniteSet(p.findings)

VARIABLES
    request,     \* the request of the frozen bundle, or Nothing
    frozen,      \* the accepted bundle, or Nothing
    published    \* the conclusion, Raised, or Nothing

groundingVars == <<request, frozen, published>>

GroundingInit == request = Nothing /\ frozen = Nothing /\ published = Nothing

-----------------------------------------------------------------------------
(* The request and the envelope of the bundle. *)

\* subject_scope of the v2 payload
ScopeOf(symbol) == IF symbol = "UNSPECIFIED" THEN "ALL_SUBJECTS" ELSE "SUBJECT_ONLY"

\* request_payload: a floating snapshot or a foreign policy is refused
BundleRequestOk(r) ==
    /\ r.contract \in {"v1", "v2"}
    /\ r.snapshot \notin {"", "latest", "current", "default"}
    /\ r.query # "" /\ r.symbol # ""
    /\ r.policy = "PUBLIC_STRICT"
    /\ r.maxItems \in 1..100
    /\ r.asOf # Nothing

RequestPayload(r) ==
    [f \in DOMAIN r \cup {"scope"} |->
        IF f # "scope" THEN r[f] ELSE IF r.contract = "v2" THEN ScopeOf(r.symbol) ELSE Nothing]

\* verify_integrity: locked versions, producer and the hash of the material
IntegrityOk(b) == b.contract \in {"v1", "v2"} /\ b.producer = "stock_content" /\ b.hash = b.material

\* _validate_v2: the scope is the one of the requested symbol
ScopeOk(b) ==
    b.contract = "v2" =>
        /\ b.request.contract = "v2"
        /\ b.request.scope = ScopeOf(b.request.symbol)
        /\ b.subject = IF ScopeOf(b.request.symbol) = "ALL_SUBJECTS" THEN Nothing ELSE b.request.symbol

\* validate and _validate_v2 up to the items: the bundle answers this request
BundleEnvelopeOk(r, b) ==
    /\ IntegrityOk(b)
    /\ BundleRequestOk([f \in DOMAIN b.request \ {"scope"} |-> b.request[f]])
    /\ ScopeOk(b)
    /\ b.requestHash = b.request
    /\ b.requestHash = RequestPayload(r)
    /\ b.contract = r.contract
    /\ b.snapshot = b.request.snapshot /\ b.query = b.request.query
    /\ b.asOf = b.request.asOf
    /\ ~b.secret

-----------------------------------------------------------------------------
(* Items. *)

ItemsOf(b) == {b.items[i] : i \in DOMAIN b.items}

Forecasts == {"FORECAST", "SOURCE_FORECAST"}
SourceViews == {"OPINION", "CAUSAL_THESIS", "SOURCE_OPINION"} \cup Forecasts

\* _requires_source_attribution
RequiresAttribution(item) ==
    item.nature \in SourceViews \/ (item.grade \in {"SECONDARY", "UNKNOWN"} /\ ~item.verified)

\* _validate_v2_pit: nothing later than the clock, except the target of a
\* forecast; an unknown time says so.  v1 items carry no such clock.
InTime(item, b) ==
    b.contract = "v2" =>
        IF item.time = "UNKNOWN" THEN item.unknown
        ELSE ~item.unknown /\ (item.time = "FORECAST_TARGET" \/ item.at <= b.asOf)

\* Every knowledge id and every evidence id of the bundle is given once.
IdsOk(b) ==
    /\ \A i \in DOMAIN b.items : b.items[i].evidence # {}
    /\ \A i, j \in DOMAIN b.items : i # j =>
        /\ b.items[i].id # b.items[j].id
        /\ \A e \in b.items[i].evidence, f \in b.items[j].evidence : e.id # f.id

\* _validate_items, second half
AcceptedV1(item) ==
    /\ item.support \in {"SOURCE_SUPPORTED", "CROSS_MODAL_SUPPORTED"}
    /\ item.lifecycle = "ACTIVE" /\ item.grounded
    /\ \E e \in item.evidence : e.ownership = "PRIMARY"

\* _validate_v2_items and _v2_public_qualified
AcceptedV2(item) ==
    /\ RequiresAttribution(item) => item.label # Nothing
    /\ item.details # {} /\ \E d \in item.details : d # item.statement
    /\ ~item.review /\ ~item.disputed
    /\ \A e \in item.evidence : e.located
    /\ item.support \in {"SOURCE_SUPPORTED", "CROSS_MODAL_SUPPORTED"}
    /\ \E e \in item.evidence : e.ownership = "PRIMARY" /\ e.modality = "transcript"
    /\ item.support = "CROSS_MODAL_SUPPORTED" => \E e \in item.evidence : e.modality # "transcript"
    /\ item.lifecycle = "ACTIVE" /\ item.grounded

\* _validate_v2_quality: the producer's counts reconcile with the rows sent
QualityOk(b) ==
    LET q == b.quality
        checked == {item \in ItemsOf(b) : item.grade = "PRIMARY" /\ item.verified}
        numeric == {item \in ItemsOf(b) : item.statement.facts # {}}
    IN  /\ q.knowledge = Len(b.items)
        /\ b.contract = "v2" =>
            /\ q.candidates = q.eligible + q.excluded
            /\ q.eligible = q.knowledge + q.truncated
            /\ q.grounded = Cardinality(checked)
            /\ q.numeric = Cardinality(numeric)
            /\ q.numericGrounded = Cardinality(numeric \cap checked)
            /\ q.reviews <= q.candidates /\ q.conflicts <= q.candidates
            /\ q.reviews + q.conflicts > 0 => q.excluded > 0

\* ContentKnowledgeBundleValidator.validate
BundleAccepted(r, b) ==
    /\ BundleRequestOk(r) /\ BundleEnvelopeOk(r, b)
    /\ b.contract = "v1" => b.items # <<>>
    /\ \A item \in ItemsOf(b) : InTime(item, b)
    /\ IdsOk(b)
    /\ \A item \in ItemsOf(b) : IF b.contract = "v2" THEN AcceptedV2(item) ELSE AcceptedV1(item)
    /\ QualityOk(b)

\* freeze_for_conclusion; a bundle that is not accepted changes nothing
Ingest(r, b) ==
    /\ frozen = Nothing /\ BundleAccepted(r, b)
    /\ request' = r /\ frozen' = b
    /\ UNCHANGED published

-----------------------------------------------------------------------------
(* The graph of ownership, and texts. *)

PositiveWords == {"rise", "improve"}
NegativeWords == {"fall", "deteriorate"}

NoText == [words |-> {}, facts |-> {}, labels |-> {}, forecast |-> FALSE, action |-> FALSE]

Joined(lines) ==
    [words |-> UNION {l.words : l \in lines}, facts |-> UNION {l.facts : l \in lines},
     labels |-> UNION {l.labels : l \in lines}, forecast |-> \E l \in lines : l.forecast,
     action |-> \E l \in lines : l.action]

\* _knowledge_text: the attributed statement, the details, the forecast target
Lines(item) ==
    {IF RequiresAttribution(item) /\ item.label # Nothing
     THEN [item.statement EXCEPT !.labels = @ \cup {item.label},
                                 !.forecast = @ \/ item.nature \in Forecasts]
     ELSE item.statement}
    \cup item.details
    \cup (IF item.time = "FORECAST_TARGET" THEN {[NoText EXCEPT !.forecast = TRUE]} ELSE {})

\* The weight that bundle_graph gives a row of the bundle
RowWeight(b) == IF b.contract = "v2" THEN 0 ELSE 1

\* _polarity: which direction more words name
Polarity(text) ==
    LET score == Cardinality(text.words \cap PositiveWords) - Cardinality(text.words \cap NegativeWords)
    IN  IF score > 0 THEN 1 ELSE IF score < 0 THEN -1 ELSE 0

\* extract_hard_facts: numbers and names, and a direction that is named
HardFacts(text) == text.facts \cup (text.words \cap {"rise", "fall"})

-----------------------------------------------------------------------------
(* Grounding. *)

Cited(f, b) == {item \in ItemsOf(b) : item.id \in f.knowledge}

\* Mutant: rows of items that are not cited count too.
CitedRows_Any(f, b) == {e \in UNION {item.evidence : item \in ItemsOf(b)} : e.id \in f.evidence}

\* The rows of the cited items that the finding names
CitedRows(f, b) == {e \in UNION {item.evidence : item \in Cited(f, b)} : e.id \in f.evidence}

\* _validate_cited_semantics
SemanticsKept(item, text) ==
    /\ RequiresAttribution(item) => item.label # Nothing /\ item.label \in text.labels
    /\ item.time = "UNKNOWN" => item.unknown
    /\ item.time = "FORECAST_TARGET" => text.forecast

\* Finding: the language gate and at least one citation of each kind
FindingOk(f) == ~f.text.action /\ f.knowledge # {} /\ f.evidence # {}

\* ground_finding
Grounded(f, b) ==
    LET source == Joined(UNION {Lines(item) : item \in Cited(f, b)} \cup {e.text : e \in CitedRows(f, b)})
    IN  /\ {item.id : item \in Cited(f, b)} = f.knowledge
        /\ \A item \in Cited(f, b) : SemanticsKept(item, f.text)
        /\ {e.id : e \in CitedRows(f, b)} = f.evidence
        /\ \A item \in Cited(f, b) : item.evidence \cap CitedRows(f, b) # {}
        /\ Polarity(f.text) * Polarity(source) >= 0
        /\ HardFacts(f.text) \subseteq HardFacts(source)

\* validate_research_semantics: repeated rows count once per finding
Directional(findings, sign, b) ==
    RowWeight(b) * MapThenSumSet(LAMBDA f : Cardinality(CitedRows(f, b)), {f \in findings : Polarity(f.text) = sign})

SemanticsOk(p, b) ==
    LET positive == Directional(p.findings, 1, b)
        negative == Directional(p.findings, -1, b)
    IN  /\ p.verdict = "SUPPORTED" => positive > negative
        /\ p.verdict = "CONTRADICTED" => negative > positive
        /\ p.verdict = "MIXED" => positive > 0 /\ negative > 0
        /\ p.verdict = "INSUFFICIENT_EVIDENCE" => p.stance \notin {"BULLISH", "BEARISH"}
        /\ p.stance = "BULLISH" => positive > negative
        /\ p.stance = "BEARISH" => negative > positive

\* _model_conclusion_from_attempt: the displayed parts are findings (_select)
ModelConclusion(p) ==
    [mode |-> "MODEL", verdict |-> p.verdict, stance |-> p.stance, findings |-> p.findings]

Conclude(p) ==
    /\ frozen # Nothing /\ published = Nothing
    /\ p.findings # {} /\ p.indicesOk
    /\ \A f \in p.findings : FindingOk(f) /\ Grounded(f, frozen)
    /\ SemanticsOk(p, frozen)
    /\ published' = ModelConclusion(p)
    /\ UNCHANGED <<request, frozen>>

-----------------------------------------------------------------------------
(* The conclusion without a model. *)

\* aggregate_bundle_findings: a line that reads as an instruction is dropped
DisplayLines(item) == {l \in Lines(item) : ~l.action}

Projected(b) ==
    {[text |-> Joined(DisplayLines(item)), knowledge |-> {item.id},
      evidence |-> {e.id : e \in item.evidence}] :
        item \in {i \in ItemsOf(b) : DisplayLines(i) # {}}}

\* _weight and _deduplicated_weight; no two items share evidence, and the one
\* source of a bundle gives no independence bonus
SideWeight(findings, sign, b) == Directional(findings, sign, b)

\* _verdict
FallbackVerdict(findings, b) ==
    LET positive == SideWeight(findings, 1, b)
        negative == SideWeight(findings, -1, b)
        smaller == IF positive < negative THEN positive ELSE negative
        larger == IF positive < negative THEN negative ELSE positive
    IN  IF larger = 0 THEN "INSUFFICIENT_EVIDENCE"
        ELSE IF 2 * negative > 3 * positive THEN "CONTRADICTED"
        ELSE IF smaller > 0 /\ 100 * smaller >= 67 * larger THEN "MIXED"
        ELSE "SUPPORTED"

\* The template of a bundle with nothing to display cites its first item.
Template(b) ==
    IF b.items = <<>> THEN {}
    ELSE {[text |-> NoText, knowledge |-> {b.items[1].id}, evidence |-> {e.id}] : e \in b.items[1].evidence}

\* fallback_conclusion; it raises when what it built does not ground
Fallback ==
    /\ frozen # Nothing /\ published = Nothing
    /\ LET projected == Projected(frozen)
           built == IF projected # {} THEN {projected} ELSE {{f} : f \in Template(frozen)}
       IN  \E findings \in IF built = {} THEN {{}} ELSE built :
               published' = IF findings # {} /\ \A f \in findings : Grounded(f, frozen)
                            THEN [mode |-> "FALLBACK", stance |-> "UNCERTAIN", findings |-> findings,
                                  verdict |-> IF projected = {} THEN "INSUFFICIENT_EVIDENCE"
                                              ELSE FallbackVerdict(findings, frozen)]
                            ELSE Raised
    /\ UNCHANGED <<request, frozen>>

GroundingNext ==
    \/ \E r \in BundleRequests, b \in Payloads : Ingest(r, b)
    \/ \E p \in Proposals : Conclude(p)
    \/ Fallback

GroundingSpec == GroundingInit /\ [][GroundingNext]_groundingVars

-----------------------------------------------------------------------------
(* Properties. *)

Published == IF published \in {Nothing, Raised} THEN {} ELSE {published}

\* Whatever path built it, a published conclusion can be traced: each row
\* that a finding cites belongs to an item it cites, each item it cites has
\* such a row, was known by the clock of a v2 request unless it is told as a
\* forecast, and keeps the name of its source when it is a view or an
\* unverified second-hand claim; and a verdict has evidence of its sign.
ConclusionIsGrounded ==
    \A c \in Published :
        /\ \A f \in c.findings :
            LET cited == {item \in ItemsOf(frozen) : item.id \in f.knowledge}
            IN  /\ Cardinality(cited) = Cardinality(f.knowledge)
                /\ \A id \in f.evidence : \E item \in cited : \E e \in item.evidence : e.id = id
                /\ \A item \in cited :
                    /\ \E e \in item.evidence : e.id \in f.evidence
                    /\ \/ request.contract = "v1"
                       \/ item.at <= request.asOf \/ f.text.forecast \/ item.time = "UNKNOWN"
                    /\ \/ item.nature \in SourceViews
                       \/ item.grade \notin {"PRIMARY", "SOURCE_ASSERTION"} /\ ~item.verified
                       => item.label \in f.text.labels
        /\ c.verdict \in {"SUPPORTED", "MIXED"} => \E f \in c.findings : Polarity(f.text) > 0
        /\ c.verdict \in {"CONTRADICTED", "MIXED"} => \E f \in c.findings : Polarity(f.text) < 0

\* What the synthesis service says of itself: every unusable model output
\* ends in the deterministic grounded result.
FallbackConcludes == published # Raised
=============================================================================
