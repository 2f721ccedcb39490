------------------------------ MODULE Retrieval ------------------------------
(* Retrieval of video-derived knowledge for a consumer intent: the access  *)
(* rule of the intent merged with the caller's filters (retrieval_policy,  *)
(* knowledge_access_policy), dense recall from Qdrant and sparse recall    *)
(* from SQL, the quality gate over both, and hydration (hybrid_retriever,  *)
(* sparse_retriever, postgres_hydrator).  Scores are hundredths; ranking   *)
(* keeps some K of the candidates and changes none.                        *)
EXTENDS Integers, FiniteSets

CONSTANTS
    Units,       \* knowledge units: row and, if it was indexed, payload
    Queries,    \* filters a caller may send
    TopResults,
    NoFilter     \* absent

ASSUME RetrievalAssumption ==
    /\ TopResults \in Nat \ {0}
    /\ \A q \in Queries : q.score \in Int \cup {NoFilter}
    /\ \A u \in Units : u.row.score \in Int /\ (u.payload # NoFilter => u.payload.score \in Int)

VARIABLES
    question,    \* the retrieval in flight, or NoFilter
    recalled,    \* its candidates
    contexts     \* what the last retrieval returned, or NoFilter

retrievalVars == <<question, recalled, contexts>>

RetrievalInit == question = NoFilter /\ recalled = {} /\ contexts = NoFilter

-----------------------------------------------------------------------------
(* The access rule and the merge of filters. *)

SupportOrder == <<"UNSUPPORTED", "SOURCE_LOCATED", "NEEDS_REVIEW", "SOURCE_SUPPORTED",
                  "CROSS_MODAL_SUPPORTED", "EXTERNALLY_VERIFIED", "VALIDATED">>

StateIntents == {"current_state", "trading_decision", "market_opportunity_scan", "strategy_question"}

Intents == StateIntents \cup {"factual_qa", "author_viewpoint"}

\* KnowledgeAccessPolicy.for_intent
AccessRule(intent) ==
    [support |-> "SOURCE_SUPPORTED",
     score |-> IF intent \in StateIntents \cup {"factual_qa"} THEN 70 ELSE 60,
     truth |-> IF intent = "factual_qa" THEN {"EXTERNALLY_VERIFIED"} ELSE NoFilter,
     denied |-> {"REJECTED"},
     validOnly |-> intent \in StateIntents \cup {"factual_qa"}]

\* _support_rank: a status that the order does not know has no rank.
SupportRank(status) ==
    IF \E i \in DOMAIN SupportOrder : SupportOrder[i] = status
    THEN CHOOSE i \in DOMAIN SupportOrder : SupportOrder[i] = status
    ELSE NoFilter

\* allowed_statuses
AllowedStatuses(minimum) ==
    {SupportOrder[i] : i \in {j \in DOMAIN SupportOrder : j >= SupportRank(minimum)}}

\* Mutant: the caller's minimum replaces the policy's.
StricterSupport_Requested(policy, requested) ==
    IF SupportRank(requested) = NoFilter THEN policy ELSE requested

\* _stricter_support_status; the policy's minimum always has a rank.
StricterSupport(policy, requested) ==
    IF SupportRank(requested) # NoFilter /\ SupportRank(requested) > SupportRank(policy)
    THEN requested ELSE policy

StricterScore(policy, requested) ==
    IF requested # NoFilter /\ requested > policy THEN requested ELSE policy

\* _merge_truth_status: the caller may narrow what the policy allows.
MergedTruth(policy, requested) ==
    IF policy = NoFilter THEN requested
    ELSE IF requested # NoFilter /\ requested # {} /\ requested \subseteq policy THEN requested
    ELSE policy

\* merge_policy_filters
MergedFilters(policy, requested) ==
    [support |-> StricterSupport(policy.support, requested.support),
     score |-> StricterScore(policy.score, requested.score),
     truth |-> MergedTruth(policy.truth, requested.truth),
     denied |-> policy.denied \cup requested.denied,
     validOnly |-> policy.validOnly \/ requested.validOnly]

-----------------------------------------------------------------------------
(* Recall. *)

TruthPasses(f, truth) == f.truth = NoFilter \/ truth \in f.truth

\* _build_filter: what Qdrant is asked; validity is not part of it.
DenseHit(u, f) ==
    /\ u.payload # NoFilter
    /\ u.payload.support \in AllowedStatuses(f.support)
    /\ u.payload.score >= f.score
    /\ TruthPasses(f, u.payload.truth)
    /\ u.payload.review \notin f.denied

\* _knowledge_filter_clauses
FilterClauses(row, f) ==
    /\ row.support \in AllowedStatuses(f.support)
    /\ row.score >= f.score
    /\ TruthPasses(f, row.truth)
    /\ f.validOnly => ~row.expired

SparseHit(u, f) == u.row.lifecycle \notin {"REJECTED", "RETIRED"} /\ FilterClauses(u.row, f)

\* A candidate is what its payload says; a row of the SQL carries no
\* review status.
DenseCandidate(u) ==
    [unit |-> u.id, from |-> "dense", support |-> u.payload.support, score |-> u.payload.score,
     truth |-> u.payload.truth, expired |-> u.payload.expired, review |-> u.payload.review]
SparseCandidate(u) ==
    [unit |-> u.id, from |-> "sparse", support |-> u.row.support, score |-> u.row.score,
     truth |-> u.row.truth, expired |-> u.row.expired, review |-> NoFilter]

\* _merge_recall_candidates: the two recalls name a chunk differently, so
\* that a unit found by both stays two candidates.
MergedRecall(dense, sparse) == dense \cup sparse

\* retrieve up to the recall; a sparse recall that raises recalls nothing.
Recall(intent, requested) ==
    /\ question = NoFilter
    /\ LET f == MergedFilters(AccessRule(intent), requested) IN
       /\ question' = [intent |-> intent, filters |-> f]
       /\ \E sparseFails \in BOOLEAN :
            recalled' = MergedRecall(
                {DenseCandidate(u) : u \in {v \in Units : DenseHit(v, f)}},
                {SparseCandidate(u) : u \in {v \in Units : ~sparseFails /\ SparseHit(v, f)}})
    /\ contexts' = NoFilter

-----------------------------------------------------------------------------
(* The gate, and what follows it. *)

\* _apply_quality_gate
PassesGate(c, f) ==
    /\ c.support \in AllowedStatuses(f.support)
    /\ c.score >= f.score
    /\ TruthPasses(f, c.truth)
    /\ c.review \notin f.denied \cup {"REJECTED"}

\* What the reranker and the hybrid score may leave of the candidates.
Rankings(gated) ==
    {best \in SUBSET gated :
        Cardinality(best) = IF Cardinality(gated) < TopResults THEN Cardinality(gated) ELSE TopResults}

\* hydrate: a knowledge unit has no record, and valid_to is not copied.
Hydrated(c) == [unit |-> c.unit, from |-> c.from]

IsExpired(context) == "expired" \in DOMAIN context /\ context.expired

\* _filter_expired_contexts looks at what hydration left.
StillValid(c, intent) == intent \in StateIntents => ~IsExpired(Hydrated(c))

\* The gate, the rerank to K, hydration and the expiry filter.  Conflict
\* resolution reads the conflict group from the same place, where a
\* knowledge unit has none.
Retrieve ==
    /\ question # NoFilter
    /\ LET gated == {c \in recalled : PassesGate(c, question.filters)} IN
       \E best \in Rankings(gated) :
        contexts' = [intent |-> question.intent,
                     found |-> {c \in best : StillValid(c, question.intent)}]
    /\ question' = NoFilter
    /\ recalled' = {}

RetrievalNext == Retrieve \/ \E intent \in Intents, r \in Queries : Recall(intent, r)

RetrievalSpec == RetrievalInit /\ [][RetrievalNext]_retrievalVars

-----------------------------------------------------------------------------

\* "The caller may only tighten the policy, never relax it": whatever the
\* caller's filters and whichever recall found it, a context meets the
\* support, score, truth and review demands of its intent
\* (merge_policy_filters, _apply_quality_gate).
CallerOnlyTightens ==
    contexts # NoFilter =>
        \A c \in contexts.found : PassesGate(c, AccessRule(contexts.intent))
=============================================================================
