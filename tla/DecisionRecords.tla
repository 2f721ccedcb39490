--------------------------- MODULE DecisionRecords ---------------------------
(* The rows kept about a decision: its binding to one input bundle, the    *)
(* formal segments and the v3 snapshot (DecisionSnapshotRepository), its   *)
(* structured reviews and what is remembered of them (ReviewService,       *)
(* ReviewRepository, DecisionMemoryRepository).  A repository call is one  *)
(* transaction; the unique indexes of the tables, which only matter        *)
(* between transactions that overlap, are left out.  A hash stands for the *)
(* content it covers.                                                      *)
EXTENDS Integers, FiniteSets

CONSTANTS
    Decisions, Bundles,
    RowIds,          \* ids of specialist artifacts, proposals and policy results
    Contents,        \* what a row or a snapshot may say
    Outcomes,        \* outcome ids
    OutcomeOf,       \* [Outcomes -> Decisions]
    Excess,          \* [Outcomes -> Int], the excess return
    Callers,         \* threads that review
    NoRow, Idle,
    MaxRows          \* bound: rows written before the reviews

VARIABLES
    bound,      \* decision_bundle_binding: decision -> bundle
    segments,   \* formal rows: id -> [decision, bundle, content]
    snapshots,  \* decision_snapshot_v3: decision -> snapshot
    answers,    \* what save_v3 returned: [decision, snapshot]
    reviews,    \* decision_review_v2: review id -> [by, memory]
    memories,   \* decision_memory_v2: dedupe key -> [review, by]
    review      \* per caller, the save_review call under way

recordVars == <<bound, segments, snapshots, answers, reviews, memories, review>>

RecordsInit ==
    /\ bound = [d \in {} |-> NoRow]
    /\ segments = [r \in {} |-> NoRow]
    /\ snapshots = [d \in {} |-> NoRow]
    /\ answers = {}
    /\ reviews = [r \in {} |-> NoRow]
    /\ memories = [k \in {} |-> NoRow]
    /\ review = [c \in Callers |-> Idle]

\* A table with the row of a key written.
Put(table, key, row) == [k \in DOMAIN table \cup {key} |-> IF k = key THEN row ELSE table[k]]

\* _ensure_decision_bundle_binding, which raises unless this holds.
Bindable(d, b) ==
    /\ d \in DOMAIN bound => bound[d] = b
    /\ \A other \in DOMAIN bound : bound[other] = b => other = d

\* Rows of either side of a pair belong to the pair.  (The code looks at
\* one such row of each table: they agree, by LineageIsOneToOne.)
SegmentsAgree(d, b) ==
    \A r \in DOMAIN segments :
        segments[r].decision = d \/ segments[r].bundle = b
            => segments[r].decision = d /\ segments[r].bundle = b

SnapshotAgrees(d, b) ==
    \A s \in DOMAIN snapshots : s = d \/ snapshots[s].bundle = b => s = d /\ snapshots[s].bundle = b

\* save_formal_segments: all rows or none; a row that exists is the same.
SaveSegments ==
    \E d \in Decisions, b \in Bundles, ids \in SUBSET RowIds, c \in Contents :
        LET row == [decision |-> d, bundle |-> b, content |-> c] IN
        /\ ids # {}
        /\ Cardinality(DOMAIN segments \cup ids) <= MaxRows
        /\ Bindable(d, b) /\ SegmentsAgree(d, b) /\ SnapshotAgrees(d, b)
        /\ \A r \in ids \cap DOMAIN segments : segments[r] = row
        /\ bound' = Put(bound, d, b)
        /\ segments' = [r \in DOMAIN segments \cup ids |-> IF r \in ids THEN row ELSE segments[r]]
        /\ UNCHANGED <<snapshots, answers, reviews, memories, review>>

\* Mutant: another snapshot of the decision is taken for the stored one.
SameSnapshot_Any(d, s) == d \in DOMAIN snapshots => snapshots[d].bundle = s.bundle

\* save_v3: the same snapshot again is answered with the stored row,
\* another one for the decision or for the bundle raises.
SameSnapshot(d, s) == d \in DOMAIN snapshots => snapshots[d] = s

\* SnapshotBundleRef.validate_payload: the embedded bundle is the one named.
BundleRefOk(s) == s.payload = s.bundle

\* DecisionSnapshotV3.validate_integrity: the output and the lineage of a
\* snapshot name its own decision and bundle, and its segments hash to what
\* it records.
SnapshotOk(d, s) ==
    /\ s.output = <<d, s.bundle>>
    /\ s.lineage = <<d, s.bundle>>
    /\ s.hashes = s.content

\* What a caller may hand to save_v3.
Drafts(b, c) == [bundle : {b}, payload : Bundles, content : {c}, hashes : Contents,
                 output : Decisions \X Bundles, lineage : Decisions \X Bundles]

SaveSnapshot ==
    \E d \in Decisions, b \in Bundles, c \in Contents : \E s \in Drafts(b, c) :
        /\ BundleRefOk(s) /\ SnapshotOk(d, s)
        /\ Bindable(d, b)
        /\ SameSnapshot(d, s)
        /\ SnapshotAgrees(d, b) /\ SegmentsAgree(d, b)
        /\ bound' = Put(bound, d, b)
        /\ snapshots' = IF d \in DOMAIN snapshots THEN snapshots ELSE Put(snapshots, d, s)
        /\ answers' = answers \cup {[decision |-> d, snapshot |-> s]}
        /\ UNCHANGED <<segments, reviews, memories, review>>

-----------------------------------------------------------------------------

\* The natural key of a review, which its id hashes.
ReviewId(d, refs) == <<d, refs>>

\* build_review: the memory type follows the sign of the mean excess
\* return; the wording and the scope of a candidate are fixed by it.
MemoryType(refs) ==
    LET sum == LET f[S \in SUBSET refs] ==
                     IF S = {} THEN 0 ELSE LET o == CHOOSE x \in S : TRUE IN Excess[o] + f[S \ {o}]
               IN  f[refs]
    IN  IF sum > 0 THEN "SUCCESS_PATTERN" ELSE "FAILURE_PATTERN"

\* DecisionMemory.dedupe_key: type, content and scope, and nothing of the
\* decision or of the review.
DedupeKey(type) == type

\* Mutant: the memories are written before the review.
FirstStep_Memory(id) == "remember"

\* An existing review is taken, a new one is saved before its memories.
FirstStep(id) == IF id \in DOMAIN reviews THEN "remember" ELSE "save"

\* What build_review and DecisionReview require of the outcomes.
ReviewOk(d, refs) == refs # {} /\ \A o \in refs : OutcomeOf[o] = d

\* save_review begins.  A new review is built from the snapshot and from
\* outcomes of the decision, and carries the caller's created_at.
BeginReview(c, d, refs) ==
    /\ review[c] = Idle
    /\ d \in DOMAIN snapshots
    /\ ReviewOk(d, refs)
    /\ LET id == ReviewId(d, refs)
           row == IF id \in DOMAIN reviews THEN reviews[id] ELSE [by |-> c, memory |-> MemoryType(refs)]
       IN  review' = [review EXCEPT ![c] = [id |-> id, row |-> row, step |-> FirstStep(id)]]
    /\ UNCHANGED <<bound, segments, snapshots, answers, reviews, memories>>

\* ReviewRepository.save: another content under the same id raises.
SaveReview(c) ==
    /\ review[c] # Idle /\ review[c].step = "save"
    /\ LET id == review[c].id IN
       IF id \in DOMAIN reviews /\ reviews[id] # review[c].row
       THEN /\ review' = [review EXCEPT ![c] = Idle]
            /\ UNCHANGED reviews
       ELSE /\ reviews' = Put(reviews, id, review[c].row)
            /\ review' = [review EXCEPT ![c].step = "remember"]
    /\ UNCHANGED <<bound, segments, snapshots, answers, memories>>

\* build_from_candidate: a memory names its review and its created_at.
MemoryOf(call) == [review |-> call.id, by |-> call.row.by]

\* DecisionMemoryRepository.save: a memory with the key of another raises.
Stored(key, memory) == IF key \in DOMAIN memories THEN memories ELSE Put(memories, key, memory)

Materialize(c) ==
    /\ review[c] # Idle /\ review[c].step = "remember"
    /\ memories' = Stored(DedupeKey(review[c].row.memory), MemoryOf(review[c]))
    /\ review' = [review EXCEPT ![c] = Idle]
    /\ UNCHANGED <<bound, segments, snapshots, answers, reviews>>

\* The process of a caller dies.
LoseReview(c) ==
    /\ review[c] # Idle
    /\ review' = [review EXCEPT ![c] = Idle]
    /\ UNCHANGED <<bound, segments, snapshots, answers, reviews, memories>>

RecordsNext ==
    \/ SaveSegments
    \/ SaveSnapshot
    \/ \E c \in Callers :
        \/ \E d \in Decisions, refs \in SUBSET Outcomes : BeginReview(c, d, refs)
        \/ SaveReview(c)
        \/ Materialize(c)
        \/ LoseReview(c)

RecordsSpec == RecordsInit /\ [][RecordsNext]_recordVars

\* A review is asked for again until it succeeds, as the job queue does,
\* and a call does not always lose its process.
RetriedSpec ==
    /\ RecordsSpec
    /\ \A c \in Callers :
        /\ SF_recordVars(SaveReview(c)) /\ SF_recordVars(Materialize(c))
        /\ \A d \in Decisions, refs \in SUBSET Outcomes : SF_recordVars(BeginReview(c, d, refs))

-----------------------------------------------------------------------------

\* One decision has one bundle and one bundle one decision, in the binding,
\* in every formal row, in the snapshots and in the final output they hold,
\* whatever calls were made in whatever order; and what save_v3 answered is
\* what is stored (save_v3, save_formal_segments,
\* _ensure_decision_bundle_binding, validate_integrity).
LineageIsOneToOne ==
    LET pairs == {<<d, bound[d]>> : d \in DOMAIN bound}
                 \cup {<<segments[r].decision, segments[r].bundle>> : r \in DOMAIN segments}
                 \cup {<<d, snapshots[d].bundle>> : d \in DOMAIN snapshots}
                 \cup {snapshots[d].output : d \in DOMAIN snapshots}
    IN  /\ \A p, q \in pairs : p[1] = q[1] <=> p[2] = q[2]
        /\ \A a \in answers : a.decision \in DOMAIN snapshots /\ snapshots[a.decision] = a.snapshot

\* A memory never outlives, precedes or misquotes the review it cites: the
\* review is stored, by the same call and of the same verdict, across
\* crashes and racing callers (save_review: "a failed review write must
\* never leave a memory whose provenance points at a review that does not
\* exist").
MemoryHasItsReview ==
    \A key \in DOMAIN memories :
        LET id == memories[key].review IN
        /\ id \in DOMAIN reviews
        /\ reviews[id].by = memories[key].by
        /\ DedupeKey(reviews[id].memory) = key

\* What the comment of _materialize_memories asks for: retrying a review
\* resumes its missing memory writes.  Two reviews with the same verdict
\* have the same dedupe key, so the second is never remembered however
\* often it is retried (DecisionMemory.validate_memory).
ReviewIsRemembered ==
    \A d \in Decisions, refs \in SUBSET Outcomes :
        ReviewId(d, refs) \in DOMAIN reviews ~>
            \E key \in DOMAIN memories : memories[key].review = ReviewId(d, refs)
=============================================================================
