----------------------------- MODULE MemoryIndex -----------------------------
(* Long-term memory: merging a candidate into the record of its merge key  *)
(* (memory_merger, conflict_resolver, memory_writer), the life of a record *)
(* (lifecycle, evidence), the vector index task and the one worker that    *)
(* executes it (vector_repository, vector_index_worker).  Every repository *)
(* call is a transaction of its own.  A content is a model value with a    *)
(* number of chunks; evidence weighs one half, the default quality.        *)
(* mark_deleted has no caller in the repository and is left out.           *)
EXTENDS Integers, FiniteSets, Sequences

CONSTANTS
    Candidates,     \* what an extractor may offer for the merge key
    Chunks(_),      \* chunk_text: how many chunks a content has
    Mergers,        \* processes that merge
    JudgedDecisions,\* decisions whose outcome is evidence
    Target,         \* the collection that merged memories are sent to
    Collections,    \* the collections that exist in Qdrant
    MinEvidence,
    MaxRecords, MaxMerges, MaxOutcomes, MaxFaults,
    NoMemory        \* absent

MemoryContents == {c.content : c \in Candidates}

MemoryStatuses ==
    {"ACTIVE", "VALIDATED", "REVALIDATION_REQUIRED", "SUPERSEDED", "EXPIRED", "REJECTED"}

\* MemoryRecord
MemoryRows ==
    [content : MemoryContents, facts : {c.facts : c \in Candidates},
     lessons : SUBSET UNION {c.lessons : c \in Candidates},
     regimes : SUBSET UNION {c.regimes : c \in Candidates},
     relevant : BOOLEAN, timed : BOOLEAN, status : MemoryStatuses,
     source : {c.source : c \in Candidates} \cup {NoMemory}]

\* The locals of a merge, and those of the worker.
Merges ==
    [step : {"create", "snapshot", "update", "supersede", "enqueue"}, candidate : Candidates,
     record : Nat, old : MemoryRows \cup {NoMemory},
     source : {c.source : c \in Candidates} \cup {NoMemory}]

Indexings ==
    [task : Nat, step : {"load", "clear", "unmap", "point", "map"},
     content : MemoryContents \cup {NoMemory}, chunk : Nat]

ASSUME MemoryAssumption ==
    /\ MinEvidence \in Nat
    /\ MaxRecords \in Nat /\ MaxMerges \in Nat /\ MaxOutcomes \in Nat /\ MaxFaults \in Nat
    /\ \A c \in Candidates : c.relevant \in BOOLEAN /\ c.timed \in BOOLEAN
    /\ \A content \in MemoryContents : Chunks(content) \in Nat
    /\ NoMemory \notin MemoryRows \cup Merges \cup Indexings

VARIABLES
    rows,       \* memory_record by id: NoMemory, or the row
    history,    \* memory_version: contents by record
    judgments,  \* memory_evidence: by record, the direction of each decision's outcome
    tasks,      \* vector_index_task
    points,     \* Qdrant: by <<record, chunk>>, the content it is a chunk of
    mapped,     \* vector_index_mapping: indexed <<record, chunk>>
    merging,    \* what each merger is doing
    outcome,    \* the outcome evidence being recorded
    indexer,    \* what the worker is doing
    merges, outcomes, faults

memoryVars == <<rows, history, judgments, tasks, points, mapped, merging, outcome, indexer,
                merges, outcomes, faults>>

Records == 1 .. MaxRecords
Live == {r \in Records : rows[r] # NoMemory}

MemoryInit ==
    /\ rows = [r \in Records |-> NoMemory]
    /\ history = [r \in Records |-> <<>>]
    /\ judgments = [r \in Records |-> <<>>]
    /\ tasks = <<>>
    /\ points = <<>>
    /\ mapped = {}
    /\ merging = [m \in Mergers |-> NoMemory]
    /\ outcome = NoMemory
    /\ indexer = NoMemory
    /\ merges = 0 /\ outcomes = 0 /\ faults = 0

-----------------------------------------------------------------------------
(* Merging. *)

\* get_by_merge_key: the record of the plain key, superseded or not.
Existing == {r \in Live : rows[r].source = NoMemory}

\* The keys of a conflict between the facts of a record and of a candidate.
Conflicts(old, new) ==
    {k \in DOMAIN old.facts \cap DOMAIN new.facts : old.facts[k] # new.facts[k]}

\* MemoryConflictResolver.resolve
Resolution(old, c) ==
    IF Conflicts(old, c) = {} THEN "update"
    ELSE IF old.status = "VALIDATED" /\ old.relevant /\ ~c.trusted THEN "touch"
    ELSE "supersede"

\* _payload and _scope
Payload(c, source) ==
    [content |-> c.content, facts |-> c.facts, lessons |-> c.lessons, regimes |-> c.regimes,
     relevant |-> c.relevant, timed |-> c.timed, status |-> "ACTIVE", source |-> source]

\* _merged_scope and the lessons of both; no scope is every scope.
Merged(old, c) ==
    [Payload(c, NoMemory) EXCEPT !.lessons = @ \cup old.lessons, !.regimes = @ \cup old.regimes]

MergerAt(m, step) == merging[m] # NoMemory /\ merging[m].step = step

MoveMerger(m, step) == merging' = [merging EXCEPT ![m].step = step]

EndMerge(m) == merging' = [merging EXCEPT ![m] = NoMemory]

\* merge begins: what it finds now it relies on to its end.
Lookup(m, c) ==
    /\ merging[m] = NoMemory
    /\ merges < MaxMerges
    /\ merges' = merges + 1
    /\ merging' = [merging EXCEPT ![m] =
        IF Existing = {}
        THEN [step |-> "create", candidate |-> c, record |-> 0, old |-> NoMemory, source |-> NoMemory]
        ELSE LET r == CHOOSE r \in Existing : TRUE IN
             [step |-> "snapshot", candidate |-> c, record |-> r, old |-> rows[r],
              source |-> NoMemory]]
    /\ UNCHANGED <<rows, history, judgments, tasks, points, mapped, outcome, indexer,
                   outcomes, faults>>

\* _snapshot, then the resolver decides.
Snapshot(m) ==
    /\ MergerAt(m, "snapshot")
    /\ LET g == merging[m] IN
       /\ history' = [history EXCEPT ![g.record] = Append(@, g.old.content)]
       /\ IF Resolution(g.old, g.candidate) = "touch"
          THEN EndMerge(m)
          ELSE MoveMerger(m, Resolution(g.old, g.candidate))
    /\ UNCHANGED <<rows, judgments, tasks, points, mapped, outcome, indexer, merges, outcomes,
                   faults>>

\* A conflict supersedes the record; the candidate gets a key of its source.
Supersede(m) ==
    /\ MergerAt(m, "supersede")
    /\ rows' = [rows EXCEPT ![merging[m].record].status = "SUPERSEDED"]
    /\ merging' = [merging EXCEPT ![m].step = "create", ![m].source = merging[m].candidate.source]
    /\ UNCHANGED <<history, judgments, tasks, points, mapped, outcome, indexer, merges, outcomes,
                   faults>>

KeyTaken(source) == \E r \in Live : rows[r].source = source

\* MemoryRepository.create: the merge key is unique, a second one raises.
Create(m) ==
    /\ MergerAt(m, "create")
    /\ LET g == merging[m]
           r == Cardinality(Live) + 1
       IN  IF KeyTaken(g.source)
           THEN EndMerge(m) /\ UNCHANGED rows
           ELSE /\ r \in Records
                /\ rows' = [rows EXCEPT ![r] = Payload(g.candidate, g.source)]
                /\ merging' = [merging EXCEPT ![m].step = "enqueue", ![m].record = r]
    /\ UNCHANGED <<history, judgments, tasks, points, mapped, outcome, indexer, merges, outcomes,
                   faults>>

\* Without a conflict the record takes the candidate's content, and its
\* status is ACTIVE again whatever it was.
Update(m) ==
    /\ MergerAt(m, "update")
    /\ LET g == merging[m] IN
       rows' = [rows EXCEPT ![g.record] = Merged(g.old, g.candidate)]
    /\ MoveMerger(m, "enqueue")
    /\ UNCHANGED <<history, judgments, tasks, points, mapped, outcome, indexer, merges, outcomes,
                   faults>>

Enqueue(m) ==
    /\ MergerAt(m, "enqueue")
    /\ tasks' = Append(tasks, [record |-> merging[m].record, status |-> "pending"])
    /\ EndMerge(m)
    /\ UNCHANGED <<rows, history, judgments, points, mapped, outcome, indexer, merges,
                   outcomes, faults>>

\* The merging process is lost between two transactions.
LoseMerger(m) ==
    /\ merging[m] # NoMemory
    /\ faults < MaxFaults
    /\ faults' = faults + 1
    /\ EndMerge(m)
    /\ UNCHANGED <<rows, history, judgments, tasks, points, mapped, outcome, indexer, merges,
                   outcomes>>

-----------------------------------------------------------------------------
(* The life of a record. *)

Ended == {"SUPERSEDED", "EXPIRED", "REJECTED"}

\* expire_due, for one record whose time has come.
Expire(r) ==
    /\ r \in Live
    /\ rows[r].timed /\ rows[r].status \notin Ended
    /\ rows' = [rows EXCEPT ![r].status = "EXPIRED"]
    /\ UNCHANGED <<history, judgments, tasks, points, mapped, merging, outcome, indexer, merges,
                   outcomes, faults>>

\* Numbers of an evidence function: how many outcomes, and their sum.
Count(e) == Cardinality(DOMAIN e)

Signed(e) ==
    Cardinality({d \in DOMAIN e : e[d] = 1}) - Cardinality({d \in DOMAIN e : e[d] = -1})

\* weighted_confidence, (1 + s/2) / (2 + n/2), is at least or at most a
\* number of tenths.
ConfidenceAtLeast(e, tenths) == 10 * (2 + Signed(e)) >= tenths * (4 + Count(e))
ConfidenceAtMost(e, tenths) == 10 * (2 + Signed(e)) <= tenths * (4 + Count(e))

\* The status that record_outcome_evidence writes back.
Judged(status, e) ==
    CASE Count(e) >= MinEvidence /\ ConfidenceAtLeast(e, 7) -> "VALIDATED"
      [] Count(e) >= MinEvidence /\ ConfidenceAtMost(e, 3) -> "REVALIDATION_REQUIRED"
      [] OTHER -> status

\* record_outcome_evidence reads the record first ...
ReadForOutcome(r) ==
    /\ r \in Live
    /\ outcome = NoMemory
    /\ outcomes < MaxOutcomes
    /\ outcomes' = outcomes + 1
    /\ outcome' = [record |-> r, status |-> rows[r].status]
    /\ UNCHANGED <<rows, history, judgments, tasks, points, mapped, merging, indexer, merges,
                   faults>>

\* ... stores the evidence, one row for each decision, and writes the
\* status it had read or the one the evidence asks for.
RecordOutcome(d, direction) ==
    /\ outcome # NoMemory
    /\ LET r == outcome.record
           e == [x \in DOMAIN judgments[r] \cup {d} |-> IF x = d THEN direction ELSE judgments[r][x]]
       IN  /\ judgments' = [judgments EXCEPT ![r] = e]
           /\ rows' = [rows EXCEPT ![r].status = Judged(outcome.status, e)]
    /\ outcome' = NoMemory
    /\ UNCHANGED <<history, tasks, points, mapped, merging, indexer, merges, outcomes, faults>>

-----------------------------------------------------------------------------
(* The index worker, process_one_task. *)

Pending == {i \in DOMAIN tasks : tasks[i].status = "pending"}

IndexerAt(step) == indexer # NoMemory /\ indexer.step = step

EndTask(status) ==
    /\ tasks' = [tasks EXCEPT ![indexer.task].status = status]
    /\ indexer' = NoMemory

NextPending ==
    /\ indexer = NoMemory
    /\ Pending # {}
    /\ LET i == CHOOSE i \in Pending : \A j \in Pending : i <= j IN
       /\ tasks' = [tasks EXCEPT ![i].status = "processing"]
       /\ indexer' = [task |-> i, step |-> "load", content |-> NoMemory, chunk |-> 0]
    /\ UNCHANGED <<rows, history, judgments, points, mapped, merging, outcome, merges,
                   outcomes, faults>>

IndexedRecord == tasks[indexer.task].record

\* The row as it is now is what will be indexed.
LoadMemory ==
    /\ IndexerAt("load")
    /\ indexer' = [indexer EXCEPT !.step = "clear", !.content = rows[IndexedRecord].content]
    /\ UNCHANGED <<rows, history, judgments, tasks, points, mapped, merging, outcome, merges,
                   outcomes, faults>>

\* Mutant: the points of the older content are left in the index.
WithoutRecord_None(r) == points

WithoutRecord(r) == [p \in {q \in DOMAIN points : q[1] # r} |-> points[p]]

\* delete_by_payload: Qdrant answers 404 for a collection it does not have,
\* which fails the task.
ClearPoints ==
    /\ IndexerAt("clear")
    /\ IF Target \in Collections
       THEN /\ points' = WithoutRecord(IndexedRecord)
            /\ indexer' = [indexer EXCEPT !.step = "unmap"]
            /\ UNCHANGED tasks
       ELSE EndTask("failed") /\ UNCHANGED points
    /\ UNCHANGED <<rows, history, judgments, mapped, merging, outcome, merges, outcomes, faults>>

\* A blank content has no chunks: nothing is upserted.
ClearMappings ==
    /\ IndexerAt("unmap")
    /\ mapped' = {p \in mapped : p[1] # IndexedRecord}
    /\ IF Chunks(indexer.content) = 0 THEN EndTask("success")
       ELSE indexer' = [indexer EXCEPT !.step = "point", !.chunk = 1] /\ UNCHANGED tasks
    /\ UNCHANGED <<rows, history, judgments, points, merging, outcome, merges, outcomes, faults>>

UpsertPoint ==
    /\ IndexerAt("point")
    /\ LET p == <<IndexedRecord, indexer.chunk>> IN
       points' = [q \in DOMAIN points \cup {p} |-> IF q = p THEN indexer.content ELSE points[q]]
    /\ indexer' = [indexer EXCEPT !.step = "map"]
    /\ UNCHANGED <<rows, history, judgments, tasks, mapped, merging, outcome, merges, outcomes,
                   faults>>

\* The mapping of the chunk, and after the last one the task's success.
UpsertMapping ==
    /\ IndexerAt("map")
    /\ mapped' = mapped \cup {<<IndexedRecord, indexer.chunk>>}
    /\ IF indexer.chunk < Chunks(indexer.content)
       THEN indexer' = [indexer EXCEPT !.step = "point", !.chunk = @ + 1] /\ UNCHANGED tasks
       ELSE EndTask("success")
    /\ UNCHANGED <<rows, history, judgments, points, merging, outcome, merges, outcomes, faults>>

\* Qdrant, the embedder or the database raises: the task failed, for good.
FailTask ==
    /\ indexer # NoMemory
    /\ faults < MaxFaults
    /\ faults' = faults + 1
    /\ EndTask("failed")
    /\ UNCHANGED <<rows, history, judgments, points, mapped, merging, outcome, merges, outcomes>>

\* The worker dies: its task stays in processing.
LoseIndexer ==
    /\ indexer # NoMemory
    /\ faults < MaxFaults
    /\ faults' = faults + 1
    /\ indexer' = NoMemory
    /\ UNCHANGED <<rows, history, judgments, tasks, points, mapped, merging, outcome, merges,
                   outcomes>>

MemoryNext ==
    \/ \E m \in Mergers :
        \/ \E c \in Candidates : Lookup(m, c)
        \/ Snapshot(m) \/ Supersede(m) \/ Create(m) \/ Update(m) \/ Enqueue(m) \/ LoseMerger(m)
    \/ \E r \in Records : Expire(r) \/ ReadForOutcome(r)
    \/ \E d \in JudgedDecisions, direction \in {-1, 0, 1} : RecordOutcome(d, direction)
    \/ NextPending \/ LoadMemory \/ ClearPoints \/ ClearMappings \/ UpsertPoint \/ UpsertMapping
    \/ FailTask \/ LoseIndexer

MemorySpec == MemoryInit /\ [][MemoryNext]_memoryVars

-----------------------------------------------------------------------------

Quiet ==
    /\ \A m \in Mergers : merging[m] = NoMemory
    /\ indexer = NoMemory /\ Pending = {}
    /\ faults = 0

ChunksOf(r) == {<<r, i>> : i \in 1 .. Chunks(rows[r].content)}

\* Once every task is done, and if nothing failed, the index holds exactly
\* the chunks of the contents the records have now, however the merges and
\* the worker's reads, deletions and upserts interleaved (process_one_task,
\* write_memory_and_enqueue).
IndexFollowsTheRecord ==
    Quiet /\ Target \in Collections =>
        /\ mapped = DOMAIN points
        /\ DOMAIN points = UNION {ChunksOf(r) : r \in Live}
        /\ \A p \in DOMAIN points : points[p] = rows[p[1]].content
=============================================================================
