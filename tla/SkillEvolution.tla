--------------------------- MODULE SkillEvolution ---------------------------
(* The guarded improvement of one skill (engines/skill_evolution): a       *)
(* proposal patches the skill's contract, a candidate is built in a        *)
(* workspace, passes the linter, the golden cases, the replay and the      *)
(* paper evidence, and is released by copying its workspace and moving a   *)
(* pointer.  Proposals live in memory; workspaces, releases and the        *)
(* pointer are files.  A contract is a record; a patch overrides some of   *)
(* its fields; what the linter and pytest say is external.                 *)
EXTENDS Integers, FiniteSets, TLC

CONSTANTS
    Proposals,      \* proposal ids
    Patches,        \* patches a proposal may carry: functions on some fields
    BaseContract,   \* the contract under skills/<slug>
    BaseVersion,
    Cases,          \* the golden cases of the skill
    PaperEvidence,  \* what the persisted decisions of the skill may add up to
    MinSamples, MaxErrorRatio,  \* 5, and 1/20
    TokenRatio,     \* max_token_regression_ratio, in hundredths
    MaxRestarts,
    None

\* ProposalStatus
ProposalStatuses == {"PROPOSED", "STATIC_VALIDATED", "REPLAY_VALIDATED", "PAPER_VALIDATED",
                     "APPROVED", "ACTIVE", "ROLLED_BACK", "REJECTED"}

ProposalRows == [status : ProposalStatuses, patch : Patches]

ASSUME SkillEvolutionAssumption ==
    /\ MinSamples \in Nat /\ MaxErrorRatio \in Nat \ {0} /\ BaseVersion \in Nat
    /\ None \notin ProposalRows

VARIABLES
    proposals,   \* _proposals: None, or [status, patch]
    versions,    \* _active_versions and _previous_stable_versions
    workspace,   \* artifacts/skill_candidates/<proposal>
    evaluating,  \* where run_full_evaluation of a proposal stands
    releases,    \* releases/<slug>/<version>
    pointer,     \* active.json
    releasing,   \* the release in flight
    restarts,
    proven       \* history: contracts that passed every gate

evolutionVars == <<proposals, versions, workspace, evaluating, releases, pointer, releasing,
                   restarts, proven>>

Versions == BaseVersion .. BaseVersion + 1

NoPointer == [active |-> None, previous |-> None]

EvolutionInit ==
    /\ proposals = [p \in Proposals |-> None]
    /\ versions = NoPointer
    /\ workspace = [p \in Proposals |-> None]
    /\ evaluating = [p \in Proposals |-> "no"]
    /\ releases = [v \in Versions |-> None]
    /\ pointer = NoPointer
    /\ releasing = None
    /\ restarts = 0
    /\ proven = {}

\* _validate_scope: a patch stays within the contract.
InScope(patch) == DOMAIN patch \cap {"python", "migration", "broker", "risk_gate", "database"} = {}

Propose(p, patch) ==
    /\ proposals[p] = None
    /\ InScope(patch)
    /\ proposals' = [proposals EXCEPT ![p] = [status |-> "PROPOSED", patch |-> patch]]
    /\ UNCHANGED <<versions, workspace, evaluating, releases, pointer, releasing, restarts, proven>>

-----------------------------------------------------------------------------
(* The gates. *)

\* CandidateWorkspace.create and apply: the patch on a copy of the skill.
Candidate(p) == proposals[p].patch @@ BaseContract

Fresh(contract, case) ==
    \A d \in DOMAIN contract.freshness :
        d \in DOMAIN case.ages /\ case.ages[d] <= contract.freshness[d]

\* _execute_v3: a contract against the recorded evidence, specialists and
\* governance of a case.  `errors` stands for recorded errors and for
\* decision fields that the case's own records lack.
CasePasses(contract, case) ==
    /\ contract.evidence \subseteq {e \in DOMAIN case.evidence : case.evidence[e] \notin {"REJECTED", "STALE"}}
    /\ contract.specialists
        \subseteq {s \in DOMAIN case.specialists : case.specialists[s] \notin {"FAILED", "BLOCKED", "DEGRADED"}}
    /\ contract.require_risk => case.risk
    /\ contract.require_policy => case.policy
    /\ Fresh(contract, case)
    /\ case.sections \subseteq contract.sections
    /\ ~case.errors

\* SkillGoldenExecutor.evaluate: every case, for the active skill too.
GoldenPasses(contract) ==
    /\ Cases # {}
    /\ \A case \in Cases : CasePasses(BaseContract, case) /\ CasePasses(contract, case)

\* replay_validate after the golden cases: both scores are full, so that
\* only the tokens can fail.
ReplayPasses(contract) ==
    BaseContract.tokens = 0 \/ contract.tokens * 100 <= BaseContract.tokens * TokenRatio

\* At most one part in MaxErrorRatio; of nothing, all failed.
Rare(failures, total) == total > 0 /\ failures * MaxErrorRatio <= total

\* _paper_evidence
PaperPasses(e) ==
    /\ e.rows >= MinSamples /\ e.evaluated >= MinSamples
    /\ Rare(e.toolErrors, e.calls)
    /\ Rare(e.outputFailures, e.rows)
    /\ Rare(e.decisionFailures, e.evaluated)

SetStatus(p, status) == proposals' = [proposals EXCEPT ![p].status = status]

At(p, stage) == evaluating' = [evaluating EXCEPT ![p] = stage]

\* evaluate_candidate up to the linter: the workspace is rebuilt whatever
\* the status of the proposal is.
BuildCandidate(p) ==
    /\ proposals[p] # None
    /\ evaluating[p] = "no"
    /\ releasing = None
    /\ workspace' = [workspace EXCEPT ![p] = Candidate(p)]
    /\ At(p, "static")
    /\ UNCHANGED <<proposals, versions, releases, pointer, releasing, restarts, proven>>

\* The linter and the tests give their verdict; a subprocess that times out
\* raises and leaves the status as it was.
StaticValidate(p) ==
    /\ evaluating[p] = "static"
    /\ \/ \E ok \in BOOLEAN :
            /\ SetStatus(p, IF ok THEN "STATIC_VALIDATED" ELSE "REJECTED")
            /\ At(p, IF ok THEN "golden" ELSE "no")
       \/ At(p, "no") /\ UNCHANGED proposals
    /\ UNCHANGED <<versions, workspace, releases, pointer, releasing, restarts, proven>>

\* The golden cases and the replay.
ReplayValidate(p) ==
    /\ evaluating[p] = "golden"
    /\ proposals[p].status = "STATIC_VALIDATED"
    /\ LET ok == GoldenPasses(workspace[p]) /\ ReplayPasses(workspace[p]) IN
       /\ SetStatus(p, IF ok THEN "REPLAY_VALIDATED" ELSE "REJECTED")
       /\ At(p, IF ok THEN "paper" ELSE "no")
    /\ UNCHANGED <<versions, workspace, releases, pointer, releasing, restarts, proven>>

PaperValidate(p, e) ==
    /\ evaluating[p] = "paper"
    /\ proposals[p].status = "REPLAY_VALIDATED"
    /\ SetStatus(p, IF PaperPasses(e) THEN "PAPER_VALIDATED" ELSE "REJECTED")
    /\ At(p, "no")
    /\ proven' = IF PaperPasses(e) THEN proven \cup {workspace[p]} ELSE proven
    /\ UNCHANGED <<versions, workspace, releases, pointer, releasing, restarts>>

-----------------------------------------------------------------------------
(* PublishVersion and rollback. *)

\* Mutant: the paper stage may be skipped.
Promotable_Validated(status) == status \in {"REPLAY_VALIDATED", "PAPER_VALIDATED"}

Promotable(status) == status = "PAPER_VALIDATED"

\* promote without an approval: APPROVED, from where nothing leads on.
PromoteUnapproved(p) ==
    /\ proposals[p] # None /\ Promotable(proposals[p].status)
    /\ evaluating[p] = "no" /\ releasing = None
    /\ SetStatus(p, "APPROVED")
    /\ UNCHANGED <<versions, workspace, evaluating, releases, pointer, releasing, restarts, proven>>

Known(version) == IF version = None THEN BaseVersion ELSE version

\* promote with an approval, and the old directory of the version removed.
PublishVersion(p) ==
    /\ proposals[p] # None /\ Promotable(proposals[p].status)
    /\ releasing = None
    /\ SetStatus(p, "ACTIVE")
    /\ versions' = [active |-> BaseVersion + 1, previous |-> Known(versions.active)]
    /\ releases' = [releases EXCEPT ![BaseVersion + 1] = None]
    /\ releasing' = p
    /\ UNCHANGED <<workspace, evaluating, pointer, restarts, proven>>

\* SkillReleaseRegistry.promote: the copy, then the pointer.
CopyRelease ==
    /\ releasing # None
    /\ releases[BaseVersion + 1] = None
    /\ releases' = [releases EXCEPT ![BaseVersion + 1] = workspace[releasing]]
    /\ UNCHANGED <<proposals, versions, workspace, evaluating, pointer, releasing, restarts, proven>>

MovePointer ==
    /\ releasing # None
    /\ releases[BaseVersion + 1] # None
    /\ pointer' = [active |-> BaseVersion + 1, previous |-> pointer.active]
    /\ releasing' = None
    /\ UNCHANGED <<proposals, versions, workspace, evaluating, releases, restarts, proven>>

\* SkillEvolutionService.rollback: the versions and the statuses in memory.
RollbackService ==
    /\ versions.previous # None
    /\ releasing = None
    /\ versions' = [versions EXCEPT !.active = versions.previous]
    /\ proposals' = [p \in Proposals |->
        IF proposals[p] # None /\ proposals[p].status = "ACTIVE"
        THEN [proposals[p] EXCEPT !.status = "ROLLED_BACK"] ELSE proposals[p]]
    /\ UNCHANGED <<workspace, evaluating, releases, pointer, releasing, restarts, proven>>

\* SkillReleaseRegistry.rollback: the two versions of the pointer change places.
RollbackPointer ==
    /\ pointer.previous # None
    /\ releasing = None
    /\ pointer' = [active |-> pointer.previous, previous |-> pointer.active]
    /\ UNCHANGED <<proposals, versions, workspace, evaluating, releases, releasing, restarts, proven>>

\* The process ends anywhere: the proposals are gone, the files stay.
Restart ==
    /\ restarts < MaxRestarts
    /\ restarts' = restarts + 1
    /\ proposals' = [p \in Proposals |-> None]
    /\ versions' = NoPointer
    /\ evaluating' = [p \in Proposals |-> "no"]
    /\ releasing' = None
    /\ UNCHANGED <<workspace, releases, pointer, proven>>

EvolutionNext ==
    \/ \E p \in Proposals :
        \/ \E patch \in Patches : Propose(p, patch)
        \/ BuildCandidate(p) \/ StaticValidate(p) \/ ReplayValidate(p)
        \/ \E e \in PaperEvidence : PaperValidate(p, e)
        \/ PromoteUnapproved(p) \/ PublishVersion(p)
    \/ CopyRelease \/ MovePointer \/ RollbackService \/ RollbackPointer \/ Restart

EvolutionSpec == EvolutionInit /\ [][EvolutionNext]_evolutionVars

-----------------------------------------------------------------------------

\* What the pointer on disk names, in whatever order proposals were
\* evaluated, released over each other, rolled back or lost in a restart,
\* is a contract that passed every gate; only an interrupted release may
\* leave the version without files (SkillReleaseRegistry.promote).
ReleasedIsValidated ==
    pointer.active # None => releases[pointer.active] \in proven \cup {None}
=============================================================================
