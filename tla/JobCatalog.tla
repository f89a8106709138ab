------------------------------ MODULE JobCatalog ------------------------------
(***************************************************************************)
(* The classification of a queue message, as src/selfhost/queue-common.ts, *)
(* queue-fairness.ts, maintenance-admission.ts and                         *)
(* src/github/webhook-coalesce.ts compute it from the payload: its         *)
(* priority, the key it coalesces on, its fairness lane, the GitHub budget *)
(* it draws on and the installation it is counted against.                 *)
(*                                                                         *)
(* A message is a record of the payload fields those functions read:       *)
(*   type     the payload's type                                           *)
(*   repo     the repository, 0 when the payload names none                *)
(*   pr       the pull request, 0 when the payload names none              *)
(*   family   what a github-webhook announces: "ci" (a completed check),   *)
(*            "push", "refresh" (opened, reopened, ready), "edited",       *)
(*            "label", "comment", "thread" (of a review), "botedit" (an    *)
(*            edit of a bot's comment), "other"                            *)
(*   origin   who made the delivery id: "event", "backlog" (the            *)
(*            convergence sweep), "sweep" (the re-gate sweep), "manual"    *)
(*   inst     the GitHub App installation, "none" when unknown             *)
(*   paths    the path scope of a rag-index-repo job, {} for a full index  *)
(*   scope    every other part of a coalescing key (head SHA, segment,     *)
(*            cursor, run id ...), "none" when absent                      *)
(***************************************************************************)
EXTENDS Naturals, FiniteSets

CONSTANTS
  Installations, \* the GitHub App installations
  Paths,         \* the paths an incremental index may name
  Scopes,        \* the values of every other part of a key
  MergeMaxPaths  \* RAG_INDEX_MERGE_MAX_PATHS: the most paths one merged index may carry

ASSUME CatalogAssumption == MergeMaxPaths \in Nat /\ "none" \notin Installations \cup Scopes

\* A key is a tuple that starts with the job type; "no key" is the empty tuple.
NoKey == << >>

-----------------------------------------------------------------------------
(* Priority and lane.                                                      *)

FOREGROUND_QUEUE_PRIORITY_FLOOR == 8

\* githubWebhookPriority: an edit of a bot's own comment is background noise.
githubWebhookPriority(m) == IF m.family = "botedit" THEN 0 ELSE 10

\* agentRegatePriority: a maintainer's manual re-gate overtakes everything.
agentRegatePriority(m) == IF m.origin = "manual" THEN 99 ELSE 9

jobPriority(m) ==
  CASE m.type = "github-webhook"     -> githubWebhookPriority(m)
    [] m.type = "agent-regate-pr"    -> agentRegatePriority(m)
    [] m.type = "recapture-preview"  -> 9
    [] m.type = "agent-regate-sweep" -> 8
    [] OTHER                         -> 0

isForegroundJobPriority(p) == p >= FOREGROUND_QUEUE_PRIORITY_FLOOR

\* foregroundLaneForJob: a fresh pull-request event, a backlog-convergence re-gate, or neither.
\* FRESH_PULL_REQUEST_ACTIONS are the pushes and the opened / reopened / ready actions.
foregroundLaneForJob(m) ==
  IF m.type = "github-webhook" /\ m.family \in {"push", "refresh"} THEN "fresh"
  ELSE IF m.type = "agent-regate-pr" /\ m.origin = "backlog" THEN "backlog"
  ELSE "none"

\* MAINTENANCE_JOB_TYPES.
MaintenanceJobTypes ==
  {"backfill-registered-repos", "refresh-registry", "sync-brokered-installed-repos",
   "refresh-installation-health", "refresh-scoring-model", "refresh-upstream-drift",
   "file-upstream-drift-issues", "build-contributor-evidence",
   "build-contributor-decision-packs", "refresh-contributor-activity",
   "build-burden-forecasts", "repair-data-fidelity", "rollup-product-usage",
   "prune-retention", "generate-weekly-value-report", "generate-review-recap",
   "generate-maintainer-recap", "generate-signal-snapshots", "notify-evaluate",
   "notify-deliver", "ops-alerts", "sweep-liveness-watchdog", "loop-escalation-sweep",
   "reconcile-open-prs", "selftune", "rag-index-repo", "backlog-convergence-sweep"}

isMaintenanceJobType(t) == t \in MaintenanceJobTypes

-----------------------------------------------------------------------------
(* The GitHub budget a job draws on.                                       *)

\* GITHUB_BUDGET_BACKGROUND_TYPES.
GithubBudgetBackgroundTypes ==
  {"agent-regate-sweep", "backfill-registered-repos", "backfill-repo-segment",
   "backfill-pr-details", "refresh-upstream-drift", "file-upstream-drift-issues",
   "build-contributor-evidence", "build-contributor-decision-packs",
   "refresh-contributor-activity", "build-burden-forecasts", "rag-index-repo",
   "reconcile-open-prs", "backlog-convergence-sweep", "selftune",
   "refresh-installation-health", "generate-review-recap",
   "sync-brokered-installed-repos", "reconcile-active-review-tracking"}

isGitHubBudgetBackgroundJob(m) ==
  IF m.type = "agent-regate-pr" THEN m.origin # "manual"
  ELSE m.type \in GithubBudgetBackgroundTypes

\* githubRateLimitAdmissionKeyForJob: the installation, "none" when the payload carries none.
githubRateLimitAdmissionKeyForJob(m) == m.inst

\* installationConcurrencyKeyForJob: "none" exempts the job from the per-installation limit.
installationConcurrencyKeyForJob(m) ==
  IF m.type # "agent-regate-pr" /\ isGitHubBudgetBackgroundJob(m)
  THEN githubRateLimitAdmissionKeyForJob(m) ELSE "none"

NoTarget == [kind |-> "none", key |-> "none"]

\* githubRateLimitAdmissionTargetForJob: which budget reading admits the job, under which floor.
\* Only the sweep's own re-gates and the budgeted background types answer to the maintenance floor.
githubRateLimitAdmissionTargetForJob(m) ==
  LET keyed == IF m.inst = "none" THEN "public" ELSE m.inst IN
  IF m.type = "github-webhook" THEN [kind |-> "webhook", key |-> m.inst]
  ELSE IF ~isGitHubBudgetBackgroundJob(m) THEN NoTarget
  ELSE IF m.type = "agent-regate-pr" /\ m.origin # "sweep" THEN [kind |-> "webhook", key |-> keyed]
  ELSE [kind |-> "background", key |-> keyed]

\* matchesGitHubRateLimitAdmissionTarget: an unkeyed candidate parks with any exhaustion.
matchesGitHubRateLimitAdmissionTarget(candidate, blocked) ==
  candidate # NoTarget /\ (candidate.key = blocked.key \/ candidate.key = "none")

-----------------------------------------------------------------------------
(* Coalescing keys.                                                        *)

\* planGithubWebhookCoalesce: a push is keyed on the PR alone, CI and lifecycle events on the head.
githubWebhookCoalesceKey(m) ==
  IF m.repo = 0 THEN NoKey
  ELSE IF m.family = "ci"
       THEN IF m.scope = "none" THEN NoKey ELSE <<"ci-completed", m.repo, m.pr, m.scope>>
  ELSE IF m.pr = 0 THEN NoKey
  ELSE CASE m.family = "push"                  -> <<"pr-push", m.repo, m.pr>>
         [] m.family \in {"refresh", "edited"} -> <<"pr-refresh", m.repo, m.pr, m.scope>>
         [] m.family = "label"                 -> <<"pr-label", m.repo, m.pr>>
         [] m.family \in {"comment", "thread"} -> <<m.family, m.repo, m.pr, m.scope>>
         [] OTHER                              -> NoKey

\* The types whose key is the type itself, and those keyed on one invocation's id.
SingletonTypes ==
  {"refresh-registry", "sync-brokered-installed-repos", "refresh-installation-health",
   "refresh-scoring-model", "refresh-upstream-drift", "file-upstream-drift-issues",
   "repair-data-fidelity", "ops-alerts", "loop-escalation-sweep", "selftune",
   "retry-orb-relay", "reconcile-open-prs"}
InvocationTypes == {"run-agent", "notify-deliver", "notify-evaluate", "submit-draft"}
ScopedTypes ==
  {"backfill-registered-repos", "backfill-repo-segment", "backfill-pr-details",
   "generate-signal-snapshots", "build-burden-forecasts", "generate-review-recap",
   "build-contributor-evidence", "build-contributor-decision-packs",
   "refresh-contributor-activity", "rollup-product-usage", "prune-retention",
   "generate-weekly-value-report"}

\* The messages there are.  "none" stands for a row that does not exist.
JobTypes == {"github-webhook", "agent-regate-pr", "recapture-preview", "agent-regate-sweep", "none"}
            \cup MaintenanceJobTypes \cup GithubBudgetBackgroundTypes
            \cup SingletonTypes \cup InvocationTypes \cup ScopedTypes
Msg == [type   : JobTypes, repo : Nat, pr : Nat,
        family : {"ci", "push", "refresh", "edited", "label", "comment", "thread", "botedit",
                  "other", "none"},
        origin : {"event", "backlog", "sweep", "manual", "none"},
        inst   : Installations \cup {"none"},
        paths  : SUBSET Paths,
        scope  : Scopes \cup {"none"}]

jobCoalesceKey(m) ==
  CASE m.type = "github-webhook"    -> githubWebhookCoalesceKey(m)
    [] m.type = "agent-regate-pr"
         -> IF m.repo # 0 /\ m.pr # 0 THEN <<m.type, m.repo, m.pr>> ELSE NoKey
    [] m.type \in {"agent-regate-sweep", "backlog-convergence-sweep"} -> <<m.type, m.repo>>
    [] m.type = "recapture-preview"
         -> IF m.repo # 0 /\ m.pr # 0 /\ m.scope # "none"
            THEN <<m.type, m.repo, m.pr, m.scope>> ELSE NoKey
    [] m.type = "rag-index-repo"    -> <<m.type, m.repo, m.paths>>
    [] m.type \in SingletonTypes    -> <<m.type>>
    [] m.type \in ScopedTypes       -> <<m.type, m.repo, m.scope>>
    [] m.type \in InvocationTypes   -> IF m.scope = "none" THEN NoKey ELSE <<m.type, m.scope>>
    [] OTHER                        -> NoKey

IsRagIndex(m) == m.type = "rag-index-repo" /\ m.repo # 0

\* jobCoalesceAbsorbedByKey: an incremental index is covered by a pending full one.
AbsorbedBy(m, full) == IsRagIndex(m) /\ m.paths # {}
                       /\ IsRagIndex(full) /\ full.repo = m.repo /\ full.paths = {}

\* jobCoalesceMergeKeyPrefix and jobCoalesceMergedPayload: two incremental indexes of one
\* repository become one, unless their union is too long.
MergesWith(m, other) == IsRagIndex(m) /\ m.paths # {}
                        /\ IsRagIndex(other) /\ other.repo = m.repo /\ other.paths # {}
MergedPayload(old, m) == [m EXCEPT !.paths = old.paths \cup m.paths]
MergeFits(old, m) == Cardinality(old.paths \cup m.paths) <= MergeMaxPaths

\* jobCoalesceSupersededKeyPrefix: a full index stands for every pending index of its repository.
Supersedes(m, other) == IsRagIndex(m) /\ m.paths = {} /\ IsRagIndex(other) /\ other.repo = m.repo
=============================================================================
