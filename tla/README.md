# A formal model of the Lattix Go SDK repository

The repository holds three programs of its own beside the Go SDK's data types:

* the **CI feedback engine** (`ci_feedback/`, `.github/workflows/ci-feedback.yml`),
  which turns completed GitHub workflow runs into Linear defects and back;
* the **SDK's native layer** (`client.go`, `binding_*.go`), a stateless Go client
  over a handle of a Rust library;
* the **security gate** (`scripts/`, `.github/actions/ci-security-gate`), the
  threat-model lifecycle and the release of the public mirror.

The feedback engine is the part where concurrency, failure and ordering decide
whether the program is right; its model is the largest. Every other part that keeps
state or makes decisions over several steps has a module of its own. This file is the
inventory, the plan, and the guide to what is on disk.

## 1. Inventory

### CI feedback engine: `ci_feedback/service.py`, `model.py`

*State.* None of its own between runs. Its memory is the *managed record*
(`DefectMetadata`: fingerprint, workflow, branch, pull request, originating issue,
recurrence count, remediation depth, status, the last `history_limit` observations,
the last `history_limit` recovery keys), serialised in the description of one Linear
issue per defect. During a run: the listing of the project, the index by
fingerprint, the events left, the issues resolved, the origins to resume.

*Operations.* `process_workflow_run`, which is `_process_failures` (list, index, list
jobs, then per failed job skip, create or update), `_process_recovery` (list, resolve
what matches, resume the originating issues) or "ignored"; and
`check_pull_request_path_policy`, which reads only.

*Interactions.* GitHub starts it with an event (`ci-feedback.yml`); it reads GitHub
(jobs) and reads and writes Linear (issues, comments). Each call can fail. People and
agents move and copy the same issues.

*What is hard.* Each run works on a listing that ages while it works, and overwrites
whole descriptions. It can die between any two calls (API error, lost response, the
job's ten minutes, cancellation) and be re-run later with the same event. GitHub's
concurrency group serialises runs but forgets all waiting runs but one, so deliveries
are lost and come back late and out of order. The memory of what was counted is
bounded.

*What makes it correct.* One issue per fingerprint; no lost update; a failure is
counted once; what a run passed over is recorded; a defect is resolved only by a
success that concerns it, and resolved by it; escalation to people is not undone; an
originating issue is resumed only when nothing blocks it; every delivery ends.

### Feedback workflow and action: `ci-feedback.yml`, `linear-ci-feedback/action.yml`

The trigger (`workflow_run: completed`), the concurrency group of one runner and one
waiting run with `cancel-in-progress: false`, and the installation and bootstrap steps
before the engine. Correct when no two runs overlap and none waits for ever.

### Linear client (`linear.py`), GitHub client (`github.py`)

*State.* None between calls; during one, the cursor or page, the attempt and the nodes
gathered. *Operations.* Paged reads; Linear's are repeated up to three times after any
failed request, GitHub's never; mutations, sent once. *Hard.* A mutation whose response is
lost, a listing that changes while it is read, page limits, exactly full pages. *Correct*
when a mutation is never applied twice and a listing is complete or an error.

### Classification (`policy.py`), configuration and bootstrap (`config.py`, `bootstrap.py`, `cli.py`)

Classification is pure text: normalisation and hashing into a fingerprint, keyword
classes, the depth and the originating issue read from a pull request; correct when the
fingerprint ignores exactly what varies between runs. Configuration checks the policy's
numbers against each other. Bootstrap resolves a project slug and a team key to Linear
ids by two queries and writes a file, which two later processes load and validate by
queries of their own, while people rename, reassign and remove what the file names.
Correct when a job that starts to write does so where it was asked to.

### Go client and native bindings: `client.go`, `types.go`, `binding_*.go`

*State.* One opaque handle per client; on Windows the library and its procedures,
resolved once per process; in the library a message per OS thread. *Operations.* `Open`, one `Call` per API operation, `Close`,
retrieval of the last error. *Hard.* `Close` against a concurrent `Call`, `Close`
twice, an error that is fetched by a second native call from another thread, a library
that failed to load once. *Correct* when no call reaches a freed handle, a handle is
freed once, and an error belongs to the call that failed.

### Integration scenario runner: `integration_full_runner.go`

A sequence of SDK calls on a client of its own or a given one. A plan decides whether
the envelope's keys come from the caller or from the service; the library may still
demand a managed key, which the runner knows by the text of the error, and then it falls
back. Correct when an envelope is opened with the kind of key it was protected with, a
demand is heard, and a client it made is freed on every path.

### Security suite and gate: `scripts/run_security_suite.py`, `normalize_findings.py`, `gate.py`, `to_sarif.py`, `ci-security-gate/action.yml`, `security.yml`

Files on disk between phases; steps that continue on error and a last step that sums
them up. Correct when the gate cannot pass without the evidence it stands for.

### Threat-model lifecycle: `scripts/threat_model_lifecycle.py`

Prepare, update and validate a register of threats over repeated scans. The ids of
findings are the parsers' making, many from a position in the output; a finding overwrites
the threat of its id; people judge threats and commit artifacts of earlier runs. Correct
when what people decided is not read as a decision about something else, what was found is
described, and what was known is not forgotten.

### Release and mirror: `release.yml`

Three jobs, and in the last a clone, a push of main, a forced push of the tag and a
release, in separate steps that can fail after their effect; runs overlap and are re-run.
Correct when the mirror's history only grows, its tags lie on it, a public release stands
for the tag it names, and a failure between two steps can be repaired by running again.

### CI workflow: `ci.yml`

Builds and tests on each push and keeps nothing between runs; not modelled.

### Developer tooling

`install-native.*`, `precommit.*`, `install-hooks.*`, `Makefile`, Symphony scripts:
sequential scripts without shared state, not modelled.

## 2. Plan

| # | module | models | main question |
|---|---|---|---|
| 1 | `Defect` | managed record, pure policy | record operations |
| 2 | `CiFeedback` | engine, group, GitHub, Linear, people | safety and liveness of reconciliation |
| 3 | `DefectLedger`, `CiFeedbackLedger` | what a reader of the defects is promised | refinement |
| 4 | `CiFeedbackProofs`, `CiFeedbackLedgerProofs` | inductive invariants | the engine's invariants and the refinement, in general |
| 5 | `ApiClient` | retries, paging, lost responses of `linear.py` and `github.py` | a mutation is applied at most once, a listing is complete |
| 6 | `Routing`, `LinearSession` | bootstrap, configuration, validation; a job's calls in a row | a job writes where it was asked to |
| 7 | `ApiClientProofs` | calls, jobs, routing | the same, in general |
| 8 | `SecurityGate`, `SecurityGateProofs` | suite phases, gate, enforcement step | no pass without evidence |
| 9 | `NativeBinding`, `NativeBindingProofs` | library loading, handle, error message of the Go client | handles are safe without races |
| 10 | `IntegrationRunner`, `IntegrationRunnerProofs` | the scenario and its key source | one kind of key per envelope |
| 11 | `ReleaseMirror`, `ReleaseMirrorProofs` | publication steps, overlapping runs and re-runs | main, tag and release agree |
| 12 | `ThreatRegister`, `ThreatRegisterProofs` | the threat model over repeated scans | decisions and findings survive |

All of it is done. A module on the fingerprints of `policy.py` was considered and dropped:
it is string processing without steps, and the model would repeat the regular expressions.

*Composition.* `CiFeedback` extends `Defect`; `CiFeedbackLedger` instantiates `DefectLedger`.
`LinearSession` extends `ApiClient` and `Routing`: the label listing that ends a validation
is a call of the client, and a job that has been validated twice makes calls of any kind.
`ApiClient` is the detail of one step of `CiFeedback`: a read that completes, or a mutation
applied at most once. The two are joined by what `LinearSession` shows of every call of a
job, not by an INSTANCE: the step of the engine is atomic, and section 4 says why it may
be. `IntegrationRunner` extends `NativeBinding` and conjoins the runner's control with its
actions; that it takes no step of its own there is the theorem `ScenarioUsesBinding`.
`ThreatRegister` is what the steps `prepare`, `normalize` and `threat_model_update` of `SecurityGate` do to
data that outlives the job.

## 3. The feedback engine: how the model corresponds to the code

`Defect` holds the record and pure functions on it: `FromEvent`, `RecordFailure`,
`RecordRecovery`, `ContainsObservation` are the methods of `DefectMetadata`;
`DesiredLabels`, `StateFor`, `NeedsHuman`, `MatchesRecovery` are the helpers at the end
of `service.py`. `Retain` is the slice `[-history_limit:]`. Times, URLs, names and commit
ids are left out because no decision reads them. The assumptions on the policy constants
are what `load_config` enforces.

`CiFeedback` is the system around it.

| variables | stand for |
|---|---|
| `runs` | GitHub's completed attempts of every workflow run, each with a conclusion and its failed jobs |
| `waiting`, `ended` | the delivery that holds the concurrency group's waiting place; those whose feedback run is over |
| `defects` | the project's managed issues in Linear: record, state, labels, comments written |
| `origin` | the state of the issues pull requests work on |
| `pc`, `delivery`, `known`, `events`, `left`, `subject` | a feedback run: where it is, its event, `indexed` (or `issues`), the events it built, the loop's rest, the issue it writes |
| `matches`, `resolved`, `origins`, `target` | the recovery loop's rest, `resolved_issue_ids`, `origins`, the origin it resumes |
| `completions`, `faults`, `replays`, `copies` | how much of each bound has been used |

A step of the engine is what happens up to and including one call that reads or writes
shared state. `CreateDefect` is `_create_defect` up to `create_issue`; the comment that
follows is `AnnounceDefect`. `UpdateDefect`/`NoteRecurrence` are `update_issue` and
`create_comment` of `_update_defect`; `UpdateRaises` and `ResolveRaises` are the same
methods when `replace_managed_description` raises: it hands the rendered record to `re.sub`
as a replacement *template*, and a job whose name has a stray backslash (`Unrenderable`)
cannot be rendered into an existing description, although it can into a new one; `ListForRecovery` takes the listing and, since the
loop decides on the listing alone, everything the loop will do; `ResolveDefect`,
`NoteRecovery` are its writes; `LeaveOrigin`, `FetchOrigin`, `ResumeOrigin`,
`NoteResume` are `_resume_originating_issue`. `Die` may follow any step: it is an
exception, the ten-minute limit or a cancellation. A mutation Linear applied although its
response was lost is the mutation's step followed by `Die`.

Around the engine: `CompleteAttempt` is GitHub (a run completes one more attempt and a
delivery enters the group, cancelling the waiting one), `Replay` a person who re-runs a
feedback run that is over, `MoveOrigin` people and agents who move an originating issue,
`CopyDefect` an operator who duplicates an issue, record included (`IndexedOnce` is what `_index_defects` must then refuse).
`ReplayedOrigins` are the issues whose defects this very run resolved before: a re-run
takes their resumption up again.

Decisions worth knowing when reading the model against the code:

* A delivery carries the run and the attempt; the *conclusion* comes from the event, the
  *jobs* from GitHub when they are asked for. GitHub lists the jobs of the latest attempt
  (`filter=latest` is the API's default and `github.py` passes none).
* A run's context (branch, pull request, originating issue, depth) is fixed. The code reads
  the pull request when it processes the delivery, so an edited title or a new base branch
  would show; that is listed as a hazard.
* An attempt in progress is not a state of its own: a job listing sees completed attempts.
* The observation key has run, attempt and job id; a job id is unique per attempt. The
  fallback without jobs uses job id 0 and the run's id, once per run (attempt 0 in the
  model). The recovery key has the run but not the attempt.
* The engine never reads the Linear state or labels of a defect, only its record. People
  who move defects are therefore not modelled; what the engine writes is.
* A listing is one atomic read and a mutation has at most one effect; section 4 is about
  that.

`DefectLedger` is what a reader of the project may rely on: per fingerprint a status, a
count and the remembered keys, changed by `Report` and `Recover` only. It promises
`Remembers` (count and keys agree as far as the window reaches) and `CountsUp` (a count
goes up by one remembered failure at a time and is never taken back). `CiFeedbackLedger`
maps the issues to it, reading a fingerprint's line off the oldest issue that carries it: a
crash, a re-run, a cancelled delivery, a comment or an operator's copy must be invisible
there.

Some definitions stand unused before a similar one (`GroupIgnored` before `GroupFree`).
Each is a plausible bug in that definition; putting it in place of the original must
break the property PROJECT.json pairs it with. They show that a property says something
about the code.

## 4. The clients and the routing of a job

`ApiClient` is one call of `LinearClient` or `GitHubClient`: `list_project_issues`
(`ReadIssues`, a page at a time), `resolve_label_ids` (`ReadLabels`), `_list_paginated` of
GitHub (`ReadJobs`), or any of the three mutations (`Mutate`). `RequestFails` is the retry
loop of `_http_transport`: the connection fails, times out or answers with something that
is not JSON, before or after the server acted, and the request is sent again if it is
retryable and attempts are left. `ResponseRejected` is `_graphql` and its callers raising
at once on GraphQL errors, payloads of the wrong form or an unconfirmed mutation, and
GitHub's client raising on anything. `Change` is other people adding and removing nodes
between two pages. Cursors follow the last node of a page; new nodes appear at the end, as
they do with an order by creation. GitHub's pages are counted, and its jobs are those of a
completed attempt, which no longer change; the files of a pull request may, and are read
only by the path policy.

`Routing` is how a job finds out where to write. `FindProject` and `FindTeam` are the two
queries of `resolve_config`, `Resolved` the configuration it writes (`NameFor` maps the
depth limit to In Review, as there is no Escalated state); `Load` is `load_config` with the
checks that relate fields (`Accepts`), run by the second and by the third process;
`Validate` is `validate_prerequisites` up to its label listing, which decides between
`LabelsResolved` and `LabelsUnresolved`; `RequestRaises` a query that fails. A job may start
from a checked-in file instead, which somebody may have written wrong. `Drift` is people:
they rename a team or a project, reassign a project, remove or rename a workflow state
between any two queries. Keys of teams and ids of states stay unique, as Linear keeps them.
Endpoint, paths and conclusions are left out.

`LinearSession` puts the two together: the validations' label listings and the calls a ready
job makes are calls of the client, each beginning with nothing left of the one before.

What the two properties on listings say is what `CiFeedback` needs for its atomic
`Listing`: the nodes that were there throughout, none twice, none that never was, and,
as long as nobody takes a node away, exactly what is there when the last page is read
(`ever = nodes => got = nodes`): the pages are then one atomic read at that point. The
engine's own defects are created and rewritten by feedback runs only, and the concurrency
group runs one at a time; an operator's copy made during a listing may be in it or not,
which are the orders before and after the atomic read. `AppliedOnce` is why a mutation of
the engine is one step, or that step followed by `Die`, or `Die` alone.

## 5. The security gate: one job

`SecurityGate` is one job of the composite action, step by step: `at` is the step, `outcome`
what GitHub calls `steps.<id>.outcome`. `End` is a step that finishes: a failure of a step
without `continue-on-error` sets `broken`, after which only `always()` steps run (`Due`);
`Skip` is a step whose condition is false, `Cancel` a job cancelled, or out of its thirty
minutes, during a step. `Enforce` is the last step, which fails the job if any of the eight
outcomes is a failure; `Conclusion` is what the job's caller sees.

The suite (`run_security_suite.py`) runs once per phase and directory. `Suite` is one
invocation: `Selected` is `select_reason`, `Status` and `Records` its loop, `Merged` how
`suite_meta.json` is combined with that of earlier phases, `SuiteFails` its exit code under
`--require` and `--fail-on-error`. The source scan step is two invocations under `bash -e`:
`ShiftLeft` ends the step if it fails and goes on to `Sbom` otherwise. What a scanner does is
`Results`: exit zero, another code or an exception; whether it did scan, which nobody sees
(`worked`); and whether its file holds anything for the parsers. `Normalize` takes
everything readable on disk: a missing, empty or malformed file means no finding there, so
evidence has to come from the records. `UpdateModel` and `SeverityGate` run only after a
successful normalisation, whatever else failed.

Simplifications: a scanner finds one thing or nothing, of one severity; two findings that
share an id, which the model update keeps once, are therefore not seen. A cancelled step leaves the data as it was: a cancelled job
cannot pass, so what it leaves is never concluded on. Docker is there or not, for the whole job. The
five inputs that decide about steps are free; the others (URLs, images, paths) are data.

## 6. The Go client, the scenario, the mirror, the threat model

### `NativeBinding`: `client.go`, `binding_*.go`

`build` is which binding was compiled in: two that refuse every client, cgo, and Windows,
where `LoadLibrary` is `sync.Once` around the search of the candidate paths and the load
(one step, since every other caller waits for it); `SearchFailed` is the error that is kept for the
life of the process. `handle` is the Go field, `native` the memory behind it, `from` the
library a client was made by. An operation of a goroutine goes through labels: a call is
`Check` (the nil test), `Enter` (the handle is read again and passed on), then `Succeed` or
`Fail`, and after a failure `Message`, the second native call that fetches the text. `Close`
is `CloseCheck`, `Free`, `Forget`. Nothing is locked in the code, so any two goroutines
interleave there.

The library keeps its message per OS thread (`slot`). A goroutine runs each native call on
any free thread unless its caller holds `runtime.LockOSThread` (`locked`, then on
`Home[g]`). `misused` and `raced` are history: clients whose handle reached the library after
it was freed or forgotten, or was freed in use, and clients that were being closed while
somebody else used them. The binding does not prevent the race; what it does guarantee is
that without one nothing is misused.

### `IntegrationRunner`: `integration_full_runner.go`

`Script` is the sequence of calls; neighbours that differ only in their requests are one
step, so eight steps stand for the whole. `RunScenario` makes a client, `RunWithClient` takes
one that others may go on using. `Invoke` begins a call, `Advance` takes its result (the plan
for the envelope sets `managed`, which is `useManagedEnvelopeKeys`), `FallBack` repeats
`protect_bytes_with_envelope` with managed keys from there on, `GiveUp` is every error
return, `CloseOwned`/`Closed` the deferred `Close`. `BindingStep` is the binding's work on the
runner's call and `Others` everybody else's. `protectedWith` and `demanded` are history.
That an error demands a managed key is the kind of its message, which arrives through the
per-thread slot: an unlocked runner may read another goroutine's.

### `ReleaseMirror`: `release.yml`

A run is at a step: `verify` (the native SDK has the tag), `publish`, and the five of the
mirroring job, `Clone` (with rsync and commit), `PushMain` (not forced), `PushMirrorTag`
(forced), `ViewRelease`, `PublishMirrored`. A source commit is its content and a commit of the
mirror the sequence of contents up to it, so a fast-forward is a prefix. Runs are triggered by
a pushed or moved tag (`PushTag`) or by hand on any ref with any tag as input (`Dispatch`).
`Lose` is a step that fails without effect, `LoseInstallers` and `LoseAnswer` after its effect;
`Rerun` repeats all jobs or the failed one, for the same event. There is no concurrency group, so
runs overlap. `overlapped` and `strayed` are history: runs whose mirror was changed by
another one while they worked on it, and tags that moved or were released from
another commit.

### `ThreatRegister`: `normalize_findings.py`, `threat_model_lifecycle.py`

A run is `Prepare` (copy the repository's model or make the baseline), `Normalize` (the
findings, with their ids) and `Update` (`threats_by_id`: each finding replaces the threat of its
id, status included). `Id` is how the parsers name a finding: by rule, by place in the output, or
both; places begin anew in every part (sites of ZAP, runs of a SARIF driver, tests of
kube-bench). Findings come sorted by severity, so of those with one id the mildest
remains (`Remaining`). `TakeOver` is a person who commits an artifact, perhaps an outdated one,
`Judge` one who sets a threat's status. A scanner may report anything or nothing, at any place.

## 7. Runs

The runs of the engine use two engines, so that the concurrency group has something to prevent, with
symmetry between them (not in `ci_window`, which has a liveness property).
`CHECK_DEADLOCK FALSE` everywhere: the environment's budgets are finite, and once they are
spent and the group is empty the system rests; a call, a job, a scenario or a release that
has ended does nothing more.

| run | instance | shows |
|---|---|---|
| `ci_batch` | two runs of one pull request; two jobs with one fingerprint, one that cannot be rendered; one death, one re-run, one copy by an operator | `TypeOK`; `UniqueDefect`: the engine opens no second issue, and each further one is a copy; `NoLostUpdate`: what is overwritten is what was listed, also when two jobs of one run update the same issue; `BatchRecorded`: what a run has passed over is in Linear; `CommentsFollowRecord`; `IndexedOnce`; `ResumesAfterCrash`: a re-run takes up the resumption that a dead run left |
| `ci_reruns` | four attempts of two runs of one pull request fail and succeed in any order; one death, one late re-run, one copy, a window of three | `RecoveryComplete`: after the loop nothing matching is open, unless it already carries this run's key or was copied since the listing; `CountedOnce`: until the window has overflowed, a failure counts once |
| `ci_mixed` | four runs: a pull request, a second workflow that gates it and its issue, a push to its branch, a pull request on the same base at the depth limit; any three attempts of them, one copy | `ResolvedJustified`; `ResumeUnblocked`; `HandoffSticky`: eligibility for agents and the Todo queue are not given back |
| `ci_window` | three runs overflow a history of two, a waiting delivery is cancelled, one death, one re-run, one copy; fair engines | `ExactCount`; `ImplementsLedger`, the refinement; `DeliveriesEnd`, the liveness property |
| `ci_fallback` | one run, two attempts, no fault | violation, see section 8 |
| `ci_escape` | two runs, two jobs, one of which cannot be rendered, no fault | violation, see section 8 |
| `api_calls` | a whole job: six workspaces, six checked-in files, one change between its queries; every call on up to five nodes, pages of two, at most two pages, two attempts, two changes by others | `TypeOK`; `ListingComplete`, `JobsComplete`, `ListedOnce`, `AppliedOnce`, `MissingMeansAbsent`, `RoutedAsAsked` |
| `gate_job` | all inputs, six scanners in four phases, two evidence files of which one is enough | `PassHasEvidence`; `NothingUnseen`; `WithinLimits`; `MetaRemembers` |
| `gate_crash` | the same | violation, see section 8 |
| `go_sdk` | the scenario and one other goroutine with three operations, two clients, two threads, every build, one change of the library file | `MisuseNeedsRace`, `OwnMessage`, `OneLibrary`, `KeysMatch`, `DemandHeard`, `ClientReleased` |
| `release` | two runs, two tags, two commits, three moves, two attempts each, any step failing before or after its effect | `TagsOnMain`, `NativeFirst`, `ConflictNeedsRace`, `TagIsSource`, `MainKeepsHistory` |
| `threat` | two runs, three edits by people; two ZAP alerts of one plugin on two sites, two lines of nikto, two places | `AcceptanceIsPersonal`, `EverythingDescribed`, `NothingForgotten` |

The type invariants of the gate, the binding, the mirror and the register are proved
instead of run (section 9).

*Bounds.* Two runs are the least that interleave; three are needed to overflow a window of
two. Two attempts give a failure before a success of the same run and the reverse. At most
one death and one re-run are enough for every property here, because each is about the
distance between one interrupted run and the next one that finds its traces. Two jobs are
enough for two events to hit one issue. The pull request of `ci_reruns` names no issue, and
`ci_mixed` has no death, which keeps them within a few million states: resumptions are in
`ci_batch` and `ci_mixed`, deaths in every other passing run of the engine, and what combines them all
is proved (section 9). A copy is made at any moment, so also between a listing and the
writes based on it. The engine's loops are unordered sets in the model,
so every job order is covered. Escalation limits are 2 and 3 occurrences so that the
longer runs cross both. For the clients, five nodes on pages of two and at most two pages reach
a short, an exactly full and an empty last page and the page limit; two attempts make one
retry, and the third the code allows adds nothing but another one; two changes put an
addition and a removal between any two pages. The six workspaces are one in order and one
for each way in which the queries can disagree with the inputs; one change is enough, as
each query compares with what the one before has read. For the gate, every phase has a scanner, the first has one that tolerates
a non-zero exit, one that does not and one whose context the action never gives; one high
finding is allowed, so that a limit is exceeded by two scanners of different phases only.
For the Go client, two goroutines are the least that race, and the other one's three
operations make, use and close a client, or fail twice into the runner's slot; one
candidate with one change covers a library that appears, is damaged or goes after the
search. For the mirror, two runs with two attempts let a half-done run be overtaken and
repeated; three moves push a tag, move the branch and move the tag. For the register, two
pairs, of one rule in two parts and of no rule at two places, are the two ways in
which ids collide or shift, and three edits judge, take over and take over an older one.

*Fairness.* `FairSpec` asks weak fairness of each engine's own steps: a runner that hosts
a feedback run keeps executing it and a free runner takes the waiting delivery. Nothing is
asked of GitHub, people or faults. The code has no wait besides the API calls, each with a
timeout that ends in an exception, so a step that can happen does or the run dies. No other
module has a liveness property: a call, a job or a scenario is a bounded sequence, and
nothing in the repository waits.

## 8. Where the code and its texts part

* `ci_fallback`. A failure of attempt 1 that is processed after attempt 2 has succeeded
  sees attempt 2's jobs: none failed. The engine then opens a "workflow completion" defect
  that says the run concluded "without an actionable job payload" (`service.py:372`), and
  the jobs that did fail are recorded nowhere. Deliveries are late whenever the group's
  waiting place was taken, so this takes no fault at all.
* `ci_escape`. `replace_managed_description` (`model.py:246`) passes the rendered record to
  `re.sub` as a template. A job name with a backslash that is no escape is rendered when
  its issue is created, which substitutes nothing, and raises `re.error` at every later
  update or recovery of it. The run dies, the rest of its batch is not recorded, and a re-run
  dies at the same place, although the action promises to convert a completed workflow.
* `gate_crash`. `--require` says "Fail unless these scanner ids run successfully"
  (`run_security_suite.py:184`), but a scanner with `allow_nonzero_exit` whose container
  fails to start, or that dies before it scans, is recorded as having run (`:162`): its
  empty or missing output is no finding, and the gate passes. What the job does guarantee
  is in `PassHasEvidence`, in terms of the record.

Three theorems draw the line of each: the first needs a run that completes more than once
(`FallbacksNeedReruns`), the second a name that cannot be rendered
(`BatchesNeedRenderableNames`), the third a scanner with `allow_nonzero_exit`
(`IntolerantScannersWorked`, `ToleranceIsTheGap`). Without those, what the texts say is true
of the model for every value of the constants.

More facts that the properties had to be worded around, or that no property of this code
can exclude. No text contradicts them, so they are no findings:

* The history forgets: a delivery re-run after its observation left the window of
  `history_limit` keys is counted again and reopens the defect (`model.py:175`).
  `CountedOnce` is exact until more failures were counted than the window holds, and it says
  that this takes as many real failures as the window holds; `ExactCount` is about what is
  retained.
* A recovery key has no attempt number: the success of a later attempt of the *same* run
  is a replay, so a defect that reopened between two successes of one run stays open
  (`RecoveryComplete` excepts it). Recoveries are not ordered by commit either, so a
  late success of an older run resolves a defect its code never saw.
* The pull request is fetched when the delivery is processed; one that was retargeted or
  renamed since is read as it is now.
* `list_project_issues` raises at its page limit, `resolve_label_ids` just leaves the loop: a
  label beyond 20 pages of 250 is then called missing (`MissingMeansAbsent` says so).
* The validation resolves the labels the file lists. Those a record asks for besides
  (`recurring`, `needs-triage`, category, severity; `service.py:459`) are resolved when an issue is
  written, and a missing one ends the run then; for `CiFeedback` it is a death.
* A required state that was renamed to another configured name passes the validation, as
  it is the id that is compared.
* The identifier pattern (`policy.py:20`) takes words such as UTF-8 in a title for issues.
* Nothing protects a handle from `Close` during a `Call`, and a goroutine that is not locked to
  its thread may report another one's message (`MisuseNeedsRace`, `OwnMessage` say
  under which condition that cannot happen).
* The mirror's tag is forced: a run dispatched on a branch for an existing tag moves the public
  tag to that branch's content (`TagIsSource` excepts `strayed` tags), and an older run that
  is re-run mirrors the older content over the newer, as a further commit.
* Threat ids by position name another finding when a line goes away; each re-report resets
  the status, so an acceptance is lost rather than transferred. Of two findings with one id the
  mildest remains (`EverythingDescribed` excepts the other). A severity that no limit names
  is not limited.

## 9. Proofs

All theorems hold for any sets of runs, jobs, engines, nodes, scanners, goroutines, clients,
tags or vulnerabilities, any policy, page size and limit, and any bounds, under the named
assumptions of the modules: `PolicyAssumption` (numbers are positive and ordered, which
`config.py` checks), `ContextAssumption` (contexts and signatures are typed, "no value" is distinct
from values), `BoundsAssumption`, `JobsAssumption` (a run has finitely many jobs), `ApiAssumption`, `RoutingAssumption` (keys of
teams and ids of states are unique), `GateAssumption`, `BindingAssumption` (locked goroutines have
threads of their own), `RunnerAssumption`, `ReleaseAssumption`, `RegisterAssumption` (rows of
one part have different places). TLC evaluates each of them in the runs.

### The engine: `CiFeedbackProofs`, `CiFeedbackLedgerProofs`

`CiFeedbackProofs`: `TypeCorrect`, `DefectsAreUnique`, `UpdatesAreNotLost`. None of the three is
inductive. A second issue is prevented by a chain: the group lets one run be active
(`Serial`); therefore what an active failure run has in its index is what Linear holds, and
each issue in Linear is in the index or, when it was copied after the listing, an older one
of its fingerprint is (`IndexFresh`, `Represents`); therefore a fingerprint missing from the
index is missing from Linear, and an issue created for it adds a fingerprint to `Carried`,
which keeps `UniqueDefect`. `MatchesFresh` is the same for the recovery
loop, `Aimed` says that the issue about to be commented on exists, and `Delivered` that every
delivery names an attempt GitHub completed, which types the events built from its jobs.
`IInv` is their conjunction. The proof has one lemma per action; steps that only read share
`LocalStep`, steps that rewrite one issue share `WriteStep`, and steps that end a run share
`LeaveStep`.

`CiFeedbackLedgerProofs` has three layers.

1. *What a step may do to the defects.* Every step leaves every issue's record, state and
   labels (`SameIssues`), or reports a failure to one (`Reported`), recovers one
   (`Recovered`), opens one (`Opened`) or copies one (`Copied`), and keeps the others. GitHub's
   runs only grow.
2. *What holds between defects and runs.* `LInv` adds to `IInv`, per engine, that a recovery
   run has a success to its name (`Rightful`) and the `Promises`: what a batch has
   passed over is recorded (`BatchKept`), the index has one issue per fingerprint, what matches
   and is open is still to be resolved (`Closing`), what this run resolved is among the
   origins (`TakenUp`), the listing is still current for them (`Viewed`), and an
   origin about to be resumed is blocked by nothing (`Unblocked`). Per issue (`Booked`) it
   adds that count and history agree (`Counted`), that a resolution has a success behind it
   (`Justified`), and that labels and state are those the record asks for.
3. *What follows from them.* `CountsAreExact`, `BatchesAreRecorded`, `IndexesAreUnambiguous`,
   `ResolutionsAreJustified`, `RecoveriesAreComplete`, `OriginsAreUnblocked`, `CrashesAreRepaired`
   directly. `CommentsKeepUp` needs one more invariant (`AllBalanced`): a comment that
   is due counts as written while its run is at it. `HandoffsAreFinal` needs that count and
   depth never fall (`NeedsGrow`).

*Refinement.* `EngineImplementsLedger` is `Spec => ImplementsLedger`, without a condition. The
library's induction theorems are out of reach, so `LeastExists` finds the oldest issue of a
fingerprint as a minimal element of the order on the naturals. A copy is younger than what
it copies, so it never takes the oldest one's place, and a write to a copy (a recovery
resolves whatever matches) does not show (`LineStays`, `OneRewritten`). On the oldest issue
a report appends one key to a line and at a full window drops its oldest
(`RetainAppend`), and every other step is invisible. `LedgerKeepsItsPromises` proves
`Remembers` and `CountsUp` of the ledger alone, by an invariant on its three maps;
`EngineKeepsThePromises` carries them over to the engine, which is what the refinement is for.

*Counting.* `FailuresCountOnce` needs more than a bound on the count. `SInv` says of each
record that its retained keys, which `Counted` keeps distinct, name failures in `Shown`, the
failures of its fingerprint that GitHub had (`Traced`), and of each event of a batch that it was
taken from such an attempt (`Sourced`); a job-less key was taken from an attempt that GitHub showed without a failed job
(`Stands`, `StandsStays`). `Shown` is finite (`FiniteProduct`) and only grows. Until the window is
full the count is the number of retained keys, hence at most the cardinality of `Shown`; when it
is full, its keys alone are `HistoryLimit` elements of `Shown`. `HistoriesAreReal` and
`FallbacksNeedReruns` are read off the same invariant.

*Progress.* `RunsAdvance` is the half of `DeliveriesEnd` that needs no fairness. A run's
distance to its end is a pair: the phase it is in (`Stage`) and, within it, what the loop has
left (`Work`: two or three calls per event, issue or origin). Every step of a run lowers the pair
lexicographically (`Closer`), whatever the size of batch, project and pull request; deaths
lower it to its end; and no step of GitHub, people or another engine raises it. `RInv`, that
the three loops' sets are finite, makes them numbers (`DistancesAreNumbers`). What is left to
the liveness property is that a step is taken, which is fairness, and that one can be taken,
which is ENABLED.

### Calls and routing: `ApiClientProofs`

* `MutationsAreAppliedOnce`: a pending mutation has had no effect and is at its only attempt
  (`AtFirstAttempt`).
* `ListingsAreComplete`: nothing up to the cursor has been missed, and nothing was gathered
  that was never there (`Gathered`); at the last page the cursor is past all nodes.
* `NothingIsListedTwice`: what was gathered lies before the cursor or on the pages read
  (`Positioned`).
* `JobListingsAreComplete`: what was gathered is exactly the pages read (`Numbered`). That a page
  that is not full is the last one is a counting argument: ranks map the nodes one to one onto
  1 to their number (`RanksAreDense`), so if something lay behind the page, it would be full
  (`ShortPageIsLast`).
* `MissingLabelsAreAbsent` (`LabelsGathered`), `ClientTypeCorrect` (`Paged`: a pending call has
  pages left).
* `CallsOfAJobKeepTheirPromises`: all of these through the calls of a job, since a step of the
  job is a step of its call or begins another (`SessionSteps`, `CallInvAnew`).
* `JobsAreRoutedAsAsked`: a configuration that the job has resolved itself says what it was asked
  for (`Asked`), and the last query compares it with the workspace.

### The gate: `SecurityGateProofs`

`PassingJobsHaveEvidence`, `PassingJobsSawEverything`, `PassingJobsAreWithinLimits`: at the end
the properties are about outcomes; the invariant `GInv` says what each outcome means: `Order`,
that exactly the steps before `at` have one, and, as long as nothing has stopped the job
(`Honest`), `ScansMean`, `ActiveMeans` and `VerdictMeans`. A step that fails but lets the job
continue must keep the meaning of the others. That `findings` still equal `reports` at
the end needs the order: no scan comes after the normalisation (`StaysOpen`).
`RecordsOfScannersAreKept` has an invariant of its own (`Recorded`): a scanner has a record
only from its phase, and no phase is run twice. `IntolerantScannersWorked` adds to it
that a scanner that tolerates no exit status and is on record as having run did scan
(`Genuine`); with `PassingJobsHaveEvidence` it gives what `--require` is worth.
`GateTypeCorrect` is the type invariant.

### The Go client: `NativeBindingProofs`, `IntegrationRunnerProofs`

`BInv` says which operation is at which label (`Labelled`), that a client is made once
(`Made`) by a library that is there (`Found`), that whoever closes an unraced client is alone
with it (`Alone`), hence what its handle and memory are (`Sound`), and that nobody runs on the
thread of a locked goroutine (`Apart`), hence its message is still there (`Kept`). From
it: `BindingTypeCorrect`, `HandlesAreSafeWithoutRaces`, `LockedGoroutinesReadTheirMessage`,
`ClientsShareOneLibrary`.

`ScenarioUsesBinding` is `RunnerSpec => Spec`: the runner only takes steps of the binding, so
`BInv` holds under it. `RInv` adds where the runner is (`Control`), that the envelope
was protected with the kind of key now in use (`Settled`), that a demanded key is about to be
heard (`Pressing`) and that a client of its own is used by nobody else (`Belongs`). From
it: `EnvelopeKeysMatch`, `DemandsAreHeard`, `ScenarioReleasesClient`.

### The mirror and the register: `ReleaseMirrorProofs`, `ThreatRegisterProofs`

`MirrorInv`: what precedes the step a run is at has been done (`Behind`), a run that pushes
has a commit of its event's content, and one that pushes its tag has that commit on
main (`Pushing`), a tag that never strayed is at one commit for all its runs (`Steady`), and
a run that nobody overlapped finds the mirror as it saw it (`Undisturbed`). Six theorems: `MirrorTypeCorrect`, `MainIsNeverTakenBack`, `TagsStayOnMain`,
`NativeComesFirst`, `ConflictsNeedRaces`, `TagsAreSources`.

`RegisterInv`: every acceptance in any model is one that people made (`Meant`), reported rows have
places (`Placed`), a run that began from the model's last edit has all its threats
(`Begun`), and an artifact leaves none of them out (`Kept`). Of several findings with one id
exactly one remains (`OneRemains`), which needs the order to be total on them. From it:
`RegisterTypeCorrect`, `AcceptancesArePersonal`, `ReportsAreDescribed`, `ThreatsAreKept`.

### Only model-checked

`DeliveriesEnd`, liveness under fairness, which is out of the prover's reach: only its
ranking is proved (`RunsAdvance`). The three violations: a counterexample is TLC's to
find, and the theorems named in section 8 say where none is. Every other property of every
passing run is a theorem.

## 10. Not modelled

* Text: titles, rendering other than whether it succeeds, the managed block's syntax,
  redaction, normalisation of fingerprints, keyword classes, how an issue or a depth is read out
  of a pull request, and the pull-request path policy, which changes no state.
* Priorities and categories: written by the engine, read by no decision.
* The command line, other than as a way for a run to die; the shape of single configuration
  fields.
* What Linear and GitHub do inside a request, beyond a page read or a write that may fail
  before or after its effect; that they answer against their own schema (a page without
  `pageInfo` would end a listing as the last page does).
* What scanners write and how it is parsed, beyond severities and ids; the SARIF export; the
  wording, timestamps and evidence rows of the threat model.
* Request and response types of the SDK, JSON, and the strings passed to and from the library.
* Titles, notes and the prerelease flag of a release; the content of installers.
* `ci.yml`, which keeps nothing between runs, and the developer tooling: sequential scripts
  without shared state. What is left of the repository changes no state that a step of two
  actors, a failure or a repetition could put in a wrong order.
