# A TLA+ model of SkillFoundry

SkillFoundry turns a conversation about a wanted skill into a verified package in
a registry. A user talks to the Front Desk, approves a plan, the approved inputs
are frozen, a worker builds the package, several gates leave evidence files about
it, and the registry accepts it on that evidence. Everything durable is a file of
one job workspace (`runs/<job_id>/`) or the one registry file. There is no
database and, but for the registry, no lock: the server answers each request on a
thread of its own, workers and gates are separate calls over the same directory,
and every component decides from files others may have replaced.

This directory holds TLA+ modules of the parts where that matters, their TLC
configurations, and TLAPS proofs. `PROJECT.json` maps each definition to the
lines of `src/` it stands for.

## Inventory

| component | state | operations | who shares it | hard behaviours |
|---|---|---|---|---|
| registry (`registry.py`) | one JSON list of entries, a lock file, in-process locks | `add_verified`, `add_product_grade`, `quarantine`, `reject`, `list`, `reuse_candidates`, `verify_entry` | every job, the API, the feedback manager, other processes | unlocked evidence reads, one after another, before the locked append; nested lock; kill before or after the rename |
| feedback (`feedback.py`) | feedback record, repair plan and change report of a repair job; version links in registry provenance | plan a repair, register a repaired version, quarantine, record a rollback | the registry, the gates of the repair job | loads the registry without its lock; three files of three moments make one claim; kill between registration and link |
| QA lab (`qa.py`) | `qa/quality_report.json` | `evaluate` | package, verifier result | hashes the package before it reads it |
| acceptance coverage (`acceptance.py`) | criteria, coverage plan and result, manual acceptance record | plan, evaluate, record an acceptance | every pipeline, the registry, the API | evidence of earlier packages or earlier criteria |
| evidence chain (`verifier.py`, `verification_bridge.py`, `product_grade_gate.py`) | result files of a job | one call each, in orders each pipeline chooses | offline loop, goal runtime, graphs, registry | a rewrite of the package, or of one file, between any two |
| Front Desk job (`frontdesk_loop.py`, `frontdesk_workspace.py`, `api.py`) | conversation, drafts, plan, reviews, `state.json`, `artifact_manifest.json` | create, message, plan review, retry, build | concurrent HTTP requests on one job | requests that last minutes and write back the state they began with; whole-manifest rewrites; kill between two files |
| freeze gate (`frontdesk.py`) | builder inputs, their locked hashes, `freeze_manifest.json` | `evaluate_and_freeze` | the Front Desk round, the build adapter | approval bound to one file, inputs written from others; six inputs written one after another; a write that raises is caught |
| build adapter (`adapters/frontdesk.py`) | none | the gate before a build | Front Desk files | trusts a manifest written earlier |
| job workspace (`workspace.py`) | artifact manifest, locked inputs | initialise, record, `verify_locked_inputs` | everything in a job | stale or lost records |
| offline loop (`offline.py`), worker boundary (`worker.py`), operations (`ops.py`) | attempt directories, reports, the archive of results | build, verify, register, cleanup | workspace, registry | a kill between any two files, then the same command again; time-outs after writes; cleanup between commands |
| verified graph (`graph_v2.py`), goal runtime (`goal_runtime.py`), ForgeUnit product graph (`forgeunit_adapter.py`, `graph.py`) | attempt reports, gate results, `verified_goal_runtime_result.json`, `graph_v2_state.json`, final report | build, verify, repair, registry gate, human review | one another: two build requests run at once on one job | builds overtake one another between files; hashes recorded by one of files of the other |
| API review and download (`api.py`) | review decision, manual acceptance, graph state | decide, download | graph state, registry | a decision on a replaced request; a package rewritten while it is packed |
| adaptive steering (`adaptive_graph.py`) | contract, result, observation, correction per iteration; capability state; decision ledger | propose, execute, observe, correct, route | worker, gates | two budgets (iterations, repeated failures); evidence of an earlier iteration or build; the ledger rewritten in place |
| sidecar worker (`pi_worker.py`, `run_work_unit.mjs`) | input, output and session files of an iteration | invoke, ask, write a file, finish | the adaptive loop | outlives the build that started it; hangs; output of an earlier run on file |
| product grade (`product_contract_compiler.py`, `product_grade_gate.py`, `product_runtime_checks.py`, `product_repair_loop.py`) | acceptance matrix, runtime result, grade report, repair packet | compile, evaluate, plan a repair | the adaptive loop, the registry | commands of the package write into it while it is graded; reports of earlier builds |
| semantics, schemas, context adapter, command line, benchmarks | derived files | render, parse, call a model | | sequential, or input and output only |

What makes each correct:

- registry: one entry per version, only verified packages, a returned call stays
  true, a quarantined version is never offered for reuse, every call ends;
- feedback: a repaired version passed both gates as the content that was registered,
  reports speak of what is registered, versions descend from the original;
- coverage and QA: what passes was earned by evidence about the package;
- evidence chain: what an entry records is about the package it registers;
- Front Desk: nothing is frozen that a user did not approve, nothing is built
  that was not frozen, the built inputs are those of the approved plan, spent
  budgets reach a human;
- offline loop: only what passed is registered, what is registered stays so however
  often the command is cut off and run again, every command ends;
- graphs: a registered package was judged, whichever builds overtook one another,
  a decision answers its request, every request ends;
- adaptive steering: a build closes only on evidence of the package as it is,
  repeated failures end in review, the ledger is the unbroken record of one build;
- product builds: a work unit completes on its own output, what is registered is of
  the grade asked for, a repair answers the findings there are, every build ends.

## Modules

| module | models | uses |
|---|---|---|
| `Registry` | `registry.py` and the registry calls of `feedback.py` | |
| `RegistryContract` | the atomic registry `Registry` implements | |
| `EvidenceChain` | the gates and the registry's evidence checks | |
| `FrontDesk` | one Front Desk job under concurrent requests, crashes and retries | |
| `AdaptiveSteering` | the adaptive build loop of one job, over several builds | |
| `BuildAttempts` | the commands of the offline loop on one job, killed and started again | |
| `VerifiedGraph` | concurrent builds, reviews and downloads of one job through the API | |
| `PiWorker` | the worker boundary and the sidecar process | |
| `ProductGrade` | contract compilation, product gate, runtime commands, repair packet | `PiWorker` |
| `ProductBuild` | the adaptive loop around both, up to registration | `ProductGrade` |
| `QualityLab` | the QA lab and the verifier it reads | |
| `AcceptanceCoverage` | criteria, their plan, acceptance records and the evaluation | `QualityLab` |
| `RepairedVersions` | feedback, repair plans and the registration of repaired versions | `AcceptanceCoverage` |
| `RegistryProofs`, `EvidenceChainProofs`, `FrontDeskProofs`, `AdaptiveSteeringProofs`, `BuildAttemptsProofs`, `VerifiedGraphProofs`, `ProductBuildProofs`, `RepairedVersionsProofs` | theorems | the module they are named after |
| `MC...` | model values, operators and symmetry for TLC | the module they are named after |

`PiWorker`, `ProductGrade` and `ProductBuild` are layers of one composition, as are
`QualityLab`, `AcceptanceCoverage` and `RepairedVersions`: each declares the state of
its files, an initial condition and actions that leave the layers above to be
filled in, and the last one states `Init`, `Next` and `Spec`. `EvidenceChain` takes the
gates alone, in any order; the other modules take the orders of one pipeline.

### Registry

`store` is the file, `lock` the pair of thread lock and flock (they are always
taken together, and a re-entrant call skips both). A caller walks through a call
label by label: `read_result`, `hash_package` and `hash_result` are the unlocked
reads of `_build_verified_entry`; `check_package`, `check_hash` and `check_result`
the three of `verify_entry`, which hashes the package, hashes the result file and
parses it again; then `acquire`, `load`, `decide` (duplicate policy or status
change), `write`, `replace` and `return`.
`AcquireToWrite` is `_write_entries` called without the lock, as `feedback.py`
does: `Augment` reads the file and goes straight to `write`. `RewritePackage` and
`RunVerifier` are the rest of the system working on the job directory. `Abort` is
a kill or an I/O error at any label; the kernel or a `finally` frees the lock.
`promises`, `passedOn` and `replaced` are history: what returned calls told their
callers, what the verifier passed, and the results it replaced while a caller stood
between the hash and the parse of one (`Between`).

Left out: entry fields no decision reads, the listing filters other than reuse,
`add_candidate`, and the evidence checks, which are `EvidenceChain`'s and
`VerifiedGraph`'s. The reads of `add_verified` are steps of their own here only; in
`BuildAttempts`, `VerifiedGraph` and `RepairedVersions` a registration reads its
evidence in one step, so the split result described below does not occur there.

### EvidenceChain

`package` is the directory content; `verifier`, `coverage`, `bridge` and `grade`
are the result files, each a record of what its writer stamped into it. Contents
are abstract; a file's hash is the file, so two files are the same file when they
were computed from the same things at the same time. The two package hash
functions of the code are kept apart (`ListHash`, `TreeHash`). Each gate may be
called at any time; its verdict is nondeterministic where it depends on the
content, and computed where it depends on staleness. `GradeProduct` may rewrite
the package because its runtime checks are commands run inside it.

### FrontDesk

One job. `state` is `state.json`; `turns`, `draft`, `plan`, `reviews`, `root`,
`manifest` are the conversation, the two draft files, the plan by its hash, the
review records, the builder inputs and the freeze manifest; `locked` is the hash
of the builder inputs in the artifact manifest. A thread has a label and carries
the `FrontDeskState` object it works on (`st`). Every artifact write is two
steps: the file with the read of the artifact manifest (`ThenUpsert`), then the
write of the whole manifest and the locked-input check (`Upsert`), so a manifest
update can be lost between two threads as in the code. `Save` writes the state
the thread carries over whatever is there. `Restart` kills all threads.

A freeze replaces the builder inputs one file after another (`WriteRoot`), hashes
them one after another for their new records (`HashRoot`), writes the manifest with
the records (`Lock`), checks the locked inputs and writes the freeze manifest
(`Seal`). Any of these may raise: the gate catches it as `freeze_write_failed` and
the request goes on with the inputs as they are (`FreezeWriteFails`). `overlap` and
`cut` are history: two freezes were among these steps at once, one failed there.

Contents are numbers: planning round n writes drafts n and plan n. Named
abstractions: a builder input is the drafts its writer carried, so that of the build
contract, which also quotes the hashes of the others, only this is kept; `InputCount`
stands for the six files, two in the runs and any number in the proofs; a file is
written whole or not at all; an I/O error elsewhere ends the request as a restart
does; reports, audits, risk and feasibility files are not told apart (their
verdicts are nondeterministic); a turn and its clarification summary are one step;
a plan review reads the state and hashes the plan in one step; the last check of the
locked inputs and the hashes of the freeze manifest are one step; the build gate
reads everything in one step. The graph-v2 build mode, whose gate looks at the state
alone, is not modelled.

### AdaptiveSteering

One job and the adaptive builds started on it, one after another. `pc` is the node
of `compile_adaptive_graph` a build is in; the observation node is split at each
gate it runs (`bundle`, `verify`, `coverage`, `grade`) and the correction node at
the ledger (`correct`, `append`), because each part writes files and may be the
last that ran. `iteration`, `failures` and `route` are graph state and begin anew
with every build (`Start`); the result files of the gates, the repair packet and
the `adaptive/` artifacts of every iteration stay. A package is what the gates can
tell of it: empty, an entry point without manifest, a bad bundle, or a valid
bundle of some content. Verdicts that depend on content are nondeterministic, a
gate may raise, and the product gate's runtime checks may rewrite the package.
`PlainWork` is a worker that only reports about itself, `CommandWork` the command
worker, which bridges its attempt and runs verifier and coverage itself and may
raise after any of these. `Kill` is a killed process or an exception no node
catches; it leaves what the cut-short step had written. The decision ledger is
rewritten in place with all it holds, so a kill in an append leaves it unchanged,
with the decision, or unreadable (`TearLedger`, `torn`), and then every later append
is refused. `by` is history, the build each decision is from. The other JSON files
are written in place too, but modelled as written whole or not at all: what the next
read of a torn one raises is left out.

`job` holds which optional inputs the workspace has (`matrix`, the product
acceptance matrix; `criteria`, the acceptance criteria; `full`, any input that
calls for the full verifier) and the kind of worker.

Left out: route plans, the wording and scope of contracts, the check of the locked
inputs, a package that itself calls for the full verifier by naming its toolchain,
two builds of one job at a time, and the registry gate after closure, which
`ProductBuild` has.

### BuildAttempts

One job of the offline program. Commands (`build`, `verify`, `register`, `cleanup`,
with `--overwrite` and another attempt limit where the command line allows) run one
after another; `Kill` ends one between any two writes, and whatever the files then
say is what the next finds. `attempts[n]` is the directory `attempts/<n>/`: absent,
made, left with an input manifest, or holding a report with its exit. `result` and
`archive` are the verification result and its copy in the attempt, `manifest` the
hashes recorded in `artifact_manifest.json`, `inputs` the locked inputs. The loop
keeps nothing in memory: `TakeRoute`, `Resume`, `FirstAttempt`, `NextAttempt`,
`VerifyLatest`, `Register` and `GiveUp` are the branches of `_run_build_loop`, each
guarded by what it reads. A package is its kind of content (`Sound`, `Unsound`,
`Unsafe`) and whether transient files lie in it. `touched` and `unsynced` are history:
a command other than `build` changed evidence of the entry, a command was killed
between a write and its record. Named abstractions: `--overwrite` rewrites the inputs
and the manifest in one step; a verification that names an attempt which does not
exist raises and changes nothing, and is left out.

### VerifiedGraph

One frozen job and the requests on it, each a thread with a label (`pc`) and what it
has in memory (`job`). `Start` begins a graph-v2 build, a ForgeUnit command build or
one with a repair command; both share the files, and register versions of their own.
The actions follow the nodes in order: `Work`, the attempt report, `Verify`, `Cover`,
`Bridge`, `Record` (the runtime result), `Route`, then `Gate`, `Add`, `Report` and
`Approve`, or `Review`; `Persist` writes the state and `Answer` returns the report
that is on file. `ReadReview`, `Decide` and `UpdateState` are
`record_human_review_decision`, `CheckDownload` and `Zip` the download. A file is
identified by what its bytes are made from, so equal records are equal hashes; a
verifier result by its attempt, the writer of that attempt's report, package and
verdict. Each gate's reads, and the registry's, are one step. A package is `Sound`,
`Unsound`, or `Manual`, one that a person has to accept; an acceptance record keeps
what was shown, which the file does not say.

### PiWorker, ProductGrade, ProductBuild

`PiWorker` is `PiWorker.invoke` and the agent process behind it. `call` is the work
unit a build waits for, `outputs[i]` the output file of iteration i, `agents[r]` the
process build r started, which goes on when the build is killed and may hang.
`Ask` is a model answer under the tool-choice rule, `WriteFile` and `RefuseCall` the
tool, `Finish` the status the sidecar computes from the files that are there,
`TimeOut` the adapter killing it, which may leave a file torn. Providers: the live
one is checked; the offline one is in the module and takes its writes from a plan.

`ProductGrade` compiles the job's signals into profiles and items (`Profiles`, `Items`),
reads the package, runs the commands the package's plan declares, each of which may
write a file, reports findings and plans the repair packet. `ProductBuild` puts both
into the steering loop: `Propose` takes the repair from the packet on file, `Observe` ..
`Plan` are the observation, `GateRaises` a gate that raises, at a command or a file it
cannot hash with the report of before, or with its own report on file at a reviewer's
report that cannot be read or is of another job, and leaves the packet of before in each
case, `Correct` the ledger and route (which a kill may cut off, `CutLedger`), `Close`
verification and registration in one step. Named abstractions: the manifest is the
canonical one the sidecar writes, a prompt with SKILL.md as its entry point and nothing
else declared, so that of the bundle verifier's checks only those for the two files can
fail (`BundleValid`); a command that writes another manifest is not modelled; the gate
reads the package and its command plan in one step, and what an agent writes to `qa/` or
leaves running is not modelled; that the wait ends after the time-out assumes that no
process the agent started keeps its pipes open; the matrix is compiled before the first
build.

### QualityLab, AcceptanceCoverage, RepairedVersions

A package is what the checks of the QA lab and of the evaluator can tell of it:
sections, what they say, declared scripts, checks it would pass, files, statements.
The lab is four steps (`BeginQA` hashes, `ReadVerdict`, `ReadText`, `SmokeScripts`, then
the report) with rewrites between. `AcceptanceCoverage` gives each criterion the
first kind of evidence that fits and evaluates it from verifier result, QA report,
acceptance record and package, read in one step. `RepairedVersions` adds the registry
entries of one asset, and managers that plan (`WriteFeedback`, `WritePlan`) and
register: `Preflight`, the two gates, `AddVerified`, `LoadEntries` and `Augment` (the
link, written into a list loaded outside the lock) and `ReportChange`. `Kill` cuts a
call off anywhere. History: `calm` marks what nobody disturbed between its reads,
`lost` the versions whose entry a stale list overwrote.

Left out: the version a repair says it starts from is what the caller names and the
code does not look it up, so callers are assumed to name a version that is on file;
the locked inputs of the repair job are constant, hashing the package and
judging its items is one step of an evaluation, `record_rollback`, the coverage
summary inside the QA report, and quarantine, which is `Registry`'s.

## Runs

| run | question | instance |
|---|---|---|
| `registry_shared` | does the lock discipline keep keys unique, packages verified, promises and quarantines; is the file, seen from outside, the atomic registry | 2 callers, 2 versions, 2 contents, 3 calls, 3 verifier runs, 1 kill; 1.05 million states |
| `registry_repaired` | with the feedback manager among them, does every call end | 2 callers, 1 version, 2 calls, 2 verifier runs, 1 kill, fair callers; 163 012 states |
| `feedback_undoes_quarantine` (violation) | does a quarantine survive a repaired registration | 2 callers, 2 versions, 3 calls, 1 verifier run |
| `evidence_bridged` | is a bridged entry's evidence about its package | 2 contents, 5 evidence writes |
| `frontdesk_one_caller` | the whole life of a job for one user without crashes, failed freezes included | 1 thread, live model, 3 rounds, 1 revision, 2 builder inputs, 7 requests; 148 877 states |
| `frontdesk_concurrent` | what survives two concurrent requests and a crash | 2 threads, deterministic planner, 2 builder inputs, 4 requests, 1 crash; 5.0 million states |
| `steering_builds` | does the loop close and record as it should, over two builds and a kill | 2 contents, 3 iterations, threshold 2, 2 builds, 1 kill; 6.9 million states |
| `offline_builds` | what holds of a job whose commands are cut off and run again, and does every command end | 3 kinds of package, limit 2, 3 commands, 1 kill; 986 331 states |
| `graph_builds` | does every request end, through repairs, a restart and both kinds of build | 1 caller, 3 kinds of package, limit 2, 2 builds, 2 reviews or downloads, 1 restart; 103 868 states |
| `graph_overtaken` | what holds when builds, decisions and downloads overtake one another | 2 callers, limit 1, 2 builds, 2 reviews or downloads; 1.5 million states |
| `product_build` | does a product build complete on its own output, register what was graded, repair what was found, and end | 2 jobs, 2 iterations, threshold 2, 2 builds, 1 kill, one write of an agent; 1.40 million states |
| `repaired_versions` | do repaired versions pass their gates, descend and report as they should; is passing coverage earned | 2 managers, 3 versions, 3 packages, 3 criteria sets, three budgets; 1.12 million states |

Why the bounds are enough. Registry: every anomaly of a read-modify-write needs two
callers and one entry to lose; three calls put an existing entry, a writer and a victim
on the table, two versions let a write for one key carry away another, two contents give
a package that changed under its evidence, and a third verifier run a result hashed, one
judged in its place, and the one parsed first. Evidence: a stale chain needs verify,
coverage, a rewrite, a second verify and a bridge, five writes. Front Desk: approve
needs create, review and build; two planning rounds need one more, a revision and its
refusal two more, so six requests walk every branch of one caller and a seventh follows
a failed freeze; four with two threads hold a create, a second round, an approval and a
build in every overlap. Two builder inputs are enough to be of two freezes, or half
replaced. A larger concurrent instance multiplies the states by two orders of magnitude;
what holds for every size is proved instead. Steering: three iterations and a threshold
of two reach every route, a count that is reset and one that is not, and the end of the
budget without either; a stale verdict needs two valid contents, and artifacts of
another build need two builds, the first of them killed before, after or in the middle
of recording a decision. Offline: a command that is killed, one that resumes it and one
that comes from outside (a verification, a registration, a cleanup) are three; two
attempts give a latest and an earlier one. Graph: an overtaking needs two builds, a
stale decision a build, its request and a rebuild; two attempts are needed only for the
repair cycle, which one caller shows (both in one instance passes 20 million states).
Product: a leftover of another build needs two builds and a kill; two iterations give a
repair and its successor, and reach the threshold. Repaired versions: `TwoRepairs` has
two registrations of one asset with a kill, `PlanAndRepair` a plan written while another
version is registered, `Reviews` criteria that are revised and accepted between
evaluations; three versions hold the original and both repairs.

Fairness. `registry_repaired`: weak fairness of each caller's own step; a call runs
straight-line code and the operating system schedules it, and nobody has to call,
crash or rewrite a package. flock is not fair, so in general a waiter may starve;
calls are bounded, so the lock is free for good after finitely many of them and weak
fairness is what the kernel then gives. `offline_builds`: weak fairness of the step
of the command that runs. `graph_builds`: of each request's step; the server has a
thread for it. `product_build`: of the build's step, the expiry of the adapter's
time-out among them; of a sidecar nothing is assumed. The other runs state none, since
they check safety only.

`CHECK_DEADLOCK FALSE` stands where the bounded request, command, evidence-write or
crash budget lets a behaviour stop.

## What the violation shows

`_augment_registry_provenance` reads the registry outside the lock: a quarantine, or
a registration, that another caller completed meanwhile is undone, although
`quarantine_version` had returned. The run checks the quarantine; `RepairedVersions`
keeps the lost registration as `lost`, and states its properties for the others.

## What the models show beside their properties

Behaviours of the code that are in the models, and that no document of the
repository rules out or that a property is stated to leave aside:

- without a bridge result the registry accepts coverage of an earlier package; a bridged
  entry's is about its own (`BridgedChainIsSound`);
- the product gate and the registry hash the package with different functions, so
  `add_product_grade` refuses every report the gate writes (`GradeHash`, `ListHash`);
- a crash between drafts and plan leaves the previous plan up for review over the
  new drafts; the approval names the plan's hash only, and the freeze builds the
  inputs from the drafts. Two planning rounds at once do the same;
- a kill between writing and locking the builder inputs, a write among them that
  raises and is caught, or a lost manifest update, leaves hashes that every later write
  of the job refuses;
- two freezes of one job that overlap can leave builder inputs of which some are from
  the one's drafts and some from the other's; they are locked, sealed and built as any
  others, although no gate saw them together;
- a verifier run that replaces the result between its hash and its parse in
  `verify_entry` leaves an entry that records a result which did not pass; the package
  was passed (`OnlyPassedPackages`);
- a message to a frozen job is appended before the state is looked at, and the
  default build then refuses the job for good;
- a second adaptive build of a job counts its decisions from 001 on the ledger of the
  first, which refuses the repeated id: no build after a recorded one gets past its
  first correction; one killed in the middle of an append loses the decisions before
  it, and the unreadable ledger refuses every later build's in the same way;
- a manual acceptance stands for criteria, and so for packages built after it;
- a decision is written with the state it was read with, over the state of a build
  that ended meanwhile; a build that is overtaken answers with the other's report;
- a manager killed between `add_verified` and the link leaves a version without one,
  and its rerun is refused as a duplicate; two planners can leave a feedback record
  and a plan that do not belong together, which the preflight refuses;
- an untitled SKILL.md hides an invalid frontmatter from the QA lab.

`BuildsFollowApprovedPlan` and `LockedInputsHold` are therefore checked for one caller
without a crash, and proved for as many as there are while no two requests on a job
overlap and no restart interrupts one; `RepairedPassedGates` is stated for registrations
nobody disturbed.

## Proofs

All theorems are for every value of the constants under the named assumptions
(`RegistryAssumption`, `EvidenceAssumption`, `FrontDeskAssumption`,
`SteeringAssumption`, `NoneIsNoFile`, `BuildAssumption`, `GraphAssumption`,
`WorkerAssumption`, `ProductAssumption`, `NoneIsNoResult`, `ProductBuildAssumption`,
`QualityAssumption`, `AcceptanceAssumption`, `VersionsAssumption`, `NoneIsNoEntry`),
which only type the constants, keep `None` and the named states apart, and say that
what is called sound is not also called unsound. `NoneIsNoResult` is one of
`ProductGrade` and one of `BuildAttempts`, `NoneIsNoEntry` one of `RepairedVersions` and
one of `VerifiedGraph`. Two theorems assume more, in their statement:
`RegistryIsAtomic`, and `LineagesAreSound` that there are finitely many versions.
`OneCallerBuildsApproved` is an instance: one thread, no restart.

- `Registry`'s `TypeCorrect`: `TypeOK` strengthened by `CallerOK`, which ties each label
  to the request and draft a caller has there.
- `UniqueVersions`, `OnlyVerifiedRegistered`: `FileInv` adds that the list every
  caller has loaded and the temporary file it has written have distinct keys, and
  only entries whose package was passed (`Backed`) and whose result is a passed one of
  it or was replaced by a verifier run in between (`Sure`). What holds of a draft
  follows its label, since it is built and checked in six unlocked steps: once the
  result file is hashed the second time, that result is the one on file or was
  replaced (`OnFile`), so the parse that follows certifies it. The invariant does not
  need the lock for distinct keys, which is why it survives the feedback manager.
- `RegistryIsAtomic`: assumes `NoFeedback` (callers never use
  `register_repaired`). `LockedSection` says that only the holder is between load
  and rename and that its loaded list is the file; `FreshDrafts` that an appended
  key is new. Then `Replace` is an atomic registration, rejection or quarantine
  and every other step stutters.
- `PromisesAreKept`, `QuarantineExcludes`: the refinement gives that entries only
  gain marks; `Pending` says that from the rename to the return the file holds
  what the call will promise.
- `NobodyWaitsForever` and `CallsRunDown`, the safety half of `CallsEnd`, with the feedback
  manager among the callers. `LockHeld` says that the holder of the lock is between load
  and rename, or in the write that takes it itself, so it can go on (`Ready`); the
  steps a call has left fall with each it makes, and since nobody takes the lock from
  its holder, no other caller gives it more. `LinksOnce` is why the manager's second
  write is its last.
- `BridgedEntriesAreCovered`: passed coverage testifies that it was computed when
  package and verification result agreed, a passed bridge that its coverage was
  fresh; hashes are injective. `EvidenceChain`'s `TypeCorrect` needs no strengthening.
- `FreezesAreApproved`: every review record that approves names an approved plan;
  the gate compares the record with the plan it freezes.
- `BuildsAreGated`, in two parts. Each input: from the gate to the last write of the
  inputs the thread carries drafts that were gated; while a thread is past its writes,
  or the state is frozen, every builder input is of gated drafts. No lock is involved,
  so the argument is about which labels, and which carried states, can lead to
  `frozen` (`Freezing`), and that an input is only ever replaced by a gated one. All
  of them from one gate: as long as no two freezes overlapped, one thread at most
  replaces inputs, those it has written are its own (`Written`), and hashes on record,
  or about to be written back, are of inputs that agree (`Uniform`); so inputs that
  match their hashes agree as well (`SoleInv`).
- `BudgetsEscalate`: checked for one caller, proved for any number. `Fits` says of each
  label what a thread that is there, or goes there after its manifest upsert, carries:
  where it spends it has revisions to spare, and what it may store is within both
  budgets; a thread that writes a state over another's stores such a one.
- `FilesAreTyped`: the bounds on drafts and turns are about all threads at once.
  `Counted` says that the drafts written, and the turns appended, together with the
  threads that may still write some (`MayDraft`, `MayTurn`) are no more than the
  requests received so far.
- `BuildsAreApproved` and `LockedInputsAreKept` assume `Undisturbed`, no restart and at
  most one request in progress, and prove the two properties as long as it holds.
  `CallerInv` says that between requests drafts, plan and review on file belong to the
  state (`Agrees`), and for each label what the one request has in memory (`Holds`).
  While the state is frozen the hashes match, and a request under way carries that
  state or has read none yet (`KeepsFrozen`), so a freeze that fails among its writes
  finds, and leaves, a state that is not frozen.
  `OneCallerBuildsApproved` gets rid of the hypothesis where there is one thread.
- `AdaptiveSteering`'s `TypeCorrect` adds to `TypeOK` that the failures counted are
  fewer than the iterations made until the correction counts its own.
- `LedgerTellsOfOneBuild`: `LedgerInv` says that a build at work has itself recorded
  every iteration it settled, each with a route that goes on (`Recording`): where it
  recorded the first, an append at the next iteration continues its own record, and
  where it found the first of another build, or an unreadable ledger, its append is
  refused and it ends. A torn ledger is empty (`OneBuild`).
- `RepeatedFailureIsReviewed`: `CountsTrailing` says that the count is the length of
  the run of failures the observations of this build end in, up to the iteration
  the count has taken in (`Counted`); artifacts of earlier builds lie beyond it.
- `ClosureRestsOnEvidence`: `Observing` follows the verdicts through the gates of one
  observation, each about the package as it is as long as nothing failed, `Judged`
  carries them to the decision and `ClosesWhenClean` ties the route to them.
- `FinishedBuildsAgree`: `Recorded` says that ledger and corrections agree up to the
  iterations this build has settled, which holds because a build that meets a
  decision of another stops there.
- `BuildAttempts`'s `TypeCorrect`, and `RegisteredIsSound`, `RegistrationIsKept`,
  `SecurityIsEarned`: the loop infers where it is, so the invariants say what the files
  may look like: a directory is opened only at the loop's own attempt (`DirectoryOpen`),
  a verdict that passed is of the latest report (`PassedIsLatest`), and where the entry
  is untouched the records still match the files (`RecordsAreKept`). The latest attempt
  is a maximum; that it is one of the directories rests on the well-foundedness of
  finite subsets.
- `BuildKeepsContract` and, for `VerifiedGraph`, `BuildsKeepContract`: seen from the
  registry, each of the two programs implements `RegistryContract`, with the entries of
  its job as the assets. An entry appears whole, under a version that had none, backed
  by a result that passed on its package, and stays. `RegistryIsAtomic` is the other
  side: there the contract is what the locked file gives its callers, here what the
  callers do with it, and this is why `add_verified` may be one step of these modules.
- `CommandsRunDown`, and for `VerifiedGraph` and `ProductBuild` `RequestsRunDown` and
  `BuildsRunDown`: the safety half of `CommandsEnd`, `RequestsEnd` and `BuildsEnd`. A
  measure (`Remaining`) falls with every step of the command, request or build, is
  within a bound given by the limits, and is not raised by what runs beside it: another
  request, a sidecar of an earlier build. For a command it is 12 per attempt left, 6
  if the latest attempt is not judged, and the place in the round; `RoundInv` says that
  the attempt being made is later than any reported and the one being verified is
  the latest and not judged, so that no round repeats another.
- `FilesAreOfTheirKind`: nothing in the graph's shared files is ever removed, so
  `KindInv` says of each label which files are there by then (`LabelOK`) and that no
  step of another request takes them away (`Stays`).
- `OvertakenBuildsRegisterJudged`: a verdict that passed is of a package that is not
  unsound (`VerdictSound`), coverage that passed of one that was acceptable when it ran
  (`CoverageSound`), a bridge that passed of coverage and verdict of one package
  (`BridgeSound`); the registry compares all three with one another in the files it
  finds, so that no recorded hash has to be trusted.
- `DecisionsFitRequests`: a request that answers a review carries the state it read with
  a decision on that state's own request (`Decides`), so whichever state is on file then
  is written back whole; `DownloadsAreRegistered`: between its check and its zip a
  download holds the entry of the package on disk or has been overtaken (`ZipOK`).
- `ProductBuild`'s `TypeCorrect`: a live agent asks again only with writes left
  (`WritesLeft`), and a build has counted fewer failures than work units until it
  corrects the last (`Counting`).
- `CompletedUnitsAreOwn`: unless another sidecar was running when the call was made, the
  one that works on it is the only one (`Alone`) and works on what was asked for
  (`WorksOnCall`), so the output found when it has exited is its own (`OwnOutput`), and
  a file that is there stays there (`FileStays`).
- `RegisteredProductsAreGraded`: `Evaluating` says what the gate has read and written
  since it read the package, and that this is still the package unless it was moved;
  `GradedWhenPassed` carries the grade through correction and closure.
  `RepairsAnswerTheGate`: a repair can be proposed only between the correction of an
  observation and the next one, and by then the gate of that observation has replaced
  the packet, or raised (`PacketInv`).
- `RepairedVersions`'s `TypeCorrect`, with what each stage of a call holds (`CallReady`);
  `PassingCoverageIsEarned`: `RecordTrue` says that an acceptance on file was given for
  its criteria; `RepairsPassedTheGates`: `LabSound` and `ReportSound` follow what the lab
  has found of the package it hashed as long as nobody rewrote it, and `GateCall` what a
  manager has read; `ReportsAreRegistered`: at most one call is between registration and
  report of a version that was not lost (`OneRegisters`), its entry is in the registry
  (`RegisteringKept`), and once reported nobody registers it again.
- `LineagesAreSound`: as long as nothing was lost, every entry's source is registered
  (`Sourced`), links agree with their feedback (`LinksAgree`), and what a call holds
  names a registered source too (`CallsDescend`). `Rooted` says that no set of versions
  is closed under "source of". `LineageIsSound` asks that the chain of sources reaches
  its end within the number of versions: by the pigeonhole principle it would otherwise
  meet a version twice, and the versions between would be such a set; the least index
  the argument needs comes from the well-foundedness of `<`.
- `EntriesOnlyGainLinks`, the action property `EntriesStay` of the proof module: an
  entry on file changes only by its link, once, unless an older list is written over
  it. `AddedIsOnFile` says that between `add_verified` and the link the manager's entry
  is on file as it was added; `OneRegisters` keeps another manager from linking it.

Every safety invariant and action property that the runs check is stated by one of
these theorems, and so is the refinement of the registry. Only model-checked are the
four liveness properties, `CallsEnd`, `CommandsEnd`, `RequestsEnd` and `BuildsEnd`: that
a fair process takes its next step is a statement about `ENABLED`, which the prover
does not have. The measure that falls is proved for all four, and for the registry that
somebody can always go on; what is left to TLC is that the others never leave a
process without a next step, and that fairness gives it the lock.

## Plan

1. The verification and registration that `ProductBuild`'s `Close` makes in one step as
   steps of their own, with an entry, and the registry's contract for them.
2. Two adaptive builds of one job at once, and two runs of the quality lab.
3. A graph resumed from a stored state without a build of its own, and
   `record_rollback`.

## Not modelled

Model and worker behaviour (prompts, answers, what a package contains), text
distillation, rendering and read models, path security, serialisation, torn JSON files
other than the decision ledger and the sidecar's, benchmarks and scripts: input and
output, pure text, or sequential code that unit tests reach. `PROJECT.json` lists every
component with its reason, and every hazard found with the properties that cover it or
why none does.
