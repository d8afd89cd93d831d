# A TLA+ verification of pi-long-task

pi-long-task runs a long coding task for the Pi agent: it asks a planner for a
TODO document, gives its tasks one by one to worker sessions, and lets the user
steer the plan while it runs.  A second tool repeats such runs until a reviewer
accepts a goal.  This directory holds TLA+ modules of the parts that decide what
happens and in which order, the TLC configurations that check them on small
instances, and TLAPS proofs of nearly all the safety properties they check.  Paths are relative to
the repository (`src/...` is its source directory).

## 1. Inventory

| Component | Source | State it keeps | Operations |
|---|---|---|---|
| Steering queue | `src/steering.ts` | message array, processor, `processing`/`failed`/`closed`, idle waiters | `enqueue`, `setProcessor`, `retryFailed`, `waitForIdle`, `close`, the pump |
| Plan reconciliation | `src/plan_revision.ts`, `src/plan_revision_generation.ts` | none (pure functions over task lists) | match, reconcile, retire, render |
| Plan store | `src/plan_store.ts` | the document in memory, `TODO.md`, the promise-chain lock | `create`, `load`, `snapshot`, `applyRevision`, `completeTask`, `resolveTask` |
| Coordinator | `src/coordinator.ts` | attempts, active assignment, failure, `TASK_RESULT.md` | the scheduler loop, the steering processor |
| Worker session owner | `src/coordinator.ts`, `src/worker_session.ts`, `src/worker_reuse_policy.ts` | retained session, active assignment, `closed` | `run`, `invalidateAssignment`, `dispose` |
| Network recovery | `src/network_recovery.ts` | outage clock, retry count, deadline | `recoverNetworkOperation` |
| Guarded prompt | `src/session_guard.ts` | timers, settled/timed out/aborted flags | `runGuardedSessionPrompt` |
| Planner | `src/coordinator.ts`, `src/planner_*.ts`, `src/todo_generator.ts` | one session per request, diagnostics | plan, repair once, revise |
| Goal loop | `src/goal_loop.ts` | phase, iterations, limits, terminal status | the transitions of a goal run |
| Goal orchestrator | `src/goal_orchestrator.ts`, `src/goal_state.ts` | state file and trace file | drive, save, recover |
| Goal planning, execution, review | `src/goal_{discovery,spec,todo_generation,todo_execution,review}.ts` | none beyond one call | prompts and parsers |
| TODO documents | `src/todo_parser.ts`, `src/todo_generator.ts` | none (text in, text out) | parse, validate, complete, normalise, generate, insert |
| Extension entry point | `src/index.ts`, `src/input_router.ts`, the router in `src/steering.ts` | active queues, the sidebar, costs to be charged | the two tools, guidance routing, message hook |
| Git commits | `src/git.ts` | the repository: HEAD, index, work tree | dirty paths, commit after a session |
| Rendering, configuration | `src/render.ts`, `src/result_writer.ts`, `src/worker_config.ts`, ... | none | I/O, wording, constants |

**How they interact.**  The tool's `execute` creates a queue, activates the router
for it and calls `runCoordinator`.  The coordinator writes the plan through the
store, attaches a *steering processor* to the queue and enters the scheduler loop.
Loop and processor are two concurrent activities of one event loop: they share the
store (serialised by its lock), the variables of `runCoordinator` (read across
awaits), and the queue (`waitForIdle` makes the loop wait for a revision in
flight).  When a revision removes the active task the processor flags and aborts
its assignment and tells the session owner.  Before a task's first attempt the loop
lists the files that are dirty already, and after an attempt it commits the others.
Updates, outages and costs go from the coordinator to the sidebar of its call, which the
host's user interface builds when it likes.  A goal run calls `runCoordinator`
once for planning and once per iteration, without steering.

**What is hard.**  One event loop interleaves at every `await`; the plan a worker
was given may be revised, renumbered, dropped and restored before its result is
settled; revisions take minutes and are generated from a snapshot; every file
operation, worker and planner call may fail; three kinds of cancellation (abort by
the user, obsolescence, timeout) race with normal completion; the process may die
between a write and the update of memory.

**What makes each component correct.**

- Queue: order of submission, one message in flight, no lost wakeup, no stalled
  pump, waiters released once guidance stops; every message is incorporated.
- Reconciliation: matching is one to one, completion is never invented,
  transferred or erased, the running task is kept or reported stale, a second
  reconciliation comes to the same plan.
- Store: memory follows the file, a revision replaces exactly the plan it was
  generated from, every call settles, the document changes only as the abstract
  register allows (one checkbox, or one revision that invents no completion and reopens
  none under its identity), across restarts.
- TODO documents: the document that is written is read back as the tasks it was made
  of; completing a task touches that task only; supplying a document again changes
  nothing; every worker is told the goal, within the limit on what workers are given.
- Commits: nothing that was uncommitted when the run began and no file of the run enters a
  commit, everything a completed task changed in files that were clean before it does.
- Extension: the sidebar tells an outage while it lasts and goes with its call; every
  cost of a session the run waited for is charged once; guidance reaches the run it is
  acknowledged for.
- Coordinator: evidence before checkbox, the attempt limit holds and exhaustion is
  earned, a worker whose task is gone is stopped and completes nothing, the result
  is what the file says, the run returns.
- Session owner: one assignment at a time, every session disposed exactly once, a
  tainted session is never reused, a partial session only by the next attempt.
- Network recovery and guarded prompt: one terminal event, no retry after
  cancellation or deadline, all timers cleared, bounded waiting.
- Goal loop and orchestrator: limits hold, terminal states are final, the trace on
  disk is the prefix of the state's trace and is repaired after a crash.

## 2. Modules

| Module | Models | Composed of |
|---|---|---|
| `SteeringQueue` | `SerializedSteeringQueue` | |
| `SteeringQueueProofs` | its theorems | `SteeringQueue` |
| `PlanReconcile` | reconciliation and rendering, as operators | |
| `PlanRevision` | one revision, reconciled at request and again at application | `PlanReconcile` |
| `PlanStore` | `PersistentTodoPlanStore` | `PlanReconcile` |
| `PlanRegister` | abstract specification of the document | `PlanReconcile` |
| `PlanStoreClients` | the store with arbitrary clients, crashes and restarts | `PlanStore`, implements `PlanRegister` |
| `PlanProofs` | lemmas about reconciliation; the theorems of a revision and of the store | `PlanRevision`, `PlanStoreClients` |
| `Coordinator` | `runCoordinator` after planning | `PlanStore`, `SteeringQueue` |
| `CoordinatorProofs` | its theorems | `Coordinator`, `PlanProofs` |
| `WorkerAssignment` | `runWorkerTaskAssignment`: prompts, timers and cancellation of one assignment | |
| `WorkerSessionOwner` | `CoordinatorWorkerSessionOwner` and the reuse policy | `WorkerAssignment` |
| `WorkerRecovery` | the attempts of a run: scheduler, network retries, steering, abort, shutdown | `WorkerSessionOwner` |
| `WorkerRecoveryProofs` | its theorems and those of the owner | `WorkerRecovery` |
| `SessionGuard` | `runGuardedSessionPrompt`, as functions on the state of one prompt | |
| `NetworkRecovery` | `recoverNetworkOperation`, for an operation left to the module that extends it | |
| `PlannerRequest` | one planner request: runs of `runTodoPlanner`, repair, timeout, retries, cancellation | `SessionGuard`, `NetworkRecovery` |
| `GoalLoop` | the state of a goal run and its transitions, as functions | |
| `GoalRun` | `runGoalLoop` with its phases, its files, crashes and resumption | `GoalLoop` |
| `GoalRunProofs` | its theorems, and lemmas about `GoalLoop` | `GoalRun` |
| `TodoDocument` | `todo_parser.ts` and the validation of a document, as operators on lines | |
| `TodoGenerator` | `todo_generator.ts`: normalisation, generation, insertions, as operators on lines | `TodoDocument` |
| `TodoPlan` | the document of a run from input to completion, with revisions | `TodoGenerator`, `PlanReconcile`, implements `PlanRegister` |
| `PlannerProofs` | the theorems of a request, and of documents: completion and progress | `PlannerRequest`, `TodoDocument` |
| `TaskCommits` | `git.ts` and the coordinator's calls of it | |
| `TaskCommitsProofs` | its theorems | `TaskCommits` |
| `Extension` | concurrent tool calls: sidebar, outages, costs, routing of guidance | |
| `ExtensionProofs` | its theorems | `Extension` |

`MC*.tla` instantiate them for TLC.  A definition whose name ends in `_Something`
and whose comment starts with "Mutant" is a variant of the definition after it with
a plausible bug; it is there to show that a property notices such a bug and is used
by no specification.

### Correspondence of state and actions

An action is the code from one `await` to the next, because JavaScript runs a
segment without interruption.

*SteeringQueue.*  Variables carry the names of the private fields; `messages` keeps
sequence number and status only; `accepted` is a history variable.  The pump's only
await is the processor call, so `processing` is TRUE exactly during that call;
`Accept` and `Reject` are the two ways it settles, followed by the rest of the
loop body up to the next call or the exit (`PumpOn`).

*PlanReconcile.*  A task is a record of marker (`id`), title, body and checkbox; its
position is its TODO number, which validation forces to be sequential.  A digest is
modelled by what it digests (`Identity`, `FollowUpIdentity`, `AuthorityToken`), so
equal digests mean equal content.  The text before the first task, which the
authority token also covers, is left out: two documents that differ only there are
one plan here.

*PlanStore.*  `plan` is the field `markdown`, `disk` the file, `writeTail` the queue of
holders of the promise chain, `call` the operation each client has under way, with
one phase per await.  `Install` is the continuation after the rename.

*Coordinator.*  `pc` names the await at which the scheduler is suspended (list at the
top of the module).  `attempts`, `assignment`, `active`, `failure` are the local variables;
`evidence` are the attempt entries of `TASK_RESULT.md`.  A worker is one call that
reports or throws.  Continuations of settled promises are microtasks, which run
before the next event: actions that need an event (a file operation, the end of a
session, a key press) carry the guard `Quiet`, which says that no continuation is
due.  Without it TLC would report interleavings that no JavaScript engine shows.

*WorkerAssignment, WorkerSessionOwner, WorkerRecovery.*  They refine the one worker
call of `Coordinator`.  A member of `Calls` is one call of the owner's `run` with the
local variables of `run` and `runWorkerTaskAssignment`; its `pc` is the await it is
suspended at.  A session is an external object: it may give any result while it is
prompted, and its prompt may settle at any time or never.  `retained`, `active` and
`closed` are the owner's fields.  Of a session's transcript only the last result and the
assignment it answered are kept; of its context usage only whether the reuse policy
accepts it.  `phase` is where the scheduler and its network recovery are suspended; in
the phases of `Raced` the awaited promise is raced with the attempt's signal, so a
cancelled attempt leaves while the call goes on as a *forgotten* one.  Calls and sessions
are recycled when they are over; two of each are enough because the owner admits one
assignment at a time.

*SessionGuard, NetworkRecovery, PlannerRequest.*  Here time matters, so it is counted in
ticks: `Tick` lets time pass, every armed timer counts down (`left`) and, once due, fires at
any moment up to `MaxLate` ticks late, as the event loop's timers do.  The transitions of a
guarded prompt are functions rather than actions, because its caller goes on in the same
turn in which the prompt is settled or given up: `Goes` computes what `runTodoPlannerPrompt`
makes of it.  `recovery` holds the local variables of `recoverNetworkOperation`, `events` its
terminal events.  `run.pc` is the await at which `runTodoPlanner` is suspended, and `awaited`
is FALSE for a retry that lost its race and goes on by itself.  `retries` stops counting at
`MaxCount`, from where on the delay is constant.  The model is of one request with its own
list of diagnostics.

*GoalLoop, GoalRun.*  `GoalLoop` has one operator for each function of `goal_loop.ts`; the
state is the record written to `GOAL_STATE.json`, reduced to what decides: status, phase,
limits, the statuses of the iterations, the two deadlines and the events of the trace.
`GoalRun` adds the process: `run.pc` is the await at which it is suspended, and `run.task`
the phase it is in.  `state` is the variable of `runGoalLoop`, `local` those of the phase
function (`state` and `previousTraceLength`, which a review shares with a reviewer call it
has abandoned, `stray`), `saved` and `file` the two files.  `persistStateChange` is two
kinds of steps, `Save` and one `AppendTrace` for each new event, so that a failure or a crash
falls between any two of them.  Planner, workers and reviewer are calls with every outcome
they may have, at any time; the recovery of the reviewer is modelled by its calls and
pauses, that of the planner by the time it takes.  What is computed between two awaits takes
no time, and file operations neither.

*TodoDocument, TodoGenerator, TodoPlan.*  A line is a record of what the regular expressions
tell apart: its kind, the number and text they capture, and its check mark. Blank lines are left
out, because no reader starts or stops at one.  There is one operator for each function of the
two files; one that throws yields a document that validation refuses.  The parser takes fenced
lines for what they say while validation skips them, as in the code.  A text is a tuple, and
`Inside` says which lines contain a bullet without being it, for the substring tests of the
insertions.  The limit of `todoGlobalInstructions` is one of lines, `MaxInstructions`: what is
beyond it is cut, and a last line says so.  The tasks as reconciliation and the store see them
(`PlanTasks`), without headings, markers and check marks, are read here too.  In `TodoPlan` a
document is made of any input (an item of `MCInputs`), asked of a planner, completed task by
task and revised; `PlanReconcile` decides about tasks there as it does in `PlanStore`, and its
decision is turned into lines and read again.  `tasks` is what the parser reads, and
`ImplementsRegister` says that it changes as the abstract register of tasks does, which is what
all the other modules take a document for.

*TaskCommits.*  The repository is an external object of three functions from paths to
contents (`head`, `index`, `work`), of which each git command the code runs is a step,
as its await is.  The user, or a worker, may edit between any two.  `baseline` is
`protectedDirtyPathsByTask`; `local`, `origin` and `added` only record what the properties
compare with.  `Failing` is the set of commands that may fail.  A subject is reduced to
its prefix, case, period and kind.  A revision is any exchange of unfinished tasks.

*Extension.*  A call has its sidebar (`latest`, `widget`, `overlay`; `slot` is the host's one
widget slot, which all calls share), its outages (`activeNetworkRecoveries`) and its costs
(`WorkerCostState`).  `cost` is what each worker's sessions really spend, `live` and `final`
what the accounting knows of it.  `Interrupt` is the failure of a session that the network
recovery takes up, after which `session` counts what the retry spends; `FinalizeWorkerCost` is
the settlement with an outcome of the worker, and `CutOff` the one without, when a recovery is
cancelled or expires: then only the interrupted sessions' outcomes are left to count, and `lost`
notes what the code drops.  The host calls a factory it was given at any later time or never
(`BuildWidget`, `BuildOverlay`).  What a run does otherwise is left open: it may tell anything,
start workers, have them replaced, and end, in any order.

## 3. Runs

| Run | Question | Bounds |
|---|---|---|
| `steering_queue` | Are order, exclusion, wakeups and progress of the pump right for any use of the API? | 4 messages, 2 processors, 2 waiters |
| `plan_revision` | Does reconciliation keep completions, history and the running task, twice in a row? | all plans of up to 2 tasks over 3 texts, an author's marker and one that an earlier revision derived; all proposals of up to 2 unchecked tasks, and of 2 checked ones |
| `plan_store` | Do concurrent, failing, restarted calls keep the document right? | 2 clients, 2 revisions, 1 reference at a time, plans of up to 2 tasks that grow to 4 |
| `coordinator` | Do scheduler, worker, steering and store together keep the promises of a run? | 2 tasks, 2 messages, 2 attempts per task, 8 workers |
| `worker_sessions` | Are sessions owned, reused, cancelled and disposed rightly, also by calls nobody waits for? | 2 tasks (replacements included), 2 attempts, 1 retry, 1 replacement, 2 calls and sessions at a time |
| `planner_request` | Do timeout, grace, cancellation, outage deadline and settlement leave one right outcome, in any order? | limit 2 ticks, grace 0 or 1, delays 1 to 4, outage 6 or unlimited, timers 1 tick late |
| `goal_run` | Do phases, limits, files, deadlines, failures, crashes and resumption leave one true history of a goal? | 2 iterations, goal limit of 2 ticks, iteration limit of 1, 2 processes, 1 failing file operation or crash, 1 interruption of an awaited review |
| `replaced_work` | Can a result that was declared obsolete complete a task? Yes. | 2 messages |
| `owner_busy` | Does a run survive the replacement of a task in every phase of its attempt? No. | 1 retry, 1 replacement |
| `todo_document` | Is a document read back as what was written, completed and supplied again without loss, and does it tell the workers the goal? | pasted plans of one section (6 openings, 3 progress sections, 8 bodies), of two (7 bodies each, in order or not), and 4 that a fence hides; 5 lists, 5 planner's answers, 8 lines of instructions, 1 revision |
| `commits` | Does a run commit what its tasks changed and nothing else, in the user's style? | 4 paths, 3 contents, 16 starting trees, 2 tasks, 2 attempts, 2 edits, the 3 latest subjects |
| `extension` | Do two concurrent calls show, charge and route what is theirs? | 2 calls, one with 2 network operations, one with 2 workers, a cost of 1 per run, 1 message |

Why the bounds are enough: the queue treats message n as it treats message n-1, and 4 messages
with 2 processors reach every combination of paused, attached, closed and pending; the three
phases of matching distinguish marked, equal, equally titled and different tasks, and two tasks
on each side already make titles ambiguous and contents duplicate; the store's lock needs two
clients, a stale revision needs two revisions, and a late reference needs one reference that
outlives them; the coordinator's races are between one worker, one revision in flight and one
message behind it; a session is in use by one call, forgotten by at most one earlier one, and
kept across one boundary at a time, be it a task's or an attempt's; the planner's limit, grace
period, delays and outage differ by a few ticks, so that every one of these timers can fire
before, with and after each other one, and an outage of 6 has room for two retries and for a
delay that meets the deadline.  `MaxRuns` only stops runs in which the planner keeps adding
work.  A goal of two iterations has a first, a next and a last one, with a minimum of one or two
(`Limits`); its clock passes the deadline of an iteration and of the goal in every phase; a
resumed process starts from every state that one failure or crash leaves behind.  Further
processes and faults, in any number, are the theorems' part (section 4).  How long the network
may be away is left open, so the end of an outage comes in every pause and call. The inputs of
`todo_document` put headings, boxes, markers and fences wherever a reader could take them for
others, in a first and a second task, numbered in order and not; they hold the goal and its
verification as lines of their own and within longer ones, and one opening passes the limit of 8
lines that workers are given once the goal is added.  Two source files, of which one may be
changed, staged, or staged and changed back, one new, an own file and another run's, with two
edits and two attempts of two tasks, have every way in which a path becomes dirty before, during
or after the task that lists it; three edits of a file make no state that two do not.  Two
outages are needed for one to overtake another, two workers for one name to be used twice, two
calls for the shared slot and the ambiguous router; the call whose outages are told starts no
worker, and the one with workers tells no outage.  This separates no behaviours: the sidebar's
outages and the accounts are different variables, no action on the ones reads or writes the
others, and a worker's interruption (`Interrupt`) is part of the accounts.  The model so has
every order of both, also ones in which a worker is interrupted and no outage is told.  A cost
of 1 per run may fall into any session of it, the interrupted one, the retry, the one given up,
an obsolete attempt's or a second worker's; for greater costs in any distribution there is the
theorem `EverySpendIsCounted`.

The two runs with a negative answer (`replaced_work`, `owner_busy`) are disagreements between
the code and what its documents say of it; `PROJECT.json` quotes the lines.  In each the model
follows the code.

- The settlement does not look at the flag `obsolete`: a task that is dropped and
  restored while its worker's result waits for settlement is completed by it.
- A replacement that cancels a network retry while its session is being created finds
  the owner still busy; the revised task's assignment throws and the run fails.

Observations that no run covers:

- The pump resolves the callers of `waitForIdle` only where it leaves its loop
  (`steering.ts:135-160`).  As long as a further message arrives during each revision, the
  scheduler is not let go on: guidance without end starves the run.  `WaitersReleased` and
  `RunReturns` are therefore conditional on `GuidanceStops`.
- A revision that fails pauses the queue (`steering.ts:143`), and no caller of
  `retryFailed()` exists in `src/`, so that message and all later guidance of the run is held
  back, though README.md:214 says each message is incorporated and `coordinator.ts:1204`
  that it can be retried.
- `runCoordinator` detaches the steering processor at its end (`coordinator.ts:1652`)
  without waiting for a revision in flight, which then rewrites `TODO.md` after the result
  was built.
- Two tasks with equal text (the planner's document may have them) get no attempts
  attributed at all, because `attemptsForTask` (`coordinator.ts:3022`) finds no unique
  fingerprint, so a failing one of them is retried without limit although the README
  promises "up to the configured attempt limit"; `AttemptLimit` is therefore checked and
  proved for plans of different tasks.
- When an outage's deadline aborts a planner's retry, the guarded prompt takes that signal
  for its caller's and the planner notes `cancelled`, which suppresses the
  `network_failure` diagnostic that
  `docs/planner-network-cancellation-state-machine.md:14` promises
  (`coordinator.ts:1860`).
- A task that is completed, dropped and restored inherits the attempts of its first life,
  the successful one included, so it may be given up early (`coordinator.ts:3017`).
- The time limit of a task does nothing once a complete result stands
  (`worker_session.ts:790`), and no other timer is armed: a prompt that does not settle
  after that is never bounded, hence the assumption `SessionsEnd` below.
- A completed task that a revision inserted has the identity derived then for its marker.  Where
  a planner drops that marker, the code derives the same identity again for another task,
  and the completed one loses its place, or the plan that is applied differs from the one
  generated (TLC finds both without the premise `FreshIdentities` of `HistoryKept` and
  `AppliedAsGenerated`).
- Markers may be doubled by the code itself: a completed task was inserted under a derived
  identity, its text was changed since, and a proposal has its first version twice, once with
  the marker and once without; both become follow-ups with one identity.  Validation does not
  look at markers, so the document is written, and every later revision throws
  "Duplicate pi-long-task-id in previous plan" (`docs/plan-revision-semantics.md:28` and `:78` speak
  of markers in the inputs only).  The register therefore does not promise unique
  identities; it says that a document without them is not revised.
- `generatePlanRevision` accepts explicit invalidations, `applyRevision` does not pass
  them on, so a caller that used them would install another plan than the one generated.
  The coordinator never does; `AppliedAsGenerated` is stated for what it does.
- A worker's abort signal that fires while the statistics of its session are awaited
  (`worker_session.ts:700`) is noticed only when the prompt ends, because the listener is
  added after that await; `Subscribe` models it, and `RunEnds` holds because the time
  limit is armed all the same.
- `invalidateAssignment` also compares with the retained session's previous assignment,
  which is stale while the session is in use by the next one; `ExclusiveSession` of
  `worker_sessions`, by which a session in use is open, shows that the coordinator never
  asks in that state.

And of the goal loop:

- The default reviewer has no grace period, so its timeout aborts its session and
  `goal_review.ts:229` records the goal as cancelled before it looks at the timeout.
- Time lost to the network is excluded from the deadlines after generation and review
  only; an outage during discovery or execution counts (README.md:421 says it does not).
- `goal_todo_execution.ts:156` passes the time that remains as the limit of each attempt
  at a task, so an iteration may outlast its deadline by far; the loop notices afterwards.
- A failed append leaves a gap in `GOAL_TRACE.jsonl` that no later append closes, and a
  resumption, which counts lines, then appends the last events again (`lapses` excepts
  that from `Durable`).  It takes two failures for the least obvious such gap: the append of
  an interruption fails, which ends the reviewer's session, and then the state that records
  this end cannot be saved; the one fault of `goal_run` does not reach it.
- A snapshot that cannot be written after a phase was recorded fails the goal although the
  phase was done.
- A crash between the state and `GOAL_RESULT.md` loses that section of the report.
- A reviewer call that is abandoned when its outage expires still shares the variables of
  its review (`goal_review.ts:162`).  If it then ends with a network failure it records that in
  the state from before the review's own end, and saves a running state over the final one;
  `SavedGrows` excepts that.

Of TODO documents:

- A title that ends with two periods loses one each time the document is supplied
  (`SuppliedAgain` excepts it).
- A fenced answer of the planner that holds a code fence of the same length is cut there.
- A fenced identity marker is not read, but is the one that is overwritten.
- A fenced TODO heading or Progress heading in the global instructions of a pasted plan
  may lead to its refusal.
- Text between the Progress section and the first task is dropped by normalisation
  (`PlanIsFaithful` leaves such lines out).
- A revision's planner may drop the lines about the goal from a document; nothing adds
  them again (`GoalReachesWorkers` is about documents before their first revision).
- `todoGlobalInstructions` gives workers the first 6000 characters (`todo_parser.ts:284`,
  298-301).  The lines about the goal are inserted last, so a long document has them cut, though
  `docs/release-review-baseline.md:49` says that workers receive the goal.  `GoalReachesWorkers`
  says that the goal is there or that the last line tells of the cut.
- Whether a line about the goal or its verification is there already is a substring test
  (`todo_generator.ts:179`, 195): a longer line that contains it counts.  `GoalReachesWorkers`
  accepts that as said.
- Where the first Progress heading of a pasted plan is inside a fence, the instructions taken
  from it end inside that fence, and the plan laid out below them is hidden by it from the parser's
  headings and from validation up to the next fence: another plan, quoted in a section, may be
  validated in its place.  `PlanIsFaithful`, `SuppliedAgain` and the agreement of `ProgressAgrees`
  are conditional on `Unfenced`, which is false of what becomes of some inputs of the run
  (`Hidden`); completions are accepted there too.
- An item of a pasted list that is a checkbox of a TODO keeps the words "TODO n" in its title.

Of commits:

- Where `git rev-parse` or `git status` fails before a task, which counts as a clean tree
  (`git.ts:47-57`), or both commands that unstage do, files that
  were dirty before are committed; README.md:451 excludes that without a condition.
  `commits` assumes, as the theorem does, that status, the listing of staged names and `git
  reset` do not fail; nor does, in the run and in `StyleIsKept`, `git log`, which decides about
  style alone.
- What the user changes while a task is at work, between its attempts too, is committed with
  it: only what was dirty when a task was first started is told from its work, which `KeptOut`
  says of the task of each commit, and of what was dirty when the run began.
- Changes a failed commit, a replaced task or a crash before the commit leave behind are dirty
  before the next task, and so are never committed.
- `git add -A` and the unstaging that follows lose what the user had staged; the work tree
  keeps it.
- `git restore --staged` refuses as a whole where one path is unknown to git, as an ignored run
  directory is, and `git reset` after it does the work; the mutant of `KeptOut` drops it.

Of the extension:

- The widget has one slot for all calls: when one of two concurrent calls ends, it takes the
  other's widget with it, for good if the host had built that one's component.
- Guidance that comes while the ended run waits for its sessions is acknowledged and
  never read, because the processor is detached already.  `GuidanceReachesRun` only claims
  that the call is not over.
- The last update of a run may be covered by an outage whose end was never told.
- A network retry that is cancelled or expires rejects without an outcome
  (`coordinator.ts:1016`).  The worker's cost is then finalised with the outcomes of the
  interrupted sessions (1355-1376), and `finalizeWorkerCost` (2689) deletes the live cost, so
  what the retry had spent is charged to nobody, nor is what its session spends until it stops;
  an obsolete attempt that rejects loses what its latest session spent in the same way.
  README.md:423 says that accumulated costs remain intact across an outage, and :436 that they
  are aggregated exactly once across retries.  `CutOff` and `SpendUnseen` model it, and
  `SpendCounted` leaves out exactly these sessions.

### Fairness

Liveness is checked for `WaitersReleased`, `EveryCallSettles`, `RunReturns`, `RunEnds`,
`RequestEnds` and `GoalEnds`. Assumed are only the settlement of promises and the running
of due continuations: planner and worker calls end, file operations succeed or fail, and
the holder of the lock goes on. That planner calls end is due to their timeouts. That
worker calls end is what `RunEnds` checks in `WorkerRecovery`, with fairness of armed
timers and of the awaits other than a prompt; a prompt itself may never settle, with the
one exception stated as `SessionsEnd` (a session that has given a complete result when its
limit passes does end its prompt). `RequestEnds` assumes that timers fire, that sessions
are created or refused, and disposed; a prompt may never settle, and an outage without a
limit may last until the network returns or the user aborts, which the property says.
`GoalEnds` assumes `Proceed`: the process goes on, its planner and worker runs end, as the
properties above say of them, and a reviewer gives a decision or its recovery gives up; no
time has to pass for it, and no abandoned call has to end. No message of the user
has to come. `WaitersReleased` and `RunReturns` have the premise that the user stops typing at some
time (`GuidanceStops`), for guidance without end starves those who wait; the bounds of
the runs, 4 messages and 2, make the premise true in every behaviour, so what they show is
that nobody is left waiting however those messages fall. Fairness of a heavy action is written as
"not for ever ready without moving", which is weak fairness without evaluating ENABLED.

Deadlock checking is off where the modelled system may rest: a closed queue, an
applied revision, a run that has returned.

## 4. Proofs

Eight modules hold proofs; `tlapm` checks them for all values of the constants that satisfy the
assumptions named below, which TLC evaluates in the runs.  The larger inductive invariants
were model-checked before they were proved.

| Theorem | Property | Module |
|---|---|---|
| `SubmissionOrder`, `PumpAwake` | `NoGuidanceLost`, `NoStalledPump` | `SteeringQueueProofs` |
| `TypeCorrect`, `OneRevisionAtATime`, `Invariance` | | `SteeringQueueProofs` |
| `CompletionIsEarned`, `HistoryIsKept` | `CompletionEarned`, `HistoryKept` | `PlanProofs` |
| `RunningIsKeptOrStale`, `AppliedIsAsGenerated` | `RunningKeptOrStale`, `AppliedAsGenerated` | `PlanProofs` |
| `StoreImplementsRegister` | `ImplementsRegister` of `PlanStoreClients` | `PlanProofs` |
| `CheckboxIsPaid`, `RunningWorkIsCurrent` | `EvidenceBeforeCheckbox`, `ActiveWorkIsCurrent` | `CoordinatorProofs` |
| `RunFollowsRegister` | `ImplementsRegister` of `PlanStoreClients`, for a run | `CoordinatorProofs` |
| `RetriesAreBounded` | `AttemptLimit` | `CoordinatorProofs` |
| `SessionIsExclusive`, `ContinuationIsHealthy`, `ResultBelongs` | `ExclusiveSession`, `OnlyHealthyContinuation`, `ResultIsOwn` | `WorkerRecoveryProofs` |
| `NothingIsLeft` | `NothingLeftBehind` | `WorkerRecoveryProofs` |
| `StatesAreSound`, `EndIsEarned`, `TraceIsDurable` | `TypeOK`, `StopEarned`, `Durable` | `GoalRunProofs` |
| `HistoryGrows`, `PhasesStartInTurn` | `SavedGrows`, `PhaseStarts` | `GoalRunProofs` |
| `PlanComesFinished`, `OutageIsReported`, `RetriesAreAllowed` | `PlanFinished`, `OutcomeReported`, `RetryAllowed` | `PlannerProofs` |
| `CompletionIsAccepted`, `ProgressIsRead` | (the parts of `ProgressAgrees`, of any document) | `PlannerProofs` |
| `CompletionIsOneCheck` | (the completions of `ImplementsRegister` of `TodoPlan`) | `PlannerProofs` |
| `NothingForeignCommitted`, `NothingOfTaskLost` | `KeptOut`, `CompletedWorkCommitted` | `TaskCommitsProofs` |
| `StyleIsKept` | `StyleKept` | `TaskCommitsProofs` |
| `SidebarGone`, `SidebarSpeaksOfOutages` | `ScreenCleared`, `SidebarTellsOutages` | `ExtensionProofs` |
| `GuidanceGoesToTheRun`, `EverySpendIsCounted` | `GuidanceReachesRun`, `SpendCounted` | `ExtensionProofs` |

**`SteeringQueueProofs`** (`QueueAssumption`).  None of the parts of the invariant `Inv` is
inductive alone: that the pump never sleeps on work needs to know that the head is
"processing" exactly while the pump runs, and the numbering of a revised head needs its
type.  The proof splits `Inv` into facts about the array (`Shape`, `Queued`, `Numbered`),
which lemmas establish once for the helpers `WithHead`, `StartPump` and `PumpOn`; the step
of each action cites the lemma for the helper it calls.

**`PlanProofs`** (`RevisionAssumption`, `StoreAssumption`: the documents are ones the store
accepts) has three parts.

The first is about one reconciliation, of any plan with any proposal.  Each phase of the
matching is one-to-one and the phases take disjoint tasks (`MatchesOneToOne`, `PreviousFacts`);
what each task of the outcome is made of (`ReconcileFacts`); a task that is complete
afterwards continues one that was, with its text and under its identity
(`CompletionSource`), so that a revised plan has no more checked tasks of any text than the
plan before it (`CompletionCarried`); no completed task is lost (`ReconcileKeepsHistory`);
and reconciling a plan with its own outcome matches every task to itself, so that it gives the
same document (`ReconcileAgain`).

The second is a revision.  Its invariant says that the plan of the moment is the one the
revision was generated from, with more boxes checked and the same texts (`PlansInv`), and that
the two reconciliations are what `Reconcile` gives for that plan and this one (`GeneratedInv`,
`AppliedInv`).  The four theorems follow from the first part.  `HistoryKept` and
`AppliedAsGenerated` have the premise `FreshIdentities`, that no identity the revision may
derive is a marker already; it is about the plan and the answer a revision starts with, and
`FreshSecond` shows that it then holds for the second reconciliation too.

The third is the store with any number of clients, references, crashes and restarts.  `StoreInv`
says who holds the lock and that only the holder writes (`LockInv`), that every revision has its
own number (`NumbersInv`), that the plan in memory, the file and what each call holds are sound
for the revisions to come (`Sound`, `CallSound`), and that what is being written follows the
plan, and the file is ahead of memory only between the rename and the assignment (`WrittenInv`).
A step of the file is then a step of `PlanRegister`: one checkbox, or one revision in which
every completion comes from a completed task with its text, none from the same one twice, and no
completed task is reopened or rewritten under the identity it has, its marker or, where it has
none, the identity that is derived from its text.  The register does not promise that completed
work stays in the document, nor that its text is not scheduled again under another identity: the
planner may ask for both.  What becomes of completed work that a revision matches or drops is
`HistoryKept`, about one revision.  Revision numbers take part because a follow-up's identity is
a digest of one, the only reason why it differs from all markers of the plan.
`StoreImplementsRegister` has the hypothesis `Authored`: no document a run starts with contains
the identity of a follow-up, no answer of the planner does unless it was shown that one, the
tasks of a first document that have no marker have identities other than its markers, and no
answer uses as a marker the identity derived from a task that it was shown without one.  The
code justifies it as far as digests cannot be guessed: the number stands for the identity of a
message, which is made of a random UUID. The plans and answers of the runs satisfy it.

**`CoordinatorProofs`** (`CoordinatorAssumption`: the scheduler and the steering processor are
the two clients of the store, and the number of attempts is positive, as `positiveInteger` of
`coordinator.ts` enforces).  `EvidenceBeforeCheckbox` counts: for every text, at most as many
tasks are checked as there are results that complete one.  Its invariant has this count (`Paid`)
for the plan in memory, the file, and whatever a client is about to write (`DocumentInv`); and a
strict inequality (`Owed`) for the text whose completion the scheduler has asked for, in every
document its request may meet: the plan as it is, and a revision that is already being installed
(`OwedInv`).  Neither holds without the other: a completion keeps `Paid` because it was owed,
and what is owed survives a revision because reconciliation makes no checked task
(`CompletionCarried`).  The rest says who waits for what (`LockInv`, `SchedulerCallInv`,
`SteeringCallInv`, `AssignmentInv`).  `RunningWorkIsCurrent` is the part `CurrentInv`: a
worker's reference resolves as long as no revision was applied that the processor has not looked
at yet.  `RunFollowsRegister` shows that a run uses the store as the clients of
`PlanStoreClients` may, so `StoreInv` is its invariant too.

`RetriesAreBounded` is about runs whose plan never has two tasks with one text
(`DistinctTexts`): of two such tasks neither gets an attempt attributed, and the property is
false of them (section 3). Its invariant `LimitInv` says that as long as another attempt may be
made every text has failed less often than the limit, that the attempt under way has a number
beyond the failures of its text (`NumberInv`), and that once the limit is reached the last entry
of the log is the failure that reached it, for one text only (`ExhaustedInv`), which is found
again in the plan or gone (`LookupInv`).  It is not enough to count per task: a revision may
drop a task while the exhausted one is looked up, and the loop then goes on.

**`WorkerRecoveryProofs`** (`OwnerAssumption`, `RecoveryAssumption`).  The invariant has two
halves.  `OwnerInv` says who holds the owner's lock and its sessions (`Lock`, `Held`), what a
retained session is (`Kept`), whose result its transcript ends with (`TextIsOwn`) and how
shutdown proceeds (`Disposal`); lemmas show for each operation of the owner that it is
kept, whoever calls.  `ScheduleInv` says that the scheduler waits for exactly the call of
its present attempt (`Awaits`) and that no call is newer than it (`Newest`), which is what
makes a forgotten call harmless: its identity is an older one, so its result is not taken.
Calls and sessions are any sets, so the two that the run has are no restriction.

**`GoalRunProofs`** (`GoalLoopAssumption`: limits and timeouts are positive;
`GoalRunAssumption`: a caller gives natural numbers).  The first half is about `GoalLoop` alone:
`Good` says of a state that its fields have their types, that its parts tell one story
(`Consistent`, and `Tallied`, which says exactly how many events a running goal has) and that
its end is earned (`Earned`); and there is a lemma for each function of `goal_loop.ts` that it
takes a good state to a good one whose history extends the first's (`GoodNew`, `LoadedSame`,
`CancelEnds`, `FailEnds`, `StopEnds`, `IterationStarts`, `GeneratedGood`, `WorkerGood`,
`VerdictGood`, `InterruptedGood`, `ExcludedGood`).  `Consistent` alone is not kept by them: one
more record could be one too many.  The second half is about the process.  `Aim` is where it is
or will be once what it writes is written; the invariant says in terms of it where a task may be
(`ControlInv`), what a phase and a call it abandoned share (`LocalInv`, `BaseInv`, `StrayInv`),
that a phase's iteration waits for it (`PhaseInv`), what is on disk and in which variable it is
too (`SyncInv`), that what is about to be saved continues it (`GrowthInv`), and which events are
still to be appended (`FileInv`).  There is a lemma for each action.  The variable `lapses`
names what the code does wrong to the files (section 3), and the parts of the invariant say
which of these they exclude.  Working on it showed that the model did not note one such lapse,
the gap of two failures described in section 3: with it `Durable` was false, although the run,
with one fault, could not tell.

**`PlannerProofs`** has two parts.  The first (`RequestAssumption`, `RecoveryAssumption`:
limits, grace periods and delays are natural numbers, and no failure is named like an outcome of
the request) is about a request.  Lemmas say what each transition of the guarded prompt makes of
it (`PromptedFacts`, `SettledFacts`, `CancelledFacts`, `FiredFacts`) and what each of the
recovery does (`WaitFacts`, `ScheduleFacts`, `OverFacts`).  The invariant says that a guard
whose prompt is out has concluded nothing yet (`RunInv`), that a run which is being disposed of
may only have concluded what its guard allows (`Concluded`), who waits for what (`WaitInv`), and
what has been told by then (`NotesInv`, `EventsInv`).  It needs no bound on how late a timer
fires.

The second is about documents.  `CompletionIsAccepted` holds for any document that validation
accepts, with any texts, fences and quoted headings.  Lines that differ in check marks only
(`Alike`) have the same fences, headings, Status blocks and progress boxes (`SameVisible`,
`SameHeadings`, `SameStatus`, `SameProgress`), hence the same tasks and the same validity
(`SameTasks`, `SameValidity`); completion sets check marks only, and which ones
(`MarkingIsAlike`); and in a valid document the progress section precedes every Status block
(`ProgressComesFirst`), so the block of one task and the box of another are different lines.
`CompletionIsOneCheck` says of documents what the register says of a completion: the tasks that
the store and reconciliation make of the lines differ in one `done`.  Their bodies are the same
because alike sections have alike bodies (`SameBody`).  It assumes that every task has its box
in the progress section that the parser reads; otherwise its state is read from its Status
block, where a quoted box of another task counts and is set with that one. `ProgressIsRead` says
when every task has its box there: when no Progress heading, rule, TODO heading or box before
the tasks is fenced (`Unfenced`).  Then validation and the parser read from the same line to the
same line, and the k-th box there is that of task k and no other's, because positions put in
their order leave none out (`OrderIsComplete`). `todo_document` has running states of either
kind.

**`TaskCommitsProofs`** (`PathAssumption`, `TreeAssumption`, `LimitAssumption`).
`NothingForeignCommitted` also needs `Reliable`: the commands that find out what to keep out and
the one that unstages it do not fail (adding, restoring, comparing and committing may).
`KeptOut` is an action property; the invariant behind it, `IInv`, says that what is local to the
user differs from HEAD in the work tree and is in the baseline of every task that was started
(`LocalKnown`, with what was dirty when that task was first started), and that between the look
at the index and the commit a foreign path is about to be unstaged or is not staged
(`Unstaging`). The second part needs the first at the moment the excluded paths are computed,
and the first needs that a commit does not move HEAD for those paths, which is the second:
neither is inductive alone.
`NothingOfTaskLost` holds for every set
of failing commands.  Its invariant, `WorkInv`, follows a file of the task through the commands
of a commit: what was added stays staged until it is committed (`StaysStaged`), because the
baseline has only files that were dirty before (`BaselineIsOld`).  `StyleIsKept` is about users
whose plain subjects have one style that the code can see, with tasks whose titles bring none of
their own, and a `git log` that does not fail (`Styled`, which the instance of the run
satisfies).  `StyleInv` says that the subjects of the log stay alike and that the message under
way is like them; what is read, the newest plain subject, is then no matter which.

**`ExtensionProofs`** (`CallAssumption`: finitely many calls, each with finitely many workers).
The invariant `IInv` says that the router has exactly the queues of the calls that go on
(`Routed`), from which the only registered queue is that of the only such call, and that a call
that ended has closed its sidebar (`Cleared`), without which an overlay that is built afterwards
would stay.  `SidebarSpeaksOfOutages` has its own, `TellInv`: whatever a call shows, and its
latest update, which a component that is built later will show, is the latest outage or a newer
one and none that recovered (`Told`); a call that has not begun shows nothing and met no outage
(`Fresh`).  `EverySpendIsCounted` adds up sums over sets of workers and of calls: the ledger of
each call has what its workers spent, whether they run, ended or were replaced, less what
sessions spent that were given up in a retry (`Ledger`), and what was charged or waits is the
sum over the calls that ended.  The sums are folds of the community modules, which are defined
by choosing a function; the first lemmas show, by a least counterexample, that one exists and
that a sum changes by what one element changes by.

**Only model-checked.**

- Liveness (`WaitersReleased`, `EveryCallSettles`, `RunReturns`, `RunEnds`, `RequestEnds`,
  `GoalEnds`): fairness and ENABLED are out of this prover's reach.
- `PlanIsFaithful`, `SuppliedAgain`, `ProgressAgrees`, `GoalReachesWorkers` and
  `ImplementsRegister` of `TodoPlan`.  They are about documents that the generator puts together
  out of parts of other documents (`SelectSeq`, `FlattenSeq`), so that what is read from the
  result needs induction over its lines.  What is proved is about a document once it is there:
  the completions of `ImplementsRegister` (`CompletionIsOneCheck`), not its revisions nor the
  normalisation of the input.  The agreement of `ProgressAgrees` is stated for documents whose
  progress section is `Unfenced`, and `ProgressIsRead` proves it for them: a fence that is not
  closed before the Progress section hides it from validation, which may find another one quoted
  in a section, while the parser reads the first.  `CompletionIsAccepted` is what is true of all
  of them.
- `AttemptLimit` for plans with two tasks of one text, of which it is false (section 3).

## 5. Not modelled

The wording of progress events; the planning phase within `Coordinator` (a run starts from any
valid plan); the wording of prompts and results; a failing read in the coordinator's catch
block, which then reports its last snapshot; a custom `workerRunner` (the default is the session
owner); a session whose `unsubscribe` or transcript getter throws; the planner's budget, and
that requests of one run share their diagnostics (a second `cancelled` is not recorded); the
statistics of an outage (`networkWaitMs`). Of a goal run: the contents of the specification, the
TODO, the report and the snapshots, a line of the trace that is only half written, a resumption
within a process whose abandoned reviewer is still alive, and two goals in one directory.  Of
documents: the characters within a line, the tests `looksLike...` that guess what free text is,
and the display-only reading of progress.  Of commits: the quoting of paths, renames (a rename
is two paths), submodules, and a user who runs git during a task.  Of the extension:
registration and argument parsing, files given as input, the rewriting of prompts by
`input_router.ts`, and the goal tool's own updates.  Reading a goal's specification out of an
answer (`goal_discovery.ts`, `goal_spec.ts`) and rendering (`render.ts`) compute texts that no
control depends on.  The components without a module are listed with their reason in
`PROJECT.json`.

## 6. What is left

Every component whose control matters has its module, and the safety of all of them is proved
for every value of the constants, except as listed at the end of section 4.  Open are:

1. A proof that the lines of a revised document are read as the tasks they were made of, which
   would carry `StoreImplementsRegister` over to lines.
2. The register with repeated identities, if the code comes to handle them.
3. The classification of errors (`network_failure.ts`) and the choice of a thinking level
   (`thinking_policy.ts`) as operators, if a property of them turns out to matter.
