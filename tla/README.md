# LHA verification project

TLA+ models of the concurrent and persistent core of LHA, TLC runs that check
them on small instances, and TLAPS proofs for instances of any size. Paths
below are relative to the repository; `product/` stands for
`src/agent/cli/product/`.

Contents: [the system](#1-the-system), [modules and
code](#2-modules-and-code), [what the runs check](#3-what-the-runs-check),
[fairness](#4-fairness), [what is proved](#5-what-is-proved),
[findings](#6-findings), [what is not modelled](#7-what-is-not-modelled),
[plan](#8-plan), [how to run](#9-how-to-run).

## 1. The system

LHA is an agent host in Rust. `lha-core` (`src/core`) holds an in-memory agent
session that a program embeds. The product (`product/`) is a command line and
an app server around a larger runtime of its own (`agent_runtime`), which keeps
threads in rollout files and SQLite, runs tools and processes, and extracts
memories from old threads.

```
 app server / TUI / exec --submission--> submission loop --spawn/abort--> task of a turn
        ^  |                                |   ^                          |      |
        |  +-- parked requests              |   +--- active_turn (mutex) --+      | tools,
        +------- events (end of turn) ------+                                     | unified exec,
                                                                                  | agent jobs
 session --events, items--> rollout recorder --queue--> writer task --> rollout file
    ^                                                                       |
    +-------------------------- resume, by a later life --------------------+

 submission loop, tasks and their tools --conditional statements--> SQLite: thread_goals

 start of a session --> startup task --> SQLite: threads, outputs, jobs <-- pollution
                              |                                            and usage
                              +--> memory workspace (git)                  by sessions

 embedding program --API, any task--> AgentSession (mutex) --spawn--> driver of a turn
                                          |                              |
                                          +----- event channel <---------+--> kernel, tools
```

### Inventory

| component | state | operations | what is hard | what makes it correct |
|---|---|---|---|---|
| core session (`src/core/src/session.rs`, `kernel.rs`, `processor.rs`) | status, active turn, two input queues, conversation, event channel, a token per turn | run, continue_turn, steer, follow_up, abort; the driver's loop of rounds | calls of several tasks against a driver that locks and unlocks; drains in two locks; an abort that races the end of its turn | one driver; inputs once and in order; tool calls and results uninterrupted; one outcome per turn; an abort ends its turn and no other |
| readiness flag (`product/utils_readiness`) | an atomic, a token set under an async mutex, a watch channel | subscribe, mark_ready, is_ready, wait_ready | unlocked checks before locked ones; a broadcast nobody may be there to hear | ready once; no token on a ready flag; a waiter wakes |
| turns of a product session (`agent_runtime/src/tasks/mod.rs`, `codex.rs`, `state/turn.rs`) | active_turn with its pending input, an epoch, the task's handle and token, history | user input, other tasks, goal continuation, interrupt, shutdown; the rounds of a task and its end | input that races the end of a turn; a task that ends while it is aborted; killed tasks that still run | one task; no input lost or reordered; one end reported per turn; nothing after shutdown |
| app server requests (`product/app_server`) | parked interrupt requests per thread | turn/start, turn/interrupt, mapping of end events | an answer that depends on an event that may not come | every request is answered |
| memory jobs (`product/state/src/runtime.rs`, `agent_runtime/src/memories`) | threads, stage-1 outputs, job rows with token, lease, retries and watermarks; a git workspace | prune, claim, extract, consolidate, heartbeat, report; pollution and usage by sessions | several processes; crashes; leases that run out; reads and claims in separate statements; two databases | one consolidator; nothing newer replaced by older; watermarks that admit what is new; nothing polluted kept; nothing starved |
| thread goals (`product/state/src/runtime.rs`, `agent_runtime/src/codex.rs`, `tasks/mod.rs`) | one row per thread: goal id, status, usage, budget; a goal context per turn; a continuation permit | set, replace, edit, pause, clear, bill usage, complete, continue, each conditional on what was read before | a row replaced between a read and its statement; a settlement in an interrupted turn; a continuation that races user input; statements that fail | a goal within its budget; a turn ends no goal it was not told of; an active goal goes on |
| unified exec (`agent_runtime/src/unified_exec`) | reserved ids, the process store, an exit watcher per process, a bounded output buffer | open, write_stdin, prune, terminate all, report the end | work outside the lock between reserve and store; calls dropped at an await; a store at its limit | store within its limit; no live process forgotten; each end owed and reported once |
| delegated agent jobs (`agent_runtime/src/agent_jobs`) | a table of jobs with status, cancellation and completion; permits | spawn, wait, close, close_all, the watcher of a job | a spawn dropped half way; a job that registers while all are closed; exit, time limit and cancellation at once; a wait or a kill that fails; output held by a descendant | a final status that is true; a closed job is over; the limit holds; every job ends |
| rollout recorder (`agent_runtime/src/rollout/recorder.rs`) | a file, a bounded queue of commands, a writer task, acknowledgements | record, flush, shutdown, resume | acknowledgements of writes that failed; a line cut by a crash; references to items only queued; a file that no longer loads | what was acknowledged stays in the file, in order, in every later life, but for what an append behind a cut line destroys |
| approvals | a sender per turn in TurnState | request, answer, clear | an answer that names a turn and not a call; a late or second answer that meets the next call or turn | each request is answered by its own decision, or denied |
| thread manager (`agent_runtime/src/thread_manager.rs`) | a map of threads | start, resume, fork, remove and close all | a thread that starts while all are closed | none is left open |
| context manager, workflow engine, exec policy, head/tail buffer, input slimming | histories, step graphs, rules, buffers | sequential algorithms | boundaries and pairing | agreement with a reference definition |
| front ends, configuration, providers, sandboxes, utilities | - | - | - | see section 7 |

The hazards of these components, each at the line where it bites and with the
properties that would show it, are listed in `PROJECT.json`.

## 2. Modules and code

Every module abstracts data to what its properties can tell apart and keeps
control. A step is what the code does under one acquisition of a lock, in one
statement or transaction of the database, or between two awaits.

| module | models |
|---|---|
| `SessionLedger` | the promise of an agent session: turns one at a time, inputs moved from their queue to the transcript whole, once and in order |
| `AgentSession` | the session of `src/core`: host calls, driver, kernel, tool futures, events; refines `SessionLedger` |
| `ReadinessFlag` | the flag: its mutex, its atomic and its watch channel |
| `TurnTasks` | the submission loop of a product session, the task of each turn, active_turn, and the app server's parked interrupts |
| `MemoryJobs` | the startup task of each session, both phases, against the job tables and the workspace, with the sessions that use and pollute memories and with time |
| `UnifiedExec` | the store of background processes, the tool calls that open and poll them, exit watchers, terminate_all_processes |
| `AgentJobs` | the table of delegated jobs, the calls on it, the watcher of each job, the shutdown |
| `RolloutLog` | the promise of a rollout: items in order, each once, and none that was promised lost but by the append after a cut line |
| `RolloutRecorder` | queue, writer and file over several lives of a session, with its callers; refines `RolloutLog` |
| `ThreadGoals` | the goal of a thread, the turns that work for it, and the continuation |
| `MC*` | the symmetries of the checked instances |
| `*Proofs` | theorems, each in a module that extends the one it is about |

Definitions whose name begins with `Mut` are seeded faults: what a definition
would be with a plausible bug. Nothing refers to them; they serve to show that
a property can fail.

### AgentSession

`status`, `active`, `queue`, `blank`, `conversation`, `nextSub` are the fields
of `SessionState` behind its one mutex. `hpc` is where a call of a host stands
between two locks: `Run` and `ContinueCheck`/`ContinueAcquire` take the slot,
`Launch` spawns the driver, `Enqueue` is steer and follow_up, and an abort is
three steps (`AbortCapture` reads the turn's token, `AbortAnnounce` emits
Aborting, `AbortCancel` cancels), because the code emits and cancels after it
has unlocked. `dpc` is where the driver of a submission stands in
`run_turn_loop`: draining takes the lock twice (`DrainInputQueue`, then
`AppendItems`), and freeing the slot (`Release`) and the Idle event
(`Announce`) are two steps. `OpenStream` is the await of the model's answer to the
request, which no cancellation reaches. Items are named by the queue they came
through and a number. A `blank` input has no item and still starts a round.

### ReadinessFlag

Each access to the atomic, each acquisition and release of the mutex and each
access to the channel is a step. A mutex that is contended may time out
(`LockTokens`). `Send` stores nothing when there is no receiver, as
`watch::Sender::send` does. `Dropped` is the waiter's task being aborted.

### TurnTasks

`lpc` is the submission loop, which handles one operation at a time; the steps
`Take`, `Cancel`, `Kill`, `Mark`, `Report` are `abort_all_tasks`, and `Spawn`
is `spawn_task_if_idle`, whose refusal `spawn_task` ignores. `tpc` is the task
of a turn: rounds of drain, request, stream, tools, then the decision to close
the window for input, and `on_task_finished` in its two parts, the locked one
(`RemoveTask`) and the report (`Complete`). `handle.abort()` takes effect at a
yield: after `Kill` a task may take any step that does not wait for the model
or for a tool, until `Die`. `strays` are the inputs such a task touched. Turn
kinds other than regular (compact, undo, review, shell) read no input and are
one kind here (`OtherTurn`, `Work`), which also stands for a regular turn without
any input, that returns at once (`codex.rs:6041`).

### MemoryJobs

A worker is the startup task of one session, in a process of its own. The rows
of `jobs` are records: `lease` and `due` say whether `lease_until` is ahead and
`retry_at` is past, `left` is `retry_remaining`, and an owner that died or let
go is `Gone`. Reads and the upserts that follow them are separate steps, as
they are separate statements: `Scan`/`Look`/`Take` claim a stage-1 job of the
newest threads that are not too old (`Eligible`, `ScanLimit`),
`LookGlobal`/`ClaimGlobal`/`ReadMark` the global one. Reports are single steps,
as they are transactions. The cooldown after a success is looked at by the read
(`runtime.rs:731`) and not by the upsert (`:744`), and so it is here. The
workspace is the set of memories its input files hold (`files`), those the
handbook was made from (`book`), and the committed baseline of both (`base`). It is
changed file by file: `Prune` removes what is not selected and only warns of what it
cannot remove (`stuck`), `Sync` writes what is, `Diff` compares and makes a
repository if there is none, `ResetBaseline` and `Commit` replace it.
Marking a thread polluted is three steps, since it reads one database, writes
the other and returns to the first. `late`, `stale` and `missed` are history
variables that the properties need: who lost a lease while at work, and whose
selection misses a change.

### UnifiedExec

`reserved`, `stored` and `since` are the `ProcessStore` behind its lock: the ids
handed out, the entries, and `last_used` as an order. The n-th `exec_command`
opens process n under the id `id[n]`. The tools do not support parallel calls, so
`stage` and `at` are the one call in flight: `Allocate`, the handler's decision
(`Handle`), `OpenFails`/`Open`, `Begin`, `Store` (prune, insert and spawn the
watcher) with its `Warn`, `Refresh` at the end of a poll, or `EndShort` and
`Release` for a command that was over at once; `Write` is write_stdin. `Drop` is
an interrupt at any await. `DrainStore` and `TerminateDrained` are
`terminate_all_processes`, which runs outside any call
(`tasks/mod.rs:241`, `codex.rs:5219`, `:5771`). `loose` are processes stored
under an id that somebody cleared from the reserved ones, `dropped` those whose
call was dropped before their end had an owner: what the properties except.

### AgentJobs

The steps of `spawn` are `Reserve` (a permit, an id), `Launch` (the files and the
child) and `Register` (table and watcher, under the lock); a call may be dropped
between any two. The watcher decides (`DecideExit`, `DecideTimeout`, `DecideCancel`,
or `DecideLost` when waiting for the child returns an error), waits for the reader
of a review's output (`pipe`, `PipeEnds`), then sets, persists and completes, and
frees its permit, each a step, as each is an await. An error of a wait or of a kill
(`Err`) leaves the child as it is. `close` waits for completion, not for the status.
`CloseAll`, `CancelNext`, `AllCancelled`, `AwaitNext`, `AllClosed` are the shutdown
over its snapshot of the table.

### RolloutRecorder

`file` is a sequence of complete lines, `tail` what stands after them: nothing, a
line without its newline, or a fragment, which is `Bad` when the cut fell inside a
character of several bytes. A write puts a line (`Put`) or cuts it (`Cut`); the next
append is glued to what the cut left and both may be lost, which `spoiled` records.
`CanLoad` is the reader: the text must be UTF-8, and the first line that parses the
meta data. What a file that does not load holds is not `Readable`. `chan` is the
bounded channel, `writer` the loop of `rollout_writer`, which a failed write ends,
and with it the queue and every acknowledgement. A caller clones the recorder out of
its lock (`Begin`, `Clone`) and uses the clone later, although a shutdown may have
taken the recorder meanwhile. It records items (`Queue`), flushes (`Flush`) or both;
`call` says for what, since an event delivered after a flush, a stored input and a
compaction that refers to stored inputs each lean on the order in their own way.
`Crash` kills the process, `Stop` ends a life in peace, `Start` begins the first
life or resumes a file that loads. The recorder does not sync, so a crash here is
one of the process, not of the machine.

### ThreadGoals

`goal` is the row and each statement on it one step, with its WHERE clause as a
guard. Any of them may fail, and changes nothing then; the code tells the user or
the model, or logs it and goes on. The thread is new, forked from one with a goal,
or resumed with one (`Stored`: of any status, partly used). `pc` is where the loop
and each task stand. Settling usage is the two steps `Lock` (the checkpoint lock,
the row read, the accounting mode chosen by its status) and `Bill` (the statement,
the checkpoint moved on), with `seen`, the total, read before the lock as in the
code; it precedes displays and goal requests, tools, and the end of a turn. The
loop's requests are the `Ask*` actions; `start_thread_goal_from_proposed_plan` is a
read and `AskSet`, and has no action of its own. `Take`, `Kill`, `Killed`,
`Pause`/`Drop` are an abort, in which a statement of the killed task has run or
never will. `Check`, `Again` and `Spawn` are the continuation. Time is a Boolean of
`Bill`: a second is owed or not. Goal ids are handed out up to `MaxGoal`; a request
for one more is refused. `told` and `strays` remember which goals a turn was told
of, `rest` that the goal waits for the user: after an interrupt or a refused plan,
as the session was resumed, or because a read of it failed (`Missed`).

## 3. What the runs check

Twelve runs, one per question. All pass but `flag_lost_wakeup`, in which TLC
finds that the code does not do what its documentation says (section 6).

| run | instance | checks |
|---|---|---|
| `session_safety` | 2 hosts, 2 submissions, 2 inputs, 2 model outputs, no abort | `InputOnce`, `NoInputInsideToolRound`, `ToolAnswersInOrder` |
| `session_abort` | 2 hosts, 2 submissions, 1 input, 1 output, 1 abort; fair | `TurnGrammar`, `OneDriver`, `AbortHitsItsTurn`, `DroppedOnlyBeforeStart`, refinement `ImplementsLedger`, `AbortEndsTurn`, `TurnEnds` |
| `flag` | 3 tasks, 2 tokens; fair | `ReadyOnce`, `NoTokenOnceReady`, `BroadcastWakes` |
| `turn_safety` | 2 turns, 3 inputs, 1 interrupt, shutdown | `CleanEndKeepsInput`, `InputsInOrder`, `ReportedTurnIsOver`, `OneTask` |
| `turn_reported` | 2 turns, 1 input; fair | `TurnReported` |
| `memory_safety` | 2 sessions, 1 thread updated twice, 1 crash or failure, leases that run out under live workers | `OneConsolidator`, `MissedIsVisible`, `OutputNeverOlder` |
| `memory_live` | sessions one after the other, 2 threads, a scan of 2, 1 retry, 2 crashes or failures, a thread that turns polluted, is used and ages; fair | `SuccessMeansConsolidated`, `PollutedForgotten`, `ExtractedInTheEnd` |
| `exec` | 4 commands, 4 ids, a store of 3 that spares 1 and warns at 3, 1 terminate_all_processes | `StoreBounded`, `LiveIsKept`, `EndOwed`, `PruneSpares` |
| `jobs` | 2 callers, 2 spawns, one of them a review, 1 permit, 1 child that cannot be awaited or killed, a shutdown; fair | `StatusIsTrue`, `ClosedIsOver`, `LimitHeld`, `SurvivorsAreLate`, `EveryJobEnds` |
| `rollout` | 2 callers, a queue of 2, 3 items, 3 lives | `ToldIsReadable`, `OnlyFirstSpoiled`, `DanglingIsSpoiled`, refinement `ImplementsLog` |
| `goals` | 2 turns, 2 goals, 1 token, 2 requests, a budget of 1, edits to active, no goal or a stored one (new, or paused with its budget used up); fair | `BudgetHeld`, `StaleTurnEndsNoGoal`, `GoalGoesOn` |
| `flag_lost_wakeup` | 2 tasks; fair | `WaiterWakes` fails |

Properties that a module defines and no run lists were checked on these
instances while they were written. They are proved for every instance (the
type invariants, `StatusMatchesTurn`, `OnlyTheTurnWrites`, `InputInOrder`,
`SubmissionsInOrder`, `RefusedOnlyWhenReady`,
`StoppedIsQuiet`, `SpawnNeverRefused`, `EndOnce`, `WaitMeansReady`, and `InOrder` and
`Honoured` of `RolloutLog`), or are not satisfied (section 6).

Why the bounds are enough to be interesting:

* Two submissions are the least at which the old driver, still about to
  announce Idle, meets the next turn, and at which a late abort could hit the
  wrong one. Two hosts are the least at which a check and an acquisition are
  separated by another call. Two inputs and two outputs give an order to
  violate, a tool call with its result, and an input that comes in between.
  Aborts are in a run of their own since they cut rounds short and would hide
  what completed rounds must satisfy (`ToolAnswersInOrder` speaks of rounds
  nothing interrupted); under aborts the refinement says that an input is not
  written twice, and `DroppedOnlyBeforeStart` which input is not written at all.
* Three tasks and two tokens are a marker, a poller that finds the set empty,
  and a subscriber or waiter in between.
* Two turns are the one that ends and the one that replaces it; three inputs
  are one that starts a turn, one injected, and one that comes while the turn
  decides to end.
* Two sessions and two updates of a thread are the least at which an older
  claim meets a newer output, and a late consolidator its successor. One fault
  is enough for each crash point; with one retry it exhausts a job.
  Liveness needs the claims to compete, so there are two threads for one claim
  per startup, and more faults than retries: one fault exhausts a job and another
  cuts what the code does about it. `ExtractedInTheEnd` and `PollutedForgotten`
  except a job as long as its retries are used up, which the code gives up by
  design; a scan of two reads both threads, so that only the age limit drops one.
* Four commands over a store of three are the least at which pruning has a
  choice, comes twice, and reuses an id that was cleared; one protected process
  is the least that tells protected from not; a warning at three comes together
  with a prune. One `terminate_all_processes` can fall into each gap of a call.
* Two callers and two spawns for one permit are one job in the way of another and
  a caller that closes what the other spawned; the shutdown comes at any time. One
  review and one error can meet in one job, or one be in each.
* Three lives are the one that cuts a line, the one that appends to it, and the one
  that reads what came of both. Three
  items are a stored input, a reference to it and one in between, or a batch of
  two and its successor; a queue of two blocks.
* Two goals are one that is read and the one that replaced it; two turns the one
  that ends late and its successor; two requests one to set a goal and one to change
  it. A single token spends the budget of one. A stored goal adds one that a user
  must resume or edit, and the paths on which the budget is used up before a turn
  began. Instances with a second token were explored in part only; `BudgetHeld` and
  `StaleTurnEndsNoGoal` are proved for all of them.
* `MaxMark` bounds how often a thread is marked polluted again; `Busy` bounds
  which threads turn polluted, are used and age.

Distinct states: `session_safety` 852,010, `session_abort` 309,356, `flag`
11,124, `turn_safety` 1,412,907, `turn_reported` 18,445, `memory_safety`
4,184,560 (up to the symmetry of the sessions), `memory_live` 907,096, `exec`
3,658,966 (up to the symmetry of the ids), `jobs` 1,299,798, `rollout` 1,999,523
(up to the symmetry of the callers), `goals` 1,580,006.

Deadlock is checked for `AgentSession`, `ReadinessFlag` and `MemoryJobs`, which
state their quiescent states as steps (`Quiescent`, `Rest`) or never stop. The
other modules stop when their bounds are spent or their session has shut down.

Each property of a passing run is known to fail on a seeded fault in a
definition that models code.

## 4. Fairness

* `AgentSession`: weak fairness of each driver's own steps and of each call's
  later steps, which tokio's scheduling gives a task that can run. No word of a
  stream and no answer of a tool is part of it: `AbortEndsTurn` must hold without, as
  the stream is read and tools are awaited under the token. The request that opens
  the stream is awaited without the token (`session.rs:391`), so that
  `AbortEndsTurn` assumes that the model answers it (`Opens`), and is not satisfied
  without (`AbortEndsHungTurn`, section 6). `TurnEnds` assumes all answers,
  explicitly (`Answers`).
* `ReadinessFlag`: weak fairness of each task's steps inside a call. Nobody is
  assumed to call.
* `TurnTasks`: weak fairness of the loop's own work and of each task, which includes
  that a tool, and a user whose approval it waits for, answers in the end. A model
  may call tools or overflow its window round after round, and no scheduler
  rules that out; `TurnReported` therefore assumes strong fairness of opening a
  stream (`Observe`) and of an answer that asks for no follow-up (the
  `~follow'` case of `Completed`): a model that answers in the end.
* `MemoryJobs`: sessions keep starting, a startup task that can run does, and
  time passes. The heartbeat on the timer is not needed for progress, so only
  the confirming one is fair. Faults are bounded, hence finitely many. Nothing is
  assumed of the users, so that a thread may age or a polluted one wait for its
  session to report it.
* `AgentJobs`: the watcher of a job that can run does, which includes that the
  timer of its time limit runs out, and a shutdown that began goes on. No child is
  assumed to end and nobody to close, nor a process to let go of the output of a
  review: `EveryJobEnds` speaks of jobs whose output nobody holds any more. A kill
  is assumed to return, with an error or not.
* `ThreadGoals`: weak fairness of the loop's own work and of the tasks' steps
  together. Nothing is assumed of the user, nor that a model ends its turn:
  `GoalGoesOn` speaks of an idle session, and of a goal whose continuation no failed
  read dropped.
* `UnifiedExec` and `RolloutRecorder` are checked for safety. A command's end is
  stated as owed by somebody (`EndOwed`), which needs no fairness.

## 5. What is proved

TLAPS proves the following for every number of hosts, tasks, turns, sessions,
threads, inputs, retries, processes, jobs, items, lives and goals. The only
assumptions are those on the constants (`BoundsAssumption`, `FlagAssumption`,
`TasksAssumption`, `MemoryAssumption`, `BaselineAssumption`, `ExecAssumption`,
`JobsAssumption`, `RolloutAssumption`, `EditsAssumption`, `StoredAssumption`), and
`~Slow` where stated.

| module | theorems |
|---|---|
| `AgentSessionProofs` | `TypeCorrect`, `StatusCorrect`, `OneDriverCorrect`, `AbortCorrect`, `WritesCorrect`, `SessionImplementsLedger`, `ToolRoundCorrect`, `GrammarCorrect`, `AnswersCorrect`, `InputOnceCorrect`, `SubmissionOrderCorrect`, `DropCorrect`, `InputOrderCorrect` |
| `ReadinessFlagProofs` | `ReadyOnceCorrect`, `NoTokenCorrect`, `RefusedCorrect`, `WaitCorrect` |
| `TurnTasksProofs` | `TasksTypeCorrect`, `OneTaskCorrect`, `SpawnCorrect`, `ReportedCorrect`, `StoppedCorrect`, `CleanEndCorrect`, `InputsInOrderCorrect` |
| `MemoryJobsProofs` | `MemoryTypeCorrect`, `OneConsolidatorHolds`, `OutputNeverOlderHolds`, `MissedIsVisibleHolds`, `SuccessMeansConsolidatedHolds` |
| `UnifiedExecProofs` | `ExecTypes`, `NoProcessLost`, `OneEnd`, `NoEndForgotten`, `StoreWithinLimit`, `PruningSpares` |
| `AgentJobsProofs` | `JobsTypes`, `TrueStatus`, `ClosedOver`, `LimitKept`, `LateSurvivors` |
| `RolloutRecorderProofs` | `RolloutTypes`, `ToldStays`, `FirstOnly`, `DanglingOnlySpoiled`, `RecorderImplementsLog`, `ReadBackCorrect`, `BrokenForEver` |
| `ThreadGoalsProofs` | `GoalsTypes`, `BudgetKept`, `NoStaleEnd` |

The arguments:

* **Agent session.** `OneDriver` does not survive a step by itself: a driver
  that has released the slot is still there, and a host that acquired it has no
  driver yet. `SlotInv` adds that a call that acquired has the only claim to the
  slot, that its driver is unborn, and that numbers not handed out yet were
  never driven. `HoldInv` adds
  where a driver may have items in hand. With both, a step maps to a step of
  the ledger or to none under the mapping that counts drained items as written,
  which is the refinement. `AbortInv` ties each token cancelled, and each host
  about to cancel, to an abort call that captured that submission.
* **Tool rounds.** `NoInputInsideToolRound` speaks of results, which come after the
  input that would be in their way. `OpenInv` says so one step earlier: as long as a
  call waits for its result, no input stands behind it. A driver that records input
  has no call waiting, and by `SlotInv` no other driver has (`CallInv`); that
  outputs are numbered as they come tells the calls apart.
* **Answers of tools.** `ToolAnswersInOrder` is inductive on top of `SlotInv` and
  `CallInv`: the next call gets a number above all others, so it stands last among
  the futures, and a result is recorded for the first of them, which has the least
  number without a result.
* **Events of a turn.** `GrammarInv` says of each submission that its events
  are rounds (`Rounds`) and what the last of them is at each place of its driver
  (`Stands`); the latter is what an event that is sent next meets. The property's
  `Max` of a set is replaced by "the event right before", which a step that
  emits for another submission leaves alone. `TurnsInv` adds that only the latest
  submission can be active and that no event names a later one, hence
  `SubmissionsInOrder`.
* **Input, once and in order.** `InputOnce` counts places, and cardinality does not
  survive a step by itself. `AllOnce` says the same with a witness: for each
  input there is one place and one index. A step moves one store behind another
  and leaves the first one empty, or appends one item; what is in a driver's
  hands before a drain is nothing (`HoldInv`), so nothing is overwritten.
  `OnceInv` adds that who was not begun yet has nothing in hand. `FlowInv` says of
  each queue that conversation, hands of the active driver and queue are, in this
  order, rising, and that no number is above the last one handed out, so that a new
  input may stand behind all. `DropInv` says what a driver may hold when it
  is gone: the input of its turn, cancelled on top of its loop before it reported a
  round.
* **Readiness flag.** `FlagInv` says that only the holder of the mutex is at a
  locked step, that a poller about to swap still sees the empty set it locked,
  and that the flag tells whether some call won. `TokenInv` says that every token
  ever handed out is in the set until the flag is ready. `WaitInv` says that who
  broadcasts does so for a ready flag, and that the channel holds no other value.
* **Turns.** `TurnInv` is four parts: turns past the last one spawned are
  untouched (`FreshInv`); a task that can still work is the active turn, or the
  victim that the loop has taken and not yet killed (`WorkInv`); a turn that
  was cancelled, killed, reported or is past its removal is not active
  (`OverInv`); and nothing is active while the loop is between `Take` and the end
  of `Spawn`, because the loop is the only spawner (`LoopInv`). `BoundInv` keeps
  the bounded counters within their types.
* **Input of a turn.** `CleanEndKeepsInput` says nothing of a turn that has not
  ended. `KeptInv` says where each input is until then: in the history, still to be
  recorded by the turn it started, in the buffer, in the task's hands, or given up
  by a turn that was cut. What is left to show is that the buffer is empty at a
  clean end (`ClosedInv`). That rests on the epoch (`EpochInv`): a request that saw
  no need for another round saw an empty buffer, and an input that came later raised
  the epoch above the one the request observed, so that the check under the lock
  finds it. `VictimInv` (who is killed was cancelled) and `PlaceInv` (how place, kind
  and outcome of a task agree) exclude the turns the property does not speak of.
* **Order of input.** What is recorded, in the hands of a task that was not killed,
  in the buffer and in the loop's item are, in this order, one rising queue
  (`RisingInv`, `QueueInv`), without repetition (`ApartInv`) and with nothing above
  the last number handed out (`SentInv`). A task that was killed keeps what it held
  and may still record it: the property makes that exception, and `OrderInv` shows
  that it needs no other.
* **One consolidator.** `LeaseInv`: whoever is at work on the workspace and was
  never late owns the running job, and its lease is ahead. A claim needs the
  lease to be over, which made the owner late in that very step.
* **Watermarks.** `MissedIsVisible` alone is not inductive, since a success sets
  the consolidated watermark to the greatest of the claimed one and the
  selected sources. `WatermarkInv` bounds all of these by the input watermark
  (`SourcesInv`, `MarkInv`, `SelectedInv`), strictly for a worker that chose
  its inputs before a change (`StaleInv`), because each change raises it.
* **Workspace.** `SpaceInv`: past the removal the inputs hold nothing but the
  selection and what could not be removed, past the writing all of the selection
  (`SyncedInv`); the handbook is made of these inputs once it was written, and a new
  baseline of both (`WrittenInv`); and a baseline, or the lack of one, only ever
  stands for a handbook that agreed with its inputs (`BaseInv`), so that "no changes"
  means "up to date" whatever a crash left. It needs `~Slow`: two workers of which one
  outlived its lease may write at the same time.
* **Processes.** `ExecInv`: an exec that was not drawn yet is untouched
  (`DrawnInv`); no two stored processes share an id, each is `loose` or has its id
  reserved, and the id a call just drew is shared with loose processes only
  (`IdInv`); the call in flight is about
  the exec it drew, at a stage that fits (`CallInv`); and the ends sent, the
  watcher and the process agree (`EndInv`). `LiveIsKept` needs `IdInv`, since only
  an entry under the same id is replaced without being terminated.
* **The store.** `since`, which entries were used since an entry was, orders the
  store strictly (`UseInv`), so that a store with entries, being finite, has an oldest one
  (`OldestExists`, by the pigeonhole principle), and a full store has one that is
  not protected, because fewer are protected than it holds. Hence a full store is
  pruned before each insert (`StoreInv`), and what is pruned is the oldest of its
  kind.
* **Jobs.** `JobsInv`: who is in the table has a watcher (`TableInv`); a caller
  between reservation and registration owns a job nobody else knows
  (`CallerInv`); status, verdict, completion and child agree with where the
  watcher stands (`WatchInv`), which is what makes a completion mean a final
  status, output that was read, and a child that is gone, or could not be awaited or
  killed; and a job the shutdown counts as over is
  completed, what it listed is in the table, what it has stopped awaiting is over, and
  once it has closed everything it listed is (`CloseInv`). `LimitHeld` counts
  permits: each child that is not an orphan, and could be awaited and killed, belongs
  to a job that holds one.
* **Rollout.** `RolloutInv`: written, in the batch and in the queue are, in this
  order, the items of this life with no gap (`QueueInv`); who waits for an
  acknowledgement stands in the queue behind all it asked for (`WaitInv`); what was
  told is on disk or spoiled (`ToldInv`); what an item refers to is in front of it
  (`RefInv`); and only the first item of a life meets a tail that is not clean
  (`FirstInv`). That the file loads needs that the meta data are its first line if
  they are a line at all, and were written before anything was told (`FileInv`): hence
  a text is loaded if it is UTF-8 and has the meta data in it (`LoadInv`), and what is
  told is readable up to the three exceptions that `ToldIsReadable` and the other
  two name.
* **The log.** `RecorderImplementsLog` maps the file to the items that stand in it,
  through `Filter`, a recursive function on sequences, and a file that does not load
  to a log that is broken for its readers. What is needed of it
  (its value on an appended item, that it keeps order and members) is proved by
  induction over the naturals as a set (`SetInduction`, from the well-foundedness
  of `<` on them), since the library's schemes take an operator. A line
  that is written whole or cut before its newline maps to one more item of the
  log, an append behind a cut line to the loss of one or two, a cut inside a
  character and the loss of the meta data to the log's breaking, and a crash that cuts
  nothing to no step. That the item is new and in order is `LaterInv`: what is
  still queued comes after all that is on disk or destroyed.
  `ReadBackCorrect` draws from the refinement what a reader of the file relies on:
  what a reader gets is in order, and everything promised unless lost or broken
  (`InOrder`, `Honoured`); `BrokenForEver`, that no later life mends the file.
* **Goals.** `BudgetHeld` is inductive by the statements alone (`RowInv`): each
  accounting mode limits an active goal, so that no read before a statement
  matters. `NoStaleEnd` needs `CtxInv`: what a turn expects it was told of, by its
  context, a display or its own creation. `PcInv`, `SettleInv`, `AimInv`,
  `ReadyInv` and `LoopInv` say at which steps a settlement, an aborted turn and a
  turn about to start exist.

Model-checked only: the liveness properties (`AbortEndsTurn`, `TurnEnds`,
`BroadcastWakes`, `TurnReported`, `PollutedForgotten`, `ExtractedInTheEnd`,
`EveryJobEnds`, `GoalGoesOn`). They need fairness and ENABLED, which are out of the
prover's reach. Every safety invariant, action property and refinement that a
run checks has a theorem.

## 6. Findings

`wait_ready` may sleep for ever on a ready flag: `mark_ready` broadcasts on a
channel that stores nothing without receivers, between the waiter's check and its
subscription (`product/utils_readiness/src/lib.rs:172`). Run `flag_lost_wakeup`.

### Seen while modelling

Five more statements of the code, and two that a reader would expect, are not
satisfied. Each is a definition of its
module; TLC shows the behaviour when the definition is given to the run named
here in the place of its properties.

* `ContinueNotAfterAssistant` (`session_safety`): `continue_turn` checks the
  history under one lock and takes the slot under another
  (`src/core/src/session.rs:107`), so that a turn may continue from an assistant
  message, which the error it has for this says cannot happen.
* `TurnEndsOnce` (`turn_safety`): a turn may be completed and aborted, so that a
  client sees `turn/completed` twice (`tasks/mod.rs:184`).
* `AcceptedInputKept` (`turn_safety`): input accepted by a turn that then fails,
  or that is not a regular turn, is dropped without an error (`tasks/mod.rs:233`).
* `InterruptAnswered` (`turn_reported`, with an interrupt): `turn/interrupt` is
  not answered when its turn ends first
  (`app_server/src/codex_message_processor.rs:3851`).
* `DeliveredIsOnDisk` (`rollout`): an event is to be delivered only once it is
  flushed (`codex.rs:3595`), but `persist` and `flush` only log an error
  (`codex.rs:4228`, `:2761`) and the event is delivered in any case, for instance
  when the writer has ended (`recorder.rs:705`).
* `AbortEndsHungTurn` (`session_abort`): an abort does not end a turn whose request
  was never answered, since the driver awaits it without its token, and under the
  lock of the runtime session (`src/core/src/session.rs:389-392`).
* `EveryReviewEnds` (`jobs`): a review does not end while a descendant of its child
  keeps the pipe of its output open, although the job was killed or ran out of its
  time; `close` and `close_all` wait for it, without limit
  (`agent_jobs/mod.rs:943`).

With no statement of the repository to hold them to:

Memory jobs

* A claim of the global job that read the row just before another session's
  success goes through within the cooldown (`runtime.rs:731-754`).
* Pruning looks at `last_usage` before `source_updated_at`
  (`runtime.rs:626-657`): a memory extracted again but last used long ago is
  deleted before anybody consolidated it, and not extracted again.
* A stale claim of an older update that finds no memory deletes the output of a
  newer one (`runtime.rs:413-465`). The thread is then extracted again.
* A success does not restore the retries of a stage-1 job
  (`runtime.rs:351-411`), so that failures add up over the life of a thread, and a
  thread whose retries are used up is never extracted again.
* A summary that cannot be removed is only warned of (`storage.rs:94-102`): the
  handbook is then made with it, and the success is recorded.
* A `git rev-parse` that fails for any reason counts as "no repository"
  (`baseline.rs:110-129`): the workspace is committed anew as it is, and its changes
  look consolidated.
* `mark_failed` gives the global job back before the consolidation agent is shut
  down (`memories/phase2.rs:387-414`), so that the agent may still write.

Unified exec

* A process that is opened while `terminate_all_processes` runs is stored under an
  id that is not reserved. A later command may draw the same id and replace it:
  the live process is then in nobody's hands, and clean does not end it.
* A reserved id is never released when `intercept_apply_patch` fails
  (`handlers/unified_exec.rs:172`) or the call is dropped.
* A call dropped while it warns (60 processes and more) leaves a stored process
  without a watcher: its end is never reported.

Delegated jobs

* A spawn dropped at the lock of the table leaves a child that runs, is in no
  table and is not killed with its future.
* Completion is sent before the permit is given back, so that a spawn right after
  a close may be refused.
* `status.json` stays "running" when the child cannot be started.
* Errors of waiting for a child and of killing it are passed over
  (`agent_jobs/mod.rs:929-939`): the job is final and closed and gives its permit
  back, while its child may run on.

Rollout

* A line cut by a crash stays without a newline, and the first item of the next
  life is glued to it: that item is lost, even if its flush was acknowledged. A
  tail that misses nothing but its newline is loaded once and lost with the next
  append.
* When that tail is the line of the meta data, everything is lost: the next load finds
  another line first and refuses the file (`recorder.rs:514-516`).
* When a line is cut inside a character of several bytes, the text is not UTF-8 and
  the whole file is refused, from then on (`recorder.rs:493`).
* Stored inputs count as durable when they are queued (`codex.rs:4283`). The queue
  keeps its order, so that a reference seldom outlives its text; but an entry that is
  glued to a cut line is lost, while it counts as durable for the rest of this life,
  and compactions go on to refer to it. `DanglingIsSpoiled` says that this is the only
  case.

Goals

* A token may be billed twice: the total is read before the checkpoint lock is
  taken, so that a slower settlement moves the checkpoint back; the settlement of
  a turn that has left active_turn counts tokens of the next turn; a statement
  whose task was killed may run and is billed again by the abort; and between the
  binding and the baseline of `create_goal` a display bills the new goal from the
  old checkpoint. Tokens may be billed to nobody too.
* A read that fails in `maybe_continue_active_goal` consumes the permit to continue
  and is only logged (`codex.rs:2704`, `:2722`); nothing asks again before the next
  turn ends, so that an active goal may wait for the user.
* An interrupt pauses only the goal that the turn knew.
* `clear_thread_goal_and_start_from_proposed_plan` makes the programmer the
  identity without asking for a continuation; when it is refused, an active goal
  waits for the next input.
* An edit keeps the id of the goal, so that a turn that was told of the old
  objective may complete the edited goal.
* `update_goal` may turn a complete goal into a blocked one.

## 7. What is not modelled

`PROJECT.json` lists every component with a reason. In short: planned are the
ones of section 8. Out of scope are text and wire formats (providers, protocol
types, patches, rendering), pure file and system calls (sandboxes, message
history, rollout listing), configuration, and dispatch.

Inside the modelled components:

* `AgentSession`: no subscriber with a cursor into the event channel (so not
  `run_collect_text`'s choice of the first Idle); builder options, such as an initial
  conversation; the text of items.
* `TurnTasks`: approvals, thread_rollback, session_status; panics of a task;
  locks held across awaits. A turn's processes are in `UnifiedExec`, its goal in
  `ThreadGoals`: the three share only when a turn is active.
* `MemoryJobs`: the agent's writes are one step, so that a late agent's writes
  are not interleaved with those of its successor; a process that takes its
  thread out of the enabled ones by configuration; `clear_memory_data`, which
  nothing calls; the order by use among candidates (any choice is allowed). Every
  memory has a file of its own, while a newer one of a thread may overwrite the file of
  an older; `raw_memories.md` is made of the selection and is not kept apart; git is
  assumed to answer truly about the repository.
* `UnifiedExec`: output and its buffer, the sandbox and the approval of a command,
  the deadlines of a poll (a poll ends whenever it may), and hence what a poll
  answers: a process that was terminated during it is unknown to it.
* `AgentJobs`: names, prompts, logs and listing; the progress events of a review; a
  kill that never returns.
* `RolloutRecorder`: which items are persisted at all (`rollout/policy.rs`), the
  archive, a crash of the machine, and the error of the flush before an
  acknowledgement (`recorder.rs:727`), as each line was flushed when it was written.
* `ThreadGoals`: the time used, plan files, the copy of a goal into a fork,
  `usage_limit_active_thread_goal`, which nothing calls, and the shutdown.

## 8. Plan

What is left, the most important first:

1. **Approvals** in `TurnTasks`: the sender map of a turn keyed by its sub_id. Tools
   that ask do not run side by side, but an answer names the turn and not the call,
   and an abort decision interrupts whatever turn runs: a late answer, or the second
   one of a thread with two clients, may meet the next call or the next turn.
2. **A subscriber of the core session**: the cursor of `run_collect_text` and the
   first Idle it takes for its own.
3. **Archive** of a thread against an update of its metadata
   (`runtime.rs:2118`), beside `RolloutRecorder`.
4. **Pure algorithms** against reference definitions: the head/tail buffer at
   its boundary, the pairing of calls and outputs in the context manager, the
   validation of a workflow's step graph, the decision of the exec policy. These
   go into modules without state, with recursive functions, so that lemmas about
   them can be proved.
5. **Proofs** about what comes next in this list, and abstract specifications that
   the process store and the memory jobs implement, as the session implements its
   ledger and the recorder its log.

The runs stay few: a new component gets one for safety and liveness together
where its instance allows, and runs of one module are merged when they ask
questions of one instance. State spaces are kept within minutes.

## 9. How to run

In this directory, with the TLA+ tools, the community modules and TLAPS:

    tlc -config session_safety.cfg MCAgentSession
    tlapm AgentSessionProofs.tla

`session_*` use `MCAgentSession`, `flag*` `MCReadinessFlag`, `turn_*`
`MCTurnTasks`, `memory_*` `MCMemoryJobs`, `exec` `MCUnifiedExec`, `jobs`
`MCAgentJobs`, `rollout` `MCRolloutRecorder`, `goals` `MCThreadGoals`. The largest
instances, `memory_safety`, `exec`, `rollout`, `goals` and `jobs`, have one to four
million distinct states and take two to four minutes each.
