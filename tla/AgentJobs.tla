----------------------------- MODULE AgentJobs -----------------------------
(***************************************************************************)
(* The delegated jobs of a product session                                 *)
(* (product/agent_runtime/src/agent_jobs/mod.rs): each is a child process  *)
(* `lha exec`, with a watcher that decides how it ended.  Tool calls and   *)
(* review tasks (the callers) spawn jobs, wait for them and close them; an *)
(* interrupted turn drops its calls at any await; the shutdown of the      *)
(* session closes all jobs.                                                *)
(*                                                                         *)
(* The n-th spawn makes job n (ids are UUIDs).  A job never leaves the     *)
(* table, so that a handle taken from it stays good.  A step is what one   *)
(* task does between two awaits, or under one lock.  The output of a       *)
(* review's job is piped to a reader that the watcher waits for.  Prompts, *)
(* logs, names, and the progress events of a review are left out.          *)
(***************************************************************************)
EXTENDS Naturals, FiniteSets

CONSTANTS
    Callers,    \* tasks that may call the manager
    MaxJobs,    \* agent_job_max_concurrency, the permits of the semaphore
    Reviews,    \* spawns whose output is piped (AgentJobOutputMode::RawEvents)
    MaxSpawn,   \* bound: spawns that get a permit
    MaxErr      \* bound: children that cannot be awaited or killed

ASSUME JobsAssumption ==
    /\ MaxJobs \in Nat \ {0} /\ MaxSpawn \in Nat /\ MaxErr \in Nat

Jobs == 1 .. MaxSpawn
None == 0

VARIABLES
    made,       \* ids handed out so far
    held,       \* the jobs that hold a permit
    jobs,       \* the table
    status,     \* status of each job, behind its mutex
    cancelled,  \* jobs whose cancellation_token is cancelled
    completed,  \* jobs whose watcher sent its completion
    child,      \* the child process
    pipe,       \* jobs whose stdout reader has not met the end of the pipe
    erred,      \* history: jobs whose child could not be awaited, or killed
    watcher,    \* where the watcher of a job stands
    verdict,    \* its next_status
    pc, at,     \* where each caller stands, and the job it is about
    loop,       \* the submission loop: open, or how far close_all is
    handles,    \* close_all's snapshot of the table
    rest,       \* those of them it has yet to cancel, then to await
    over        \* history: jobs that a close or close_all returned

tableVars == <<made, held, jobs>>
fateVars == <<status, cancelled, completed>>
procVars == <<child, pipe, erred>>
watchVars == <<watcher, verdict>>
callVars == <<pc, at>>
loopVars == <<loop, handles, rest>>
vars == <<tableVars, fateVars, procVars, watchVars, callVars, loopVars, over>>

Final == {"completed", "failed", "cancelled", "timed out"}
Ended == {"good", "bad", "killed"}

(* The shape of the state.                                                 *)
JobsTypeOK ==
    /\ made \in 0 .. MaxSpawn
    /\ held \subseteq Jobs /\ jobs \subseteq Jobs
    /\ status \in [Jobs -> Final \cup {"running"}]
    /\ cancelled \subseteq Jobs /\ completed \subseteq Jobs
    /\ child \in [Jobs -> Ended \cup {"none", "running"}]
    /\ pipe \subseteq Jobs /\ erred \subseteq Jobs
    /\ watcher \in [Jobs -> {"unborn", "select", "decided", "set", "sent", "done"}]
    /\ verdict \in [Jobs -> Final \cup {"running"}]
    /\ pc \in [Callers -> {"idle", "prepare", "launched", "close", "await"}]
    /\ at \in [Callers -> Jobs \cup {None}]
    /\ loop \in {"open", "cancelling", "awaiting", "closed"}
    /\ handles \subseteq Jobs /\ rest \subseteq Jobs
    /\ over \subseteq Jobs

Init ==
    /\ made = 0 /\ held = {} /\ jobs = {}
    /\ status = [j \in Jobs |-> "running"]
    /\ cancelled = {} /\ completed = {}
    /\ child = [j \in Jobs |-> "none"] /\ pipe = {} /\ erred = {}
    /\ watcher = [j \in Jobs |-> "unborn"]
    /\ verdict = [j \in Jobs |-> "running"]
    /\ pc = [c \in Callers |-> "idle"] /\ at = [c \in Callers |-> None]
    /\ loop = "open" /\ handles = {} /\ rest = {}
    /\ over = {}
-----------------------------------------------------------------------------
(* Calls.                                                                  *)

At(c, p) == pc[c] = p
Go(c, p) == pc' = [pc EXCEPT ![c] = p] /\ UNCHANGED at
Return(c) ==
    /\ pc' = [pc EXCEPT ![c] = "idle"] /\ at' = [at EXCEPT ![c] = None]

(* A turn calls while the loop runs; the shutdown aborts it first.         *)
Begin(c, p, j) ==
    /\ At(c, "idle") /\ loop = "open"
    /\ pc' = [pc EXCEPT ![c] = p] /\ at' = [at EXCEPT ![c] = j]

IsFinal(j) == status[j] \in Final

(* Seeded fault: the permit is not waited for.                             *)
MutReserve(c) ==
    /\ made < MaxSpawn
    /\ Begin(c, "prepare", made + 1)
    /\ made' = made + 1 /\ held' = held \cup {made + 1}
    /\ UNCHANGED <<jobs, fateVars, procVars, watchVars, loopVars, over>>

(* spawn takes a permit, or it is refused and changes nothing; then it     *)
(* draws an id and prepares the job's files.                               *)
Reserve(c) ==
    /\ made < MaxSpawn
    /\ Cardinality(held) < MaxJobs
    /\ Begin(c, "prepare", made + 1)
    /\ made' = made + 1 /\ held' = held \cup {made + 1}
    /\ UNCHANGED <<jobs, fateVars, procVars, watchVars, loopVars, over>>

(* A file cannot be written, no program is found or it does not start: the *)
(* permit is dropped.                                                      *)
SpawnFails(c) ==
    /\ At(c, "prepare")
    /\ Return(c)
    /\ held' = held \ {at[c]}
    /\ UNCHANGED <<made, jobs, fateVars, procVars, watchVars, loopVars, over>>

(* command.spawn(), all files written.  A review takes the output through  *)
(* a pipe, and starts its reader.                                          *)
Launch(c) ==
    /\ At(c, "prepare") /\ Go(c, "launched")
    /\ child' = [child EXCEPT ![at[c]] = "running"]
    /\ pipe' = pipe \cup ({at[c]} \cap Reviews)
    /\ UNCHANGED erred
    /\ UNCHANGED <<tableVars, fateVars, watchVars, loopVars, over>>

(* Under the lock of the table: the job is entered and its watcher, which  *)
(* owns the child and the permit, is spawned.                              *)
Register(c) ==
    /\ At(c, "launched") /\ Return(c)
    /\ jobs' = jobs \cup {at[c]}
    /\ watcher' = [watcher EXCEPT ![at[c]] = "select"]
    /\ UNCHANGED <<made, held, fateVars, procVars, verdict, loopVars, over>>

(* close takes a handle ...                                                *)
Close(c, j) ==
    /\ j \in jobs
    /\ Begin(c, "close", j)
    /\ UNCHANGED <<tableVars, fateVars, procVars, watchVars, loopVars, over>>

(* cancel_and_wait: the status is looked at under its lock.                *)
CancelUnlessFinal(j) ==
    cancelled' = IF IsFinal(j) THEN cancelled ELSE cancelled \cup {j}

CloseCancels(c) ==
    /\ At(c, "close") /\ Go(c, "await")
    /\ CancelUnlessFinal(at[c])
    /\ UNCHANGED <<tableVars, status, completed, procVars, watchVars, loopVars, over>>

(* Seeded fault: a final status is enough, whatever the watcher still does.*)
MutFinished(j) == j \in completed \/ IsFinal(j)

(* wait_for_completion: completion is what it waits for, not the status.   *)
Finished(j) == j \in completed

CloseReturns(c) ==
    /\ At(c, "await") /\ Finished(at[c])
    /\ Return(c)
    /\ over' = over \cup {at[c]}
    /\ UNCHANGED <<tableVars, fateVars, procVars, watchVars, loopVars>>

(* The turn of a call is interrupted.  A spawn loses its permit with the   *)
(* future; a child it has already started is not killed with it.           *)
Drop(c) ==
    /\ ~At(c, "idle") /\ Return(c)
    /\ held' = IF pc[c] \in {"prepare", "launched"} THEN held \ {at[c]} ELSE held
    /\ UNCHANGED <<made, jobs, fateVars, procVars, watchVars, loopVars, over>>

Call(c) ==
    \/ Reserve(c) \/ SpawnFails(c) \/ Launch(c) \/ Register(c)
    \/ \E j \in jobs : Close(c, j)
    \/ CloseCancels(c) \/ CloseReturns(c) \/ Drop(c)
-----------------------------------------------------------------------------
(* The watcher of a job (spawn_job_watcher).                               *)

In(j, w) == watcher[j] = w
Move(j, w) == watcher' = [watcher EXCEPT ![j] = w]

(* A call on the child returns an error and leaves it as it is.            *)
Err(j) ==
    /\ Cardinality(erred) < MaxErr
    /\ erred' = erred \cup {j}
    /\ UNCHANGED <<child, pipe>>

(* child.kill() awaits the end of the child, unless it returns an error,   *)
(* which nobody looks at.                                                  *)
Killed(j) ==
    \/ /\ child' = [child EXCEPT ![j] = IF @ = "running" THEN "killed" ELSE @]
       /\ UNCHANGED <<pipe, erred>>
    \/ Err(j)

Decide(j, s) ==
    /\ In(j, "select") /\ Move(j, "decided")
    /\ verdict' = [verdict EXCEPT ![j] = s]
    /\ UNCHANGED <<tableVars, fateVars, callVars, loopVars, over>>

(* child.wait(): a success counts if it left a final message.              *)
DecideExit(j) ==
    /\ child[j] \in {"good", "bad"}
    /\ Decide(j, IF child[j] = "good" THEN "completed" ELSE "failed")
    /\ UNCHANGED procVars

(* child.wait() returns an error, whatever the child does.                 *)
DecideLost(j) == Decide(j, "failed") /\ Err(j)

(* The timer may run out whenever it was not ready before.                 *)
DecideTimeout(j) == Decide(j, "timed out") /\ Killed(j)

(* Seeded fault: a cancelled child is not killed.                          *)
MutDecideCancel(j) == j \in cancelled /\ Decide(j, "cancelled") /\ UNCHANGED procVars

DecideCancel(j) == j \in cancelled /\ Decide(j, "cancelled") /\ Killed(j)

(* stdout_task first: the reader of a review's output must have met the    *)
(* end of the pipe, which any process that inherited it keeps open.        *)
SetStatus(j) ==
    /\ In(j, "decided") /\ j \notin pipe
    /\ Move(j, "set")
    /\ status' = [status EXCEPT ![j] = verdict[j]]
    /\ UNCHANGED <<tableVars, cancelled, completed, procVars, verdict, callVars, loopVars, over>>

(* Seeded fault: completion is never signalled for a job that timed out.   *)
MutComplete(j) ==
    /\ In(j, "set") /\ Move(j, "sent")
    /\ completed' = IF status[j] = "timed out" THEN completed ELSE completed \cup {j}
    /\ UNCHANGED <<tableVars, status, cancelled, procVars, verdict, callVars, loopVars, over>>

(* persist_status has written status.json, or logged that it could not,    *)
(* and completion_tx.send(true) follows.                                   *)
Complete(j) ==
    /\ In(j, "set") /\ Move(j, "sent")
    /\ completed' = completed \cup {j}
    /\ UNCHANGED <<tableVars, status, cancelled, procVars, verdict, callVars, loopVars, over>>

(* The watcher ends, and with it the permit.                               *)
Free(j) ==
    /\ In(j, "sent") /\ Move(j, "done")
    /\ held' = held \ {j}
    /\ UNCHANGED <<made, jobs, fateVars, procVars, verdict, callVars, loopVars, over>>

Watch(j) ==
    \/ DecideExit(j) \/ DecideLost(j) \/ DecideTimeout(j) \/ DecideCancel(j)
    \/ SetStatus(j) \/ Complete(j) \/ Free(j)
-----------------------------------------------------------------------------
(* The shutdown of the session, and what happens by itself.                *)

(* close_all: the jobs in the table now, ...                               *)
CloseAll ==
    /\ loop = "open" /\ loop' = "cancelling"
    /\ handles' = jobs /\ rest' = jobs
    /\ UNCHANGED <<tableVars, fateVars, procVars, watchVars, callVars, over>>

(* ... all cancelled before any is awaited, ...                            *)
CancelNext ==
    /\ loop = "cancelling"
    /\ \E j \in rest :
          /\ CancelUnlessFinal(j)
          /\ rest' = rest \ {j}
    /\ UNCHANGED <<tableVars, status, completed, procVars, watchVars, callVars, loop, handles, over>>

(* Seeded fault: the jobs are cancelled and not awaited.                   *)
MutAllCancelled ==
    /\ loop = "cancelling" /\ rest = {}
    /\ loop' = "awaiting" /\ rest' = {}
    /\ UNCHANGED <<tableVars, fateVars, procVars, watchVars, callVars, handles, over>>

AllCancelled ==
    /\ loop = "cancelling" /\ rest = {}
    /\ loop' = "awaiting" /\ rest' = handles
    /\ UNCHANGED <<tableVars, fateVars, procVars, watchVars, callVars, handles, over>>

(* ... then awaited one after the other.                                   *)
AwaitNext ==
    /\ loop = "awaiting"
    /\ \E j \in rest :
          /\ Finished(j)
          /\ rest' = rest \ {j}
          /\ over' = over \cup {j}
    /\ UNCHANGED <<tableVars, fateVars, procVars, watchVars, callVars, loop, handles>>

AllClosed ==
    /\ loop = "awaiting" /\ rest = {} /\ loop' = "closed"
    /\ UNCHANGED <<tableVars, fateVars, procVars, watchVars, callVars, handles, rest, over>>

Shutdown == CloseAll \/ CancelNext \/ AllCancelled \/ AwaitNext \/ AllClosed

(* The child ends by itself, with a final message or not.                  *)
Exit(j) ==
    /\ child[j] = "running"
    /\ \E x \in {"good", "bad"} : child' = [child EXCEPT ![j] = x]
    /\ UNCHANGED <<pipe, erred>>
    /\ UNCHANGED <<tableVars, fateVars, watchVars, callVars, loopVars, over>>

(* The last process that holds the pipe of a review lets it go, or reading *)
(* it fails; the child may end long before.                                *)
PipeEnds(j) ==
    /\ j \in pipe /\ pipe' = pipe \ {j}
    /\ UNCHANGED <<child, erred>>
    /\ UNCHANGED <<tableVars, fateVars, watchVars, callVars, loopVars, over>>

Next ==
    \/ \E c \in Callers : Call(c)
    \/ \E j \in Jobs : Watch(j) \/ Exit(j) \/ PipeEnds(j)
    \/ Shutdown

Spec == Init /\ [][Next]_vars

(* A watcher that can run does, its timer runs out, and a shutdown that    *)
(* began goes on.  No child is assumed to end by itself, no pipe to be let *)
(* go, and nobody to call, or to close.                                    *)
Fairness ==
    /\ \A j \in Jobs : WF_vars(Watch(j))
    /\ WF_vars(CancelNext \/ AllCancelled \/ AwaitNext \/ AllClosed)

FairSpec == Spec /\ Fairness
-----------------------------------------------------------------------------
(* Properties.                                                             *)

(* A final status says how the job ended, in whatever order its exit, its  *)
(* time limit and its cancellation came: it completed by itself with a     *)
(* message, it was cancelled because that was asked, it ran out of its     *)
(* time, or it failed.  Its child is gone, but for the one case that the   *)
(* code passes over: waiting for it, or killing it, returned an error.     *)
StatusIsTrue ==
    \A j \in Jobs : IsFinal(j) =>
        /\ child[j] \in Ended \/ j \in erred
        /\ status[j] = "completed" => child[j] = "good"
        /\ status[j] = "failed" => child[j] = "bad" \/ j \in erred
        /\ status[j] = "cancelled" => j \in cancelled

(* A job that a close returned is over: its status is final and saved, the *)
(* reader of its output too, and its child is gone unless waiting for it   *)
(* or killing it returned an error.                                        *)
ClosedIsOver ==
    \A j \in over :
        /\ IsFinal(j) /\ watcher[j] \in {"sent", "done"}
        /\ j \notin pipe
        /\ child[j] \in Ended \/ j \in erred

(* The child of a spawn that was dropped before it registered.             *)
Orphan(j) ==
    /\ child[j] # "none" /\ watcher[j] = "unborn"
    /\ \A c \in Callers : ~(At(c, "launched") /\ at[c] = j)

(* config/mod.rs:413, the maximum of jobs that run at the same time: what  *)
(* escapes the count are orphans, and children that could not be awaited   *)
(* or killed.                                                              *)
LimitHeld ==
    Cardinality({j \in Jobs : child[j] = "running" /\ ~Orphan(j) /\ j \notin erred}) <= MaxJobs

(* When close_all is over, a child still runs only if its job registered   *)
(* after close_all looked, or never did, or could not be awaited or killed. *)
SurvivorsAreLate ==
    loop = "closed" =>
        \A j \in Jobs : child[j] = "running" => j \notin handles \/ j \in erred

(* Every registered job whose output nobody holds any more, or whose       *)
(* output is no pipe, comes to a final status that its waiters hear of,    *)
(* though its child may never end and nobody may close it.  (Jobs stay in  *)
(* the table and completed, and a pipe that ended stays so.)               *)
EveryJobEnds == <>[](jobs \ pipe \subseteq completed)

(* The time limit of a job does not say more: a review whose pipe some     *)
(* descendant of its child keeps has no end, nor has a close of it.        *)
EveryReviewEnds == <>[](jobs \subseteq completed)
=============================================================================
