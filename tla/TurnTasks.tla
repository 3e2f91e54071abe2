----------------------------- MODULE TurnTasks ------------------------------
(***************************************************************************)
(* The turns of a product session (product/agent_runtime/src/codex.rs,     *)
(* tasks/mod.rs, state/turn.rs): one submission loop, which spawns and     *)
(* aborts turns, and one tokio task per turn, which drives the model.      *)
(* They share active_turn (a mutex around the running turn and its buffer  *)
(* of pending input) and the epoch counter of that buffer.                 *)
(*                                                                         *)
(* A step is what one side does under one acquisition of the lock, or      *)
(* between two awaits.  The data kept are the user's inputs, numbered in   *)
(* the order they were sent; model output, tool calls, goals and token     *)
(* accounting are abstracted to the choices they leave the loop.  handle   *)
(* .abort() stops a task at its next yield: a killed task may take further *)
(* steps, but never one that waits for the model or for a tool.            *)
(***************************************************************************)
EXTENDS Naturals, Sequences, Functions

CONSTANTS
    MaxTurn,     \* bound: turns spawned
    MaxInput,    \* bound: inputs sent by the user
    MaxStop      \* bound: interrupts requested by the user

ASSUME TasksAssumption == MaxTurn \in Nat /\ MaxInput \in Nat /\ MaxStop \in Nat

Turns == 1 .. MaxTurn
Inputs == 1 .. MaxInput
Marker == 0          \* the <turn_aborted> message, among the inputs in the history
NoTurn == 0
NoInput == 0

VARIABLES
    active,      \* the turn in active_turn, or NoTurn
    accepting, pending,   \* its TurnState
    epoch,       \* pending_input_epoch
    spawned,     \* how many turns were spawned: the next is spawned + 1
    lpc, victim, reason, next,   \* the submission loop, and its abort_all_tasks
    tpc,         \* where each turn's task stands
    kind,        \* its TaskKind: "Regular", or "Other" for all the rest
    input,       \* the user input it was spawned with, or NoInput
    held,        \* pending input it took and has not recorded yet
    seen, late,  \* epochs it observed: at the stream's start, at Completed
    follow,      \* whether the sampling request needs a follow-up
    outcome,     \* how run returned: "clean" is an answer nothing interrupted
    cancelled, killed,    \* its token; its JoinHandle
    told,        \* the end events sent for it
    history,     \* inputs and markers, as recorded
    strays,      \* inputs a task took or recorded after it was killed
    sent, home,  \* inputs sent so far; the turn each one went to
    stops, queued, asking   \* interrupts requested, not handled yet, not answered

turnVars == <<active, accepting, pending, epoch>>
loopVars == <<lpc, victim, reason, next>>
taskVars == <<kind, input, seen, late, follow, outcome>>
askVars == <<stops, queued, asking>>
bookVars == <<history, strays>>
userVars == <<sent, home, askVars>>
endVars == <<cancelled, killed, told>>
vars == <<turnVars, spawned, loopVars, tpc, held, taskVars, bookVars, userVars, endVars>>

EndEvents == {"TurnComplete", "TurnAborted"}
TaskPC == {"none", "record", "drain", "append", "open", "stream", "late", "tools",
           "finish", "close", "work", "ended", "remove", "complete", "done", "dead"}
Nexts == [op : {"None", "Stop", "Other", "Regular"}, item : Inputs \cup {NoInput}]
Nothing == [op |-> "None", item |-> NoInput]

LoopTypes ==
    /\ active \in Turns \cup {NoTurn}
    /\ accepting \in BOOLEAN
    /\ epoch \in 0 .. MaxInput
    /\ spawned \in 0 .. MaxTurn
    /\ lpc \in {"idle", "take", "cancel", "grace", "mark", "report", "spawn", "stopped"}
    /\ victim \in Turns \cup {NoTurn}
    /\ reason \in {"Replaced", "Interrupted"}
    /\ next \in Nexts
    /\ sent \in 0 .. MaxInput
    /\ stops \in 0 .. MaxStop
    /\ queued \in 0 .. MaxStop
    /\ asking \in 0 .. MaxStop

TaskTypes ==
    /\ tpc \in [Turns -> TaskPC]
    /\ kind \in [Turns -> {"Regular", "Other"}]
    /\ input \in [Turns -> Inputs \cup {NoInput}]
    /\ seen \in [Turns -> 0 .. MaxInput]
    /\ late \in [Turns -> 0 .. MaxInput]
    /\ follow \in [Turns -> BOOLEAN]
    /\ outcome \in [Turns -> {"running", "clean", "cut"}]
    /\ cancelled \in [Turns -> BOOLEAN]
    /\ killed \in [Turns -> BOOLEAN]
    /\ told \in [Turns -> SUBSET EndEvents]

InputTypes ==
    /\ pending \in Seq(Inputs)
    /\ held \in [Turns -> Seq(Inputs)]
    /\ history \in Seq(Inputs \cup {Marker})
    /\ strays \subseteq Inputs
    /\ home \in [Inputs -> Turns \cup {NoTurn}]

TasksTypeOK == LoopTypes /\ TaskTypes /\ InputTypes

Init ==
    /\ active = NoTurn
    /\ accepting = FALSE
    /\ pending = << >>
    /\ epoch = 0
    /\ spawned = 0
    /\ lpc = "idle" /\ victim = NoTurn /\ reason = "Replaced" /\ next = Nothing
    /\ tpc = [t \in Turns |-> "none"]
    /\ kind = [t \in Turns |-> "Regular"]
    /\ input = [t \in Turns |-> NoInput]
    /\ held = [t \in Turns |-> << >>]
    /\ seen = [t \in Turns |-> 0]
    /\ late = [t \in Turns |-> 0]
    /\ follow = [t \in Turns |-> FALSE]
    /\ outcome = [t \in Turns |-> "running"]
    /\ cancelled = [t \in Turns |-> FALSE]
    /\ killed = [t \in Turns |-> FALSE]
    /\ told = [t \in Turns |-> {}]
    /\ history = << >>
    /\ strays = {}
    /\ sent = 0
    /\ home = [i \in Inputs |-> NoTurn]
    /\ stops = 0 /\ queued = 0 /\ asking = 0

-----------------------------------------------------------------------------
(* The submission loop.                                                    *)

Open == active # NoTurn /\ accepting

(* A handler that replaces whatever runs: it aborts, then goes on to n.    *)
AbortThen(r, n) ==
    /\ lpc' = "take"
    /\ reason' = r
    /\ next' = n
    /\ UNCHANGED victim

(* inject_input found a turn that accepts: the input joins its buffer.     *)
Inject ==
    /\ lpc = "idle"
    /\ sent < MaxInput
    /\ Open
    /\ sent' = sent + 1
    /\ pending' = Append(pending, sent')
    /\ epoch' = epoch + 1
    /\ home' = [home EXCEPT ![sent'] = active]
    /\ UNCHANGED <<active, accepting, spawned, loopVars, tpc, held, taskVars, bookVars,
                   askVars, endVars>>

(* inject_input gave the input back: it becomes a turn of its own.         *)
InputTurn ==
    /\ lpc = "idle"
    /\ sent < MaxInput /\ spawned < MaxTurn
    /\ ~Open
    /\ sent' = sent + 1
    /\ AbortThen("Replaced", [op |-> "Regular", item |-> sent'])
    /\ UNCHANGED <<turnVars, spawned, tpc, held, taskVars, bookVars, home, askVars, endVars>>

(* compact, undo, review and the user's shell command: spawn_task at once. *)
(* So does input without any item that no turn takes: run_turn returns     *)
(* before it has recorded or read anything.                                *)
OtherTurn ==
    /\ lpc = "idle"
    /\ spawned < MaxTurn
    /\ AbortThen("Replaced", [op |-> "Other", item |-> NoInput])
    /\ UNCHANGED <<turnVars, spawned, tpc, held, taskVars, bookVars, userVars, endVars>>

(* maybe_continue_active_goal: a turn with no user input, only when idle.  *)
ContinueGoal ==
    /\ lpc = "idle"
    /\ active = NoTurn
    /\ spawned < MaxTurn
    /\ lpc' = "spawn"
    /\ next' = [op |-> "Regular", item |-> NoInput]
    /\ UNCHANGED <<turnVars, spawned, victim, reason, tpc, held, taskVars, bookVars,
                   userVars, endVars>>

(* turn/interrupt in the app server: the request waits for TurnAborted.    *)
AskInterrupt ==
    /\ stops < MaxStop
    /\ stops' = stops + 1
    /\ queued' = queued + 1
    /\ asking' = asking + 1
    /\ UNCHANGED <<turnVars, spawned, loopVars, tpc, held, taskVars, bookVars, sent, home,
                   endVars>>

(* interrupt_task: look for a turn first, take it in a step of its own.    *)
Interrupt ==
    /\ lpc = "idle"
    /\ queued > 0
    /\ queued' = queued - 1
    /\ IF active # NoTurn THEN AbortThen("Interrupted", Nothing) ELSE UNCHANGED loopVars
    /\ UNCHANGED <<turnVars, spawned, tpc, held, taskVars, bookVars, sent, home, stops,
                   asking, endVars>>

(* shutdown: abort what runs, then leave the loop.                         *)
Shutdown ==
    /\ lpc = "idle"
    /\ AbortThen("Interrupted", [op |-> "Stop", item |-> NoInput])
    /\ UNCHANGED <<turnVars, spawned, tpc, held, taskVars, bookVars, userVars, endVars>>

(* abort_all_tasks returns, and its caller goes on.                        *)
AbortOver ==
    /\ reason' = "Replaced"
    /\ lpc' = CASE next.op = "None" -> "idle"
                [] next.op = "Stop" -> "stopped"
                [] OTHER -> "spawn"

(* active_turn becomes None; the turn's state goes with it.                *)
ClearActive == active' = NoTurn /\ accepting' = FALSE /\ pending' = << >>

(* take_all_running_tasks: the turn leaves active_turn, its buffer is      *)
(* cleared.                                                                *)
Take ==
    /\ lpc = "take"
    /\ victim' = active
    /\ ClearActive
    /\ IF active = NoTurn THEN AbortOver ELSE lpc' = "cancel" /\ UNCHANGED reason
    /\ UNCHANGED <<epoch, spawned, next, tpc, held, taskVars, bookVars,
                   userVars, endVars>>

(* handle_task_abort.  take hands a task out once and nobody else cancels, *)
(* so its early return on a cancelled token never happens.                 *)
Cancel ==
    /\ lpc = "cancel"
    /\ cancelled' = [cancelled EXCEPT ![victim] = TRUE]
    /\ lpc' = "grace"
    /\ UNCHANGED <<turnVars, spawned, victim, reason, next, tpc, held, taskVars, bookVars,
                   userVars, killed, told>>

(* The task said it is done, or the grace period passed: either can be the *)
(* first to happen, and notify_waiters is lost on a task that was quicker. *)
Kill ==
    /\ lpc = "grace"
    /\ killed' = [killed EXCEPT ![victim] = TRUE]
    /\ lpc' = IF reason = "Interrupted" THEN "mark" ELSE "report"
    /\ UNCHANGED <<turnVars, spawned, victim, reason, next, tpc, held, taskVars, bookVars,
                   userVars, cancelled, told>>

(* An interrupted turn leaves a marker for the model.                      *)
Mark ==
    /\ lpc = "mark"
    /\ history' = Append(history, Marker)
    /\ lpc' = "report"
    /\ UNCHANGED <<strays, turnVars, spawned, victim, reason, next, tpc, held, taskVars, userVars,
                   endVars>>

Settle ==
    /\ AbortOver
    /\ victim' = NoTurn
    /\ UNCHANGED <<turnVars, spawned, next, tpc, held, taskVars, bookVars, sent,
                   home, stops, queued, cancelled, killed>>

(* Seeded fault: a replaced turn is not reported.                          *)
MutReport ==
    /\ lpc = "report"
    /\ told' = IF reason = "Interrupted"
               THEN [told EXCEPT ![victim] = @ \cup {"TurnAborted"}] ELSE told
    /\ asking' = IF reason = "Interrupted" THEN 0 ELSE asking
    /\ Settle

(* TurnAborted goes out; the app server answers the waiting interrupts.    *)
Report ==
    /\ lpc = "report"
    /\ told' = [told EXCEPT ![victim] = @ \cup {"TurnAborted"}]
    /\ asking' = 0
    /\ Settle

(* spawn_task_if_idle: refused while a turn is active, which spawn_task    *)
(* ignores.                                                                *)
Spawn ==
    /\ lpc = "spawn"
    /\ IF active = NoTurn
       THEN /\ spawned' = spawned + 1
            /\ active' = spawned'
            /\ accepting' = TRUE
            /\ pending' = << >>
            /\ tpc' = [tpc EXCEPT ![spawned'] =
                         IF next.op = "Regular" THEN "record" ELSE "work"]
            /\ kind' = [kind EXCEPT ![spawned'] = next.op]
            /\ input' = [input EXCEPT ![spawned'] = next.item]
            /\ home' = [i \in Inputs |-> IF i = next.item THEN spawned' ELSE home[i]]
       ELSE UNCHANGED <<spawned, active, accepting, pending, tpc, kind, input, home>>
    /\ lpc' = "idle"
    /\ next' = Nothing
    /\ UNCHANGED <<epoch, victim, reason, held, seen, late, follow, outcome, bookVars, sent,
                   askVars, endVars>>

-----------------------------------------------------------------------------
(* The task of turn t.                                                     *)

At(t, from) == tpc[t] = from
To(t, l) == tpc' = [tpc EXCEPT ![t] = l]
InFlight(t) == tpc[t] \notin {"none", "done", "dead"}

(* Steps of the task leave the loop and the user alone.                    *)
TaskFrame == UNCHANGED <<spawned, loopVars, kind, input, userVars, cancelled, killed>>

(* The inputs in S pass through the hands of t.                            *)
Handle(t, S) == strays' = IF killed[t] THEN strays \cup S ELSE strays

(* run_turn records the input the turn was spawned with.                   *)
Record(t) ==
    /\ At(t, "record")
    /\ history' = IF input[t] = NoInput THEN history ELSE Append(history, input[t])
    /\ Handle(t, {input[t]} \ {NoInput})
    /\ To(t, "drain")
    /\ UNCHANGED <<turnVars, held, seen, late, follow, outcome, told>>
    /\ TaskFrame

(* Seeded fault: the buffer is copied, not swapped out.                    *)
MutDrain(t) ==
    /\ At(t, "drain")
    /\ held' = [held EXCEPT ![t] = pending]
    /\ Handle(t, Range(pending))
    /\ To(t, "append")
    /\ UNCHANGED <<turnVars, seen, late, follow, outcome, history, told>>
    /\ TaskFrame

(* get_pending_input, at the top of every round.                           *)
Drain(t) ==
    /\ At(t, "drain")
    /\ held' = [held EXCEPT ![t] = pending]
    /\ Handle(t, Range(pending))
    /\ pending' = << >>
    /\ To(t, "append")
    /\ UNCHANGED <<active, accepting, epoch, seen, late, follow, outcome, history, told>>
    /\ TaskFrame

(* record_conversation_items of what was pending.                          *)
AppendHeld(t) ==
    /\ At(t, "append")
    /\ history' = history \o held[t]
    /\ Handle(t, Range(held[t]))
    /\ held' = [held EXCEPT ![t] = << >>]
    /\ To(t, "open")
    /\ UNCHANGED <<turnVars, seen, late, follow, outcome, told>>
    /\ TaskFrame

(* The stream is open: the processor notes the epoch.                      *)
Observe(t) ==
    /\ At(t, "open") /\ ~killed[t]
    /\ seen' = [seen EXCEPT ![t] = epoch]
    /\ To(t, "stream")
    /\ UNCHANGED <<turnVars, held, late, follow, outcome, bookVars, told>>
    /\ TaskFrame

(* The sampling request is over, its processor is dropped.                 *)
RequestOver(t) ==
    /\ seen' = [seen EXCEPT ![t] = 0]
    /\ follow' = [follow EXCEPT ![t] = FALSE]

(* The prompt is too long, before or after it is sent, or holds an image   *)
(* the provider refuses: the history is mended and the round starts over.  *)
MendAndRetry(t) ==
    /\ tpc[t] \in {"open", "stream"} /\ ~killed[t]
    /\ To(t, "drain")
    /\ RequestOver(t)
    /\ UNCHANGED <<turnVars, held, late, outcome, bookVars, told>>
    /\ TaskFrame

(* The request or the stream fails or is cancelled, or the turn was        *)
(* cancelled before its input was recorded: run_turn returns.              *)
Fail(t) ==
    /\ \/ tpc[t] \in {"open", "stream"}
       \/ At(t, "record") /\ cancelled[t]
    /\ ~killed[t]
    /\ outcome' = [outcome EXCEPT ![t] = "cut"]
    /\ To(t, "ended")
    /\ RequestOver(t)
    /\ UNCHANGED <<turnVars, held, late, bookVars, told>>
    /\ TaskFrame

(* Seeded fault: pending input is not looked for when a response is        *)
(* complete.                                                               *)
MutCompleted(t) ==
    /\ At(t, "stream") /\ ~killed[t]
    /\ late' = [late EXCEPT ![t] = epoch]
    /\ \E tool \in BOOLEAN : follow' = [follow EXCEPT ![t] = tool]
    /\ To(t, "late")
    /\ UNCHANGED <<turnVars, held, seen, outcome, bookVars, told>>
    /\ TaskFrame

(* TurnEvent::Completed: a follow-up is due if the model called a tool or  *)
(* input is pending; without pending input, look again after a yield.      *)
Completed(t) ==
    /\ At(t, "stream") /\ ~killed[t]
    /\ \E tool \in BOOLEAN :
          follow' = [follow EXCEPT ![t] = tool \/ pending # << >>]
    /\ IF pending = << >>
       THEN To(t, "late") /\ late' = [late EXCEPT ![t] = epoch]
       ELSE To(t, "tools") /\ UNCHANGED late
    /\ UNCHANGED <<turnVars, held, seen, outcome, bookVars, told>>
    /\ TaskFrame

(* has_late_pending_input.                                                 *)
LateCheck(t) ==
    /\ At(t, "late")
    /\ follow' = [follow EXCEPT ![t] = @ \/ (epoch # late[t] /\ pending # << >>)]
    /\ late' = [late EXCEPT ![t] = 0]
    /\ To(t, "tools")
    /\ UNCHANGED <<turnVars, held, seen, outcome, bookVars, told>>
    /\ TaskFrame

(* The tool calls in flight have answered.                                 *)
ToolsDone(t) ==
    /\ At(t, "tools") /\ ~killed[t]
    /\ To(t, "finish")
    /\ UNCHANGED <<turnVars, held, seen, late, follow, outcome, bookVars, told>>
    /\ TaskFrame

(* finish: a cancelled turn is over, a follow-up starts another round.     *)
Finish(t) ==
    /\ At(t, "finish")
    /\ \/ /\ cancelled[t]
          /\ outcome' = [outcome EXCEPT ![t] = "cut"]
          /\ To(t, "ended")
          /\ RequestOver(t)
       \/ /\ ~cancelled[t] /\ follow[t]
          /\ To(t, "drain")
          /\ RequestOver(t)
          /\ UNCHANGED outcome
       \/ /\ ~cancelled[t] /\ ~follow[t]
          /\ To(t, "close")
          /\ UNCHANGED <<outcome, seen, follow>>
    /\ UNCHANGED <<turnVars, held, late, bookVars, told>>
    /\ TaskFrame

Answered(t) ==
    /\ outcome' = [outcome EXCEPT ![t] = "clean"]
    /\ To(t, "ended")

(* close_pending_input_window_or_has_late_input: under one lock, another   *)
(* round for input that came since the stream began, or no more input.     *)
CloseWindow(t) ==
    /\ At(t, "close")
    /\ IF active # NoTurn /\ epoch # seen[t] /\ pending # << >>
       THEN To(t, "drain") /\ UNCHANGED <<accepting, outcome>>
       ELSE /\ accepting' = IF active = NoTurn THEN accepting ELSE FALSE
            /\ Answered(t)
    /\ RequestOver(t)
    /\ UNCHANGED <<active, pending, epoch, held, late, bookVars, told>>
    /\ TaskFrame

(* The run of a task that is not a regular turn, or of one without input,  *)
(* at its early return; it reads no input.                                 *)
Work(t) ==
    /\ At(t, "work") /\ ~killed[t]
    /\ Answered(t)
    /\ UNCHANGED <<turnVars, held, seen, late, follow, bookVars, told>>
    /\ TaskFrame

(* run has returned: a cancelled task says no more than that it is done.   *)
Ended(t) ==
    /\ At(t, "ended")
    /\ To(t, IF cancelled[t] THEN "done" ELSE "remove")
    /\ UNCHANGED <<turnVars, held, seen, late, follow, outcome, bookVars, told>>
    /\ TaskFrame

(* Seeded fault: whatever turn is active is cleared.                       *)
MutRemoveTask(t) ==
    /\ At(t, "remove")
    /\ ClearActive
    /\ To(t, "complete")
    /\ UNCHANGED <<epoch, held, seen, late, follow, outcome, bookVars, told>>
    /\ TaskFrame

(* Seeded fault: the finished turn stays in active_turn.                   *)
MutRemoveKeeps(t) ==
    /\ At(t, "remove")
    /\ To(t, "complete")
    /\ UNCHANGED <<turnVars, held, seen, late, follow, outcome, bookVars, told>>
    /\ TaskFrame

(* on_task_finished, locked: only its own turn is removed.                 *)
RemoveTask(t) ==
    /\ At(t, "remove")
    /\ IF active = t THEN ClearActive ELSE UNCHANGED <<active, accepting, pending>>
    /\ To(t, "complete")
    /\ UNCHANGED <<epoch, held, seen, late, follow, outcome, bookVars, told>>
    /\ TaskFrame

(* on_task_finished, unlocked: TurnComplete goes out.                      *)
Complete(t) ==
    /\ At(t, "complete")
    /\ told' = [told EXCEPT ![t] = @ \cup {"TurnComplete"}]
    /\ To(t, "done")
    /\ UNCHANGED <<turnVars, held, seen, late, follow, outcome, bookVars>>
    /\ TaskFrame

(* The runtime drops a killed task at a yield.                             *)
Die(t) ==
    /\ killed[t] /\ InFlight(t)
    /\ held' = [held EXCEPT ![t] = << >>]
    /\ To(t, "dead")
    /\ late' = [late EXCEPT ![t] = 0]
    /\ RequestOver(t)
    /\ UNCHANGED <<turnVars, outcome, bookVars, told>>
    /\ TaskFrame

Abort == Take \/ Cancel \/ Kill \/ Mark \/ Report

Loop == Inject \/ InputTurn \/ OtherTurn \/ ContinueGoal \/ Interrupt \/ Shutdown
        \/ Abort \/ Spawn

Task(t) ==
    \/ Record(t) \/ Drain(t) \/ AppendHeld(t) \/ MendAndRetry(t)
    \/ Observe(t) \/ Fail(t) \/ Completed(t) \/ LateCheck(t) \/ ToolsDone(t)
    \/ Finish(t) \/ CloseWindow(t) \/ Work(t) \/ Ended(t)
    \/ RemoveTask(t) \/ Complete(t) \/ Die(t)

Next == Loop \/ AskInterrupt \/ \E t \in Turns : Task(t)

Spec == Init /\ [][Next]_vars

(* The loop reads its queue and finishes what it began; a task is polled;  *)
(* a killed one is dropped; and the model, though it may ask for tools or  *)
(* overflow its window again and again, answers some request in the end.   *)
Fairness ==
    /\ WF_vars(Abort \/ Spawn \/ Interrupt)
    /\ \A t \in Turns :
          /\ WF_vars(Task(t))
          /\ SF_vars(Observe(t))
          /\ SF_vars(Completed(t) /\ ~follow'[t])

FairSpec == Spec /\ Fairness
-----------------------------------------------------------------------------
(* Properties.                                                             *)

(* The task can still do the work of its turn.                             *)
Working(t) == tpc[t] \notin {"none", "complete", "done", "dead"} /\ ~killed[t]

(* codex.rs:1006, "a session has at most 1 running task at a time": two    *)
(* turns never work at once, and one that works is in active_turn or in    *)
(* the hands of the loop that aborts it.  What could break it: a finished  *)
(* turn that clears the turn that replaced it, an abort that lets go.      *)
OneTask ==
    \A t \in Turns :
        Working(t) => /\ \A u \in Turns \ {t} : ~Working(u)
                      /\ active = t \/ (victim = t /\ lpc \in {"cancel", "grace"})

(* The loop drops the input of a turn that spawn_task_if_idle refuses: no  *)
(* turn may be active when abort_all_tasks is over, whatever task ended    *)
(* meanwhile.                                                              *)
SpawnNeverRefused == lpc = "spawn" => active = NoTurn

(* A regular turn that returns its answer, and is not aborted, has         *)
(* recorded every input it was given: one that raced with its end was      *)
(* either recorded by another round or refused and started the next turn.  *)
(* (An input a killed task took away is not the turn's to record.)         *)
CleanEndKeepsInput ==
    \A t \in Turns, i \in Inputs :
        (/\ kind[t] = "Regular" /\ outcome[t] = "clean"
         /\ ~cancelled[t] /\ victim # t
         /\ home[i] = t /\ i \notin strays)
        => i \in Range(history)

(* The inputs stand in the history in the order they were sent, each once: *)
(* its own input before what was injected, a turn's before the next's,     *)
(* save those in the hands of a task that outlived its abort.              *)
InputsInOrder ==
    \A j, k \in DOMAIN history :
        (j < k /\ history[j] # Marker /\ history[k] # Marker)
        => /\ history[j] # history[k]
           /\ {history[j], history[k]} \cap strays = {} => history[j] < history[k]

(* A turn whose end was reported takes no more input: the client that saw  *)
(* the event can send its next input without it going to the old turn.     *)
ReportedTurnIsOver == \A t \in Turns : told[t] # {} => active # t

(* Once the loop has stopped, no task works on the session.                *)
StoppedIsQuiet == lpc = "stopped" => active = NoTurn /\ \A t \in Turns : ~Working(t)

(* Every turn that was spawned is reported, completed or aborted.          *)
TurnReported == \A t \in Turns : (tpc[t] # "none") ~> (told[t] # {})

(* app_server/README.md:436, a turn "ends with turn/completed": it has one *)
(* end, so that TurnComplete and TurnAborted, which both become            *)
(* turn/completed, exclude each other.  A turn past its check of the token *)
(* is completed and aborted.                                               *)
TurnEndsOnce == \A t \in Turns : told[t] # EndEvents

(* app_server/README.md:88, turn/start adds user input to a thread: input  *)
(* a turn accepted is in the history, or on its way, unless that turn was  *)
(* aborted.  A turn that fails, or is not a regular turn, drops it.        *)
AcceptedInputKept ==
    \A i \in Inputs :
        \/ home[i] = NoTurn \/ cancelled[home[i]] \/ victim = home[i]
        \/ \E s \in {history, pending} \cup {held[t] : t \in Turns} : i \in Range(s)
        \/ tpc[home[i]] = "record"

(* app_server/README.md:89, turn/interrupt of an in-flight turn answers    *)
(* with an empty result: it is answered when the turn is aborted, and      *)
(* never if the turn ends first.                                           *)
InterruptAnswered ==
    (queued > 0 /\ active # NoTurn) ~> (asking = 0 \/ lpc = "stopped")
=============================================================================
