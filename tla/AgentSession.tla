---------------------------- MODULE AgentSession ----------------------------
(***************************************************************************)
(* One in-memory agent session of lha-core (src/core/src/session.rs) with  *)
(* the turn loop it spawns, the kernel that drains one model stream        *)
(* (kernel.rs), the processor that records what the stream says            *)
(* (processor.rs) and the tool futures it awaits (tools/executor.rs).      *)
(*                                                                         *)
(* Host tasks call the public API concurrently; every accepted run spawns  *)
(* one driver task, numbered by its submission id.  A step is what runs    *)
(* under one acquisition of the session lock, one event emission, or one   *)
(* answer of the model or of a tool.                                       *)
(***************************************************************************)
EXTENDS Naturals, Sequences, FiniteSets, FiniteSetsExt

CONSTANTS
    Hosts,        \* tasks that hold a clone of the AgentSession
    MaxSub,       \* bound: submissions accepted
    MaxInput,     \* bound: inputs handed to the session
    MaxOutput,    \* bound: messages and tool calls the model produces
    MaxAbort      \* bound: calls of abort_current_turn

ASSUME BoundsAssumption ==
    /\ MaxSub \in Nat \ {0}
    /\ MaxInput \in Nat
    /\ MaxOutput \in Nat
    /\ MaxAbort \in Nat

Subs == 1 .. MaxSub
QueueNames == {"Steering", "FollowUp"}

Ids == 1 .. MaxInput + MaxOutput

(* A transcript item: input items are named by the queue they came through. *)
Item == [kind : {"Primary", "Steering", "FollowUp", "Message", "Call", "Result"},
         id : Ids]
Event == [kind : {"Running", "Aborting", "Idle",
                  "Started", "Completed", "Failed", "Aborted"},
          sub : 0 .. MaxSub,
          more : BOOLEAN]

HostPC == {"idle", "checked", "acquired", "aborting", "cancelling"}
DriverPC == {"unborn", "top", "bootFollow", "bootAppend", "bootCheck",
             "start", "build", "open", "stream", "tools", "failed", "finish",
             "completed", "tailFollow", "tailAppend", "release", "announce",
             "gone"}

VARIABLES
    (* SessionState, guarded by one mutex *)
    status, active, queue, blank, conversation, nextSub,
    (* the event channel: everything sent on it so far *)
    events,
    (* cancellation tokens, one per submission *)
    cancelled,
    (* hosts: where each call stands and the submission it captured *)
    hpc, hsub,
    (* drivers: where each loop stands, items it took but has not appended, *)
    (* tool futures in flight, needs_follow_up of the current round         *)
    dpc, held, calls, more,
    (* what the hosts did: the call that started each submission, the       *)
    (* submissions abort calls captured, the inputs handed over (a Blank    *)
    (* one carries no item); and the number of the model's next output      *)
    origin, asked, accepted, nextOutput

sessionVars == <<status, active, queue, blank, conversation, nextSub>>
hostVars == <<hpc, hsub>>
driverVars == <<dpc, held, calls, more>>
historyVars == <<origin, asked, accepted, nextOutput>>
vars == <<sessionVars, events, cancelled, hostVars, driverVars, historyVars>>

SessionTypes ==
    /\ status \in {"Idle", "Running", "Aborting"}
    /\ active \in 0 .. MaxSub
    /\ queue \in [QueueNames -> Seq(Item)]
    /\ blank \in SUBSET QueueNames
    /\ conversation \in Seq(Item)
    /\ nextSub \in 1 .. MaxSub + 1
    /\ events \in Seq(Event)

TaskTypes ==
    /\ cancelled \in [Subs -> BOOLEAN]
    /\ hpc \in [Hosts -> HostPC]
    /\ hsub \in [Hosts -> 0 .. MaxSub]
    /\ dpc \in [Subs -> DriverPC]
    /\ held \in [Subs -> Seq(Item)]
    /\ calls \in [Subs -> Seq(Ids)]
    /\ more \in [Subs -> BOOLEAN]

HistoryTypes ==
    /\ origin \in [Subs -> {"none", "run", "continue"}]
    /\ asked \in Seq(Subs)
    /\ accepted \in Seq(QueueNames \cup {"Primary", "Blank"})
    /\ nextOutput \in 1 .. MaxOutput + 1

TypeOK == SessionTypes /\ TaskTypes /\ HistoryTypes

Init ==
    /\ status = "Idle"
    /\ active = 0
    /\ queue = [q \in QueueNames |-> << >>]
    /\ blank = {}
    /\ conversation = << >>
    /\ nextSub = 1
    /\ events = << [kind |-> "Idle", sub |-> 0, more |-> FALSE] >>
    /\ cancelled = [s \in Subs |-> FALSE]
    /\ hpc = [h \in Hosts |-> "idle"]
    /\ hsub = [h \in Hosts |-> 0]
    /\ dpc = [s \in Subs |-> "unborn"]
    /\ held = [s \in Subs |-> << >>]
    /\ calls = [s \in Subs |-> << >>]
    /\ more = [s \in Subs |-> FALSE]
    /\ origin = [s \in Subs |-> "none"]
    /\ asked = << >>
    /\ accepted = << >>
    /\ nextOutput = 1

(***************************************************************************)
(* Helpers.                                                                *)
(***************************************************************************)
StatusEvent(st) == [kind |-> st, sub |-> 0, more |-> FALSE]
TurnEvent(k, s) == [kind |-> k, sub |-> s, more |-> FALSE]
Emit(e) == events' = Append(events, e)

Fresh(k) == [kind |-> k, id |-> Len(accepted) + 1]

(* A host hands over one more input: k is its queue, or Blank.             *)
HandOver(k) ==
    /\ Len(accepted) < MaxInput
    /\ accepted' = Append(accepted, k)

HasBootstrapInput == blank # {} \/ \E q \in QueueNames : queue[q] # << >>

AssistantTail ==
    conversation # << >> /\ conversation[Len(conversation)].kind = "Message"

CanContinueFromHistory == ~AssistantTail

Goto(s, pc) == dpc' = [dpc EXCEPT ![s] = pc]

(* drain_input_queue: pop every queued input under one lock; their items   *)
(* stay with the driver until it takes the lock again to append them.      *)
DrainInputQueue(s, q, taken, none) ==
    /\ queue' = [queue EXCEPT ![q] = << >>]
    /\ blank' = blank \ {q}
    /\ held' = [held EXCEPT ![s] = queue[q]]
    /\ Goto(s, IF queue[q] # << >> THEN taken ELSE none)
    /\ UNCHANGED <<status, active, conversation, nextSub, events>>

(* Seeded fault: the appended items are not taken from the driver.         *)
MutAppendItems(s, next) ==
    /\ conversation' = conversation \o held[s]
    /\ Goto(s, next)
    /\ UNCHANGED <<status, active, queue, blank, nextSub, events, held>>

(* Seeded fault: a cancelled driver leaves with what it drained.           *)
MutAppendCancelled(s, next) ==
    /\ Goto(s, IF cancelled[s] THEN "failed" ELSE next)
    /\ conversation' = IF cancelled[s] THEN conversation ELSE conversation \o held[s]
    /\ held' = IF cancelled[s] THEN held ELSE [held EXCEPT ![s] = << >>]
    /\ UNCHANGED <<status, active, queue, blank, nextSub, events>>

(* append_items: under the lock, extend the conversation by what is held.  *)
AppendItems(s, next) ==
    /\ conversation' = conversation \o held[s]
    /\ held' = [held EXCEPT ![s] = << >>]
    /\ Goto(s, next)
    /\ UNCHANGED <<status, active, queue, blank, nextSub, events>>

(* Send one turn event and move on: the session state is not touched.      *)
EmitAndGo(s, e, next) ==
    /\ Emit(e)
    /\ Goto(s, next)
    /\ UNCHANGED <<sessionVars, held>>

(***************************************************************************)
(* Host calls.                                                             *)
(***************************************************************************)
(* Seeded fault: the slot is judged by the status, so a turn that is being *)
(* aborted does not count as running.                                      *)
MutAcquireTurn(h, how, items) ==
    /\ status # "Running"
    /\ nextSub <= MaxSub
    /\ status' = "Running"
    /\ active' = nextSub
    /\ nextSub' = nextSub + 1
    /\ held' = [held EXCEPT ![nextSub] = items]
    /\ origin' = [origin EXCEPT ![nextSub] = how]
    /\ hpc' = [hpc EXCEPT ![h] = "acquired"]
    /\ hsub' = [hsub EXCEPT ![h] = nextSub]

(* spawn_turn_loop, locked part: the caller gets SessionBusy when a turn   *)
(* is active, else takes the slot under a fresh submission id.             *)
AcquireTurn(h, how, items) ==
    /\ active = 0
    /\ nextSub <= MaxSub
    /\ status' = "Running"
    /\ active' = nextSub
    /\ nextSub' = nextSub + 1
    /\ held' = [held EXCEPT ![nextSub] = items]
    /\ origin' = [origin EXCEPT ![nextSub] = how]
    /\ hpc' = [hpc EXCEPT ![h] = "acquired"]
    /\ hsub' = [hsub EXCEPT ![h] = nextSub]

Run(h) ==
    /\ hpc[h] = "idle"
    /\ \/ /\ HandOver("Primary")
          /\ AcquireTurn(h, "run", << Fresh("Primary") >>)
       \/ /\ HandOver("Blank")
          /\ AcquireTurn(h, "run", << >>)
    /\ UNCHANGED <<queue, blank, conversation, events, cancelled, dpc, calls,
                   more, asked, nextOutput>>

(* continue_turn checks under the lock, releases it, and acquires again.   *)
ContinueCheck(h) ==
    /\ hpc[h] = "idle"
    /\ active = 0
    /\ conversation # << >> \/ HasBootstrapInput
    /\ HasBootstrapInput \/ CanContinueFromHistory
    /\ hpc' = [hpc EXCEPT ![h] = "checked"]
    /\ UNCHANGED <<sessionVars, events, cancelled, hsub, driverVars, historyVars>>

ContinueAcquire(h) ==
    /\ hpc[h] = "checked"
    /\ AcquireTurn(h, "continue", << >>)
    /\ UNCHANGED <<queue, blank, conversation, events, cancelled, dpc, calls,
                   more, asked, accepted, nextOutput>>

ContinueBusy(h) ==
    /\ hpc[h] = "checked"
    /\ active # 0 \/ nextSub > MaxSub
    /\ hpc' = [hpc EXCEPT ![h] = "idle"]
    /\ UNCHANGED <<sessionVars, events, cancelled, hsub, driverVars, historyVars>>

(* spawn_turn_loop, after the lock: announce Running, spawn the driver.    *)
Launch(h) ==
    /\ hpc[h] = "acquired"
    /\ Emit(StatusEvent("Running"))
    /\ Goto(hsub[h], "top")
    /\ hpc' = [hpc EXCEPT ![h] = "idle"]
    /\ hsub' = [hsub EXCEPT ![h] = 0]
    /\ UNCHANGED <<sessionVars, cancelled, held, calls, more, historyVars>>

(* Seeded fault: an input handed over during a turn is written at once.    *)
MutEnqueueWrites(h, q) ==
    /\ hpc[h] = "idle"
    /\ HandOver(q)
    /\ conversation' = Append(conversation, Fresh(q))
    /\ UNCHANGED <<status, active, queue, blank, nextSub, events, cancelled,
                   hostVars, driverVars, origin, asked, nextOutput>>

(* steer and follow_up: push under the lock, whatever the session is doing. *)
Enqueue(h, q) ==
    /\ hpc[h] = "idle"
    /\ \/ /\ HandOver(q)
          /\ queue' = [queue EXCEPT ![q] = Append(@, Fresh(q))]
          /\ UNCHANGED blank
       \/ /\ HandOver("Blank")
          /\ blank' = blank \cup {q}
          /\ UNCHANGED queue
    /\ UNCHANGED <<status, active, conversation, nextSub, events, cancelled,
                   hostVars, driverVars, origin, asked, nextOutput>>

(* abort_current_turn: clone the active token under the lock, announce     *)
(* Aborting, then cancel the token that was cloned.                        *)
AbortCapture(h) ==
    /\ hpc[h] = "idle"
    /\ active # 0
    /\ Len(asked) < MaxAbort
    /\ status' = "Aborting"
    /\ asked' = Append(asked, active)
    /\ hpc' = [hpc EXCEPT ![h] = "aborting"]
    /\ hsub' = [hsub EXCEPT ![h] = active]
    /\ UNCHANGED <<active, queue, blank, conversation, nextSub, events,
                   cancelled, driverVars, origin, accepted, nextOutput>>

AbortAnnounce(h) ==
    /\ hpc[h] = "aborting"
    /\ Emit(StatusEvent("Aborting"))
    /\ hpc' = [hpc EXCEPT ![h] = "cancelling"]
    /\ UNCHANGED <<sessionVars, cancelled, hsub, driverVars, historyVars>>

(* Seeded fault: the token is looked up when it is cancelled, not before.  *)
MutAbortCancel(h) ==
    /\ hpc[h] = "cancelling"
    /\ cancelled' = [cancelled EXCEPT
                       ![IF active = 0 THEN hsub[h] ELSE active] = TRUE]
    /\ hpc' = [hpc EXCEPT ![h] = "idle"]
    /\ hsub' = [hsub EXCEPT ![h] = 0]
    /\ UNCHANGED <<sessionVars, events, driverVars, historyVars>>

AbortCancel(h) ==
    /\ hpc[h] = "cancelling"
    /\ cancelled' = [cancelled EXCEPT ![hsub[h]] = TRUE]
    /\ hpc' = [hpc EXCEPT ![h] = "idle"]
    /\ hsub' = [hsub EXCEPT ![h] = 0]
    /\ UNCHANGED <<sessionVars, events, driverVars, historyVars>>

(***************************************************************************)
(* The driver: drive_turn_loop.                                            *)
(***************************************************************************)
(* Loop head: a cancelled driver leaves; else the items the call carried   *)
(* are appended, or the steering queue is drained, then the follow-ups.    *)
TopCancelled(s) ==
    /\ dpc[s] = "top"
    /\ cancelled[s]
    /\ EmitAndGo(s, TurnEvent("Aborted", s), "release")

TopInitial(s) ==
    /\ dpc[s] = "top"
    /\ ~cancelled[s]
    /\ held[s] # << >>
    /\ AppendItems(s, "start")

TopBootstrap(s) ==
    /\ dpc[s] = "top"
    /\ ~cancelled[s]
    /\ held[s] = << >>
    /\ DrainInputQueue(s, "Steering", "bootAppend", "bootFollow")

BootstrapFollowUp(s) ==
    /\ dpc[s] = "bootFollow"
    /\ DrainInputQueue(s, "FollowUp", "bootAppend", "bootCheck")

BootstrapAppend(s) ==
    /\ dpc[s] = "bootAppend"
    /\ AppendItems(s, "start")

BootstrapCheck(s) ==
    /\ dpc[s] = "bootCheck"
    /\ \/ /\ conversation = << >>
          /\ EmitAndGo(s, TurnEvent("Failed", s), "release")
       \/ /\ conversation # << >>
          /\ Goto(s, "start")
          /\ UNCHANGED <<sessionVars, events, held>>

StartTurn(s) ==
    /\ dpc[s] = "start"
    /\ EmitAndGo(s, TurnEvent("Started", s), "build")

(* build_turn_request clones the conversation; a skill provider may fail.  *)
BuildRequest(s) ==
    /\ dpc[s] = "build"
    /\ \/ /\ Goto(s, "open")
          /\ UNCHANGED <<sessionVars, events, held>>
       \/ EmitAndGo(s, TurnEvent("Failed", s), "release")

(* The driver steps above leave the tool futures of the round alone.       *)
LoopStep(s) ==
    /\ \/ TopCancelled(s) \/ TopInitial(s) \/ TopBootstrap(s)
       \/ BootstrapFollowUp(s) \/ BootstrapAppend(s) \/ BootstrapCheck(s)
       \/ StartTurn(s) \/ BuildRequest(s)
    /\ UNCHANGED <<cancelled, hostVars, calls, more, historyVars>>

(* runtime_session.run_turn: a stream to read, or an error.  Cancellation  *)
(* is not looked at here: a request that hangs keeps the turn.             *)
OpenStream(s) ==
    /\ dpc[s] = "open"
    /\ \E next \in {"stream", "failed"} : Goto(s, next)
    /\ more' = [more EXCEPT ![s] = FALSE]
    /\ UNCHANGED <<sessionVars, events, cancelled, hostVars, held, calls,
                   historyVars>>

(* The kernel reads one event; the processor records it before the next.   *)
Record(item) == conversation' = Append(conversation, item)

StreamMessage(s) ==
    /\ dpc[s] = "stream"
    /\ nextOutput <= MaxOutput
    /\ Record([kind |-> "Message", id |-> nextOutput])
    /\ nextOutput' = nextOutput + 1
    /\ UNCHANGED <<status, active, queue, blank, nextSub, events, cancelled,
                   hostVars, driverVars, origin, asked, accepted>>

StreamToolCall(s) ==
    /\ dpc[s] = "stream"
    /\ nextOutput <= MaxOutput
    /\ Record([kind |-> "Call", id |-> nextOutput])
    /\ calls' = [calls EXCEPT ![s] = Append(@, nextOutput)]
    /\ more' = [more EXCEPT ![s] = TRUE]
    /\ nextOutput' = nextOutput + 1
    /\ UNCHANGED <<status, active, queue, blank, nextSub, events, cancelled,
                   hostVars, dpc, held, origin, asked, accepted>>

(* TurnEvent::Completed ends the read loop; the kernel then awaits tools.  *)
StreamCompleted(s) ==
    /\ dpc[s] = "stream"
    /\ Goto(s, "tools")
    /\ UNCHANGED <<sessionVars, events, cancelled, hostVars, held, calls, more,
                   historyVars>>

(* The round ends in an error and the tool futures still in flight are     *)
(* dropped with the kernel's queue of them.                                *)
Interrupt(s) ==
    /\ Goto(s, "failed")
    /\ calls' = [calls EXCEPT ![s] = << >>]
    /\ UNCHANGED <<sessionVars, events, cancelled, hostVars, held, more,
                   historyVars>>

(* The stream yields an error, or ends before Completed.                   *)
StreamError(s) == dpc[s] = "stream" /\ Interrupt(s)

(* Seeded fault: the token is looked at only while no tool is in flight.   *)
MutStreamCancelled(s) ==
    dpc[s] = "stream" /\ cancelled[s] /\ calls[s] = << >> /\ Interrupt(s)

(* or_cancel: the token wins over the next event.                          *)
StreamCancelled(s) == dpc[s] = "stream" /\ cancelled[s] /\ Interrupt(s)

(* Seeded fault: results are recorded as tools finish, not in call order.  *)
MutRecordToolResult(s) ==
    /\ dpc[s] = "tools"
    /\ \E i \in DOMAIN calls[s] :
           /\ Record([kind |-> "Result", id |-> calls[s][i]])
           /\ calls' = [calls EXCEPT ![s] = SubSeq(@, 1, i - 1)
                                             \o SubSeq(@, i + 1, Len(@))]
    /\ UNCHANGED <<status, active, queue, blank, nextSub, events, cancelled,
                   hostVars, dpc, held, more, historyVars>>

(* FuturesOrdered yields results in call order; each is recorded.          *)
RecordToolResult(s) ==
    /\ dpc[s] = "tools"
    /\ calls[s] # << >>
    /\ Record([kind |-> "Result", id |-> Head(calls[s])])
    /\ calls' = [calls EXCEPT ![s] = Tail(@)]
    /\ UNCHANGED <<status, active, queue, blank, nextSub, events, cancelled,
                   hostVars, dpc, held, more, historyVars>>

(* The tool answers (a failure is reported to the model as a result).      *)
ToolReturns(s) == RecordToolResult(s)

(* The executor's select: a cancelled call is answered without the tool.   *)
ToolAborted(s) == cancelled[s] /\ RecordToolResult(s)

(* ToolError::Fatal fails the round.                                       *)
ToolFatal(s) == dpc[s] = "tools" /\ calls[s] # << >> /\ Interrupt(s)

KernelFinish(s) ==
    /\ dpc[s] = "tools"
    /\ calls[s] = << >>
    /\ Goto(s, "finish")
    /\ UNCHANGED <<sessionVars, events, cancelled, hostVars, held, calls, more,
                   historyVars>>

(* Seeded fault: a failed round goes round the loop again.                 *)
MutFailTurn(s) ==
    /\ dpc[s] = "failed"
    /\ EmitAndGo(s, TurnEvent(IF cancelled[s] THEN "Aborted" ELSE "Failed", s),
                 IF cancelled[s] THEN "release" ELSE "top")

(* An error of a cancelled round counts as an abort.                       *)
FailTurn(s) ==
    /\ dpc[s] = "failed"
    /\ EmitAndGo(s, TurnEvent(IF cancelled[s] THEN "Aborted" ELSE "Failed", s),
                 "release")

CompleteTurn(s) ==
    /\ dpc[s] = "finish"
    /\ EmitAndGo(s, [TurnEvent("Completed", s) EXCEPT !.more = more[s]],
                 "completed")

(* After a completed round: leave if cancelled, go round again for the     *)
(* tool results, else drain steering, else follow-ups, else leave.         *)
AfterCompleted(s) ==
    /\ dpc[s] = "completed"
    /\ \/ /\ cancelled[s]
          /\ EmitAndGo(s, TurnEvent("Aborted", s), "release")
       \/ /\ ~cancelled[s]
          /\ more[s]
          /\ Goto(s, "top")
          /\ UNCHANGED <<sessionVars, events, held>>
       \/ /\ ~cancelled[s]
          /\ ~more[s]
          /\ DrainInputQueue(s, "Steering", "tailAppend", "tailFollow")

(* Seeded fault: an empty follow-up queue goes round the loop again.       *)
MutTailFollowUp(s) ==
    /\ dpc[s] = "tailFollow"
    /\ DrainInputQueue(s, "FollowUp", "tailAppend", "completed")

TailFollowUp(s) ==
    /\ dpc[s] = "tailFollow"
    /\ DrainInputQueue(s, "FollowUp", "tailAppend", "release")

TailAppend(s) ==
    /\ dpc[s] = "tailAppend"
    /\ AppendItems(s, "top")

(* After the loop: free the slot under the lock, then announce Idle.       *)
Release(s) ==
    /\ dpc[s] = "release"
    /\ status' = "Idle"
    /\ active' = 0
    /\ Goto(s, "announce")
    /\ UNCHANGED <<queue, blank, conversation, nextSub, events, held>>

Announce(s) ==
    /\ dpc[s] = "announce"
    /\ EmitAndGo(s, StatusEvent("Idle"), "gone")

EndStep(s) ==
    /\ \/ FailTurn(s) \/ CompleteTurn(s) \/ AfterCompleted(s)
       \/ TailFollowUp(s) \/ TailAppend(s) \/ Release(s) \/ Announce(s)
    /\ UNCHANGED <<cancelled, hostVars, calls, more, historyVars>>

(***************************************************************************)
(* The specification.                                                      *)
(***************************************************************************)
HostStep(h) ==
    \/ Run(h) \/ ContinueCheck(h) \/ ContinueAcquire(h) \/ ContinueBusy(h)
    \/ Launch(h)
    \/ \E q \in QueueNames : Enqueue(h, q)
    \/ AbortCapture(h) \/ AbortAnnounce(h) \/ AbortCancel(h)

DriverStep(s) ==
    \/ LoopStep(s) \/ OpenStream(s)
    \/ StreamMessage(s) \/ StreamToolCall(s) \/ StreamCompleted(s)
    \/ StreamError(s) \/ StreamCancelled(s)
    \/ ToolReturns(s) \/ ToolAborted(s) \/ ToolFatal(s) \/ KernelFinish(s)
    \/ EndStep(s)

(* No call is under way and no driver is left: the session rests until its *)
(* host calls again.                                                       *)
Quiescent ==
    /\ active = 0
    /\ \A h \in Hosts : hpc[h] = "idle"
    /\ \A s \in Subs : dpc[s] \in {"unborn", "gone"}
    /\ UNCHANGED vars

Next == (\E h \in Hosts : HostStep(h)) \/ (\E s \in Subs : DriverStep(s)) \/ Quiescent

Spec == Init /\ [][Next]_vars

(* The steps a task takes by itself once it is scheduled, and the steps    *)
(* that cancellation makes possible.  The runtime's answer to a request    *)
(* (OpenStream), the model's stream and the tools are not among them.      *)
OwnSteps(s) ==
    \/ LoopStep(s) \/ StreamCancelled(s) \/ ToolAborted(s)
    \/ KernelFinish(s) \/ EndStep(s)

FinishCall(h) ==
    ContinueAcquire(h) \/ ContinueBusy(h) \/ Launch(h)
    \/ AbortAnnounce(h) \/ AbortCancel(h)

FairSpec ==
    /\ Spec
    /\ \A s \in Subs : WF_vars(OwnSteps(s))
    /\ \A h \in Hosts : WF_vars(FinishCall(h))

(* The runtime answers every request, with a stream or an error; every     *)
(* stream ends and every tool answers.  None of it is the session's to     *)
(* promise, and the first is awaited without a look at the token.          *)
Opens == \A s \in Subs : WF_vars(OpenStream(s))

Answers ==
    /\ Opens
    /\ \A s \in Subs : WF_vars(StreamCompleted(s) \/ StreamError(s))
    /\ \A s \in Subs : WF_vars(ToolReturns(s) \/ ToolFatal(s))

(***************************************************************************)
(* Properties.                                                             *)
(***************************************************************************)
InLoop == DriverPC \ {"unborn", "announce", "gone"}

(* Where the events of a submission are on the channel, and where the items *)
(* of a kind are in a sequence of them.                                    *)
EventsOf(s) == {i \in DOMAIN events : events[i].sub = s}
Where(seq, kind) == {i \in DOMAIN seq : seq[i].kind = kind}
IdsOf(seq, kind) == {seq[i].id : i \in Where(seq, kind)}
InOrder(seq, kind) == \A i, j \in Where(seq, kind) : i < j => seq[i].id < seq[j].id

(* Reported status and slot agree: every path that takes or frees the slot *)
(* sets both, and an abort call racing the end of its turn cannot leave    *)
(* "Aborting" behind on a session that runs nothing.                       *)
StatusMatchesTurn == (status = "Idle") <=> (active = 0)

(* At most one task works on the session: a driver between its spawn and   *)
(* its release, and a host between acquiring the slot and spawning, own    *)
(* the active submission, although calls race and old drivers linger to    *)
(* announce Idle.                                                          *)
OneDriver ==
    /\ \A s \in Subs : dpc[s] \in InLoop => active = s
    /\ \A h \in Hosts : hpc[h] = "acquired"
           => active = hsub[h] /\ dpc[active] = "unborn"

(* Every input a host handed over is in exactly one place: a queue, the    *)
(* hands of a driver, or the conversation.  Draining takes the lock twice, *)
(* with the items in neither the queue nor the conversation in between.    *)
Stores == << conversation, queue["Steering"], queue["FollowUp"] >> \o held
InputOnce ==
    \A n \in DOMAIN accepted : accepted[n] # "Blank" =>
        LET input == [kind |-> accepted[n], id |-> n]
            places == UNION {{p} \X {k \in DOMAIN Stores[p] : Stores[p][k] = input} :
                                p \in DOMAIN Stores}
        IN  Cardinality(places) = 1

(* Inputs of one queue reach the conversation in the order in which they   *)
(* were handed over, across turns and across the two-lock drain.           *)
InputInOrder ==
    \A q \in QueueNames :
        LET taken == IF active = 0 THEN << >> ELSE held[active]
        IN  InOrder(conversation \o taken \o queue[q], q)

(* The only input a finished turn drops is the one it was started with,    *)
(* and only when an abort came before its first round began.               *)
DroppedOnlyBeforeStart ==
    \A s \in Subs : dpc[s] = "gone" /\ held[s] # << >> =>
        /\ held[s][1].kind = "Primary"
        /\ \E i \in DOMAIN asked : asked[i] = s
        /\ \E i \in DOMAIN events :
               EventsOf(s) = {i} /\ events[i] = TurnEvent("Aborted", s)

(* No input of the host lands between a tool call and its result, however  *)
(* steering, follow-ups and new runs interleave with the round.            *)
NoInputInsideToolRound ==
    \A i, j \in DOMAIN conversation :
        /\ conversation[i].kind = "Call"
        /\ conversation[j].kind = "Result"
        /\ conversation[i].id = conversation[j].id
        => /\ i < j
           /\ \A k \in i .. j : conversation[k].kind \notin QueueNames \cup {"Primary"}

(* Until a round is interrupted, the results recorded so far followed by   *)
(* the futures in flight are the calls the model made, in the model's      *)
(* order (its calls are numbered as it makes them): no call is answered    *)
(* twice, skipped, or left behind at the end of a completed round.         *)
Interrupted ==
    \/ \E i \in DOMAIN events : events[i].kind \in {"Failed", "Aborted"}
    \/ \E s \in Subs : dpc[s] = "failed"
ToolAnswersInOrder ==
    LET inFlight == IF active = 0 THEN << >> ELSE calls[active]
    IN  \/ Interrupted
        \/ /\ InOrder(conversation, "Call") /\ InOrder(conversation, "Result")
           /\ \A m, n \in DOMAIN inFlight : m < n => inFlight[m] < inFlight[n]
           /\ \A id \in IdsOf(conversation, "Result"), n \in DOMAIN inFlight :
                  id < inFlight[n]
           /\ IdsOf(conversation, "Call") =
                  IdsOf(conversation, "Result") \cup {inFlight[n] : n \in DOMAIN inFlight}

(* What a subscriber sees of one submission: rounds Started..Completed,    *)
(* then at most one Failed or Aborted and nothing after it; a driver that  *)
(* is gone left a final outcome.                                           *)
TurnGrammar ==
    \A s \in Subs :
        LET before(i) == {j \in EventsOf(s) : j < i}
            last == events[Max(EventsOf(s))]
        IN  /\ \A i \in EventsOf(s) :
                   /\ events[i].kind = "Completed" =>
                          before(i) # {} /\ events[Max(before(i))].kind = "Started"
                   /\ events[i].kind = "Started" =>
                          before(i) = {} \/ events[Max(before(i))].kind = "Completed"
                   /\ events[i].kind \notin {"Started", "Completed"} =>
                          i = Max(EventsOf(s))
            /\ dpc[s] = "gone" =>
                   /\ EventsOf(s) # {}
                   /\ last.kind \in {"Completed", "Failed", "Aborted"}
                   /\ ~last.more

(* Events of two submissions never interleave on the channel, although a   *)
(* new turn may start while the old driver is still about to announce Idle. *)
SubmissionsInOrder ==
    \A i, j \in DOMAIN events :
        i < j /\ events[i].sub # 0 /\ events[j].sub # 0
            => events[i].sub <= events[j].sub

(* A turn is reported aborted only if some abort call captured that turn:  *)
(* an abort that cancels late, when the next turn already runs, must not   *)
(* reach it.                                                               *)
AbortHitsItsTurn ==
    \A i \in DOMAIN events : events[i].kind = "Aborted" =>
        \E k \in DOMAIN asked : asked[k] = events[i].sub

(* The conversation only grows, and only while one turn holds the slot     *)
(* before and after the write.                                             *)
OnlyTheTurnWrites ==
    [][conversation' # conversation =>
         /\ active # 0 /\ active' = active
         /\ Len(conversation') > Len(conversation)
         /\ SubSeq(conversation', 1, Len(conversation)) = conversation]_vars

(* An abort that was cancelled through ends the turn if the runtime answers *)
(* the requests it is sent, even if no stream says another word and no     *)
(* tool ever answers: streams are read and tools are awaited under the     *)
(* token, the request is not.                                              *)
AbortEndsTurn == Opens => \A s \in Subs : cancelled[s] ~> active # s

(* If requests are answered, streams end and tools answer, an accepted     *)
(* turn ends and the session announces Idle for it.                        *)
TurnEnds == Answers => \A s \in Subs : (active = s) ~> (dpc[s] = "gone")

(* Without that assumption an abort may leave its turn where it is.        *)
AbortEndsHungTurn == \A s \in Subs : cancelled[s] ~> active # s

(* What Error::InvalidContinuation and its test promise: a turn started by *)
(* continue_turn never asks the model to follow its own last message.      *)
ContinueNotAfterAssistant ==
    \A s \in Subs :
        /\ origin[s] = "continue"
        /\ dpc[s] = "open"
        /\ \E i \in DOMAIN events : EventsOf(s) = {i} /\ events[i].kind = "Started"
        => ~AssistantTail

(***************************************************************************)
(* Refinement: the session implements the ledger.  Items a driver drained  *)
(* and is about to append count as written already.                        *)
(***************************************************************************)
HeldInput(pcs) == IF active # 0 /\ dpc[active] \in pcs THEN held[active] ELSE << >>

Ledger == INSTANCE SessionLedger WITH
    Queues <- QueueNames,
    Items <- Item,
    turn <- active,
    turns <- nextSub - 1,
    primary <- HeldInput({"unborn", "top", "release"}),
    pending <- queue,
    transcript <- conversation \o HeldInput({"bootAppend", "tailAppend"})

(* The two-lock drain, the gap between a call's check and its acquisition  *)
(* and the drivers that linger are invisible: every step of the session is *)
(* a step of the ledger or none.                                           *)
ImplementsLedger == Ledger!LedgerSpec
=============================================================================
