------------------------- MODULE AgentSessionProofs -------------------------
(***************************************************************************)
(* Theorems about AgentSession for every number of hosts, submissions,     *)
(* inputs, outputs and aborts.                                             *)
(***************************************************************************)
EXTENDS AgentSession, FiniteSetTheorems, SequenceTheorems, TLAPS

(***************************************************************************)
(* Type correctness.                                                       *)
(***************************************************************************)
LEMMA EventsTyped ==
    /\ \A st \in {"Running", "Aborting", "Idle"} : StatusEvent(st) \in Event
    /\ \A k \in {"Started", "Completed", "Failed", "Aborted"}, s \in Subs :
           TurnEvent(k, s) \in Event
    /\ \A s \in Subs, b \in BOOLEAN :
           [TurnEvent("Completed", s) EXCEPT !.more = b] \in Event
  BY BoundsAssumption DEF StatusEvent, TurnEvent, Event, Subs

LEMMA FreshTyped ==
  ASSUME HistoryTypes, Len(accepted) < MaxInput,
         NEW k \in QueueNames \cup {"Primary"}
  PROVE  Fresh(k) \in Item
<1>1. Len(accepted) + 1 \in Ids
  BY BoundsAssumption, Len(accepted) \in Nat DEF HistoryTypes, Ids
<1> QED
  BY <1>1 DEF Fresh, Item, QueueNames

LEMMA TypeInit == Init => TypeOK
<1> SUFFICES ASSUME Init PROVE TypeOK
  OBVIOUS
<1> USE BoundsAssumption DEF Init
<1>1. SessionTypes
  BY EventsTyped DEF SessionTypes, QueueNames, StatusEvent
<1>2. TaskTypes
  BY DEF TaskTypes, Subs, HostPC, DriverPC
<1>3. HistoryTypes
  BY DEF HistoryTypes, Subs
<1> QED
  BY <1>1, <1>2, <1>3 DEF TypeOK

LEMMA HostTypeStep ==
  ASSUME TypeOK, NEW h \in Hosts, HostStep(h)
  PROVE  TypeOK'
<1> USE BoundsAssumption
<1>1. CASE Run(h)
  <2>1. /\ active = 0 /\ nextSub \in Subs /\ status' = "Running"
        /\ active' = nextSub /\ nextSub' = nextSub + 1
        /\ hpc' = [hpc EXCEPT ![h] = "acquired"]
        /\ hsub' = [hsub EXCEPT ![h] = nextSub]
        /\ origin' = [origin EXCEPT ![nextSub] = "run"]
        /\ UNCHANGED <<queue, blank, conversation, events, cancelled, dpc,
                       calls, more, asked, nextOutput>>
    BY <1>1 DEF Run, AcquireTurn, TypeOK, SessionTypes, Subs
  <2>2. /\ held' \in [Subs -> Seq(Item)]
        /\ accepted' \in Seq(QueueNames \cup {"Primary", "Blank"})
    <3>1. CASE HandOver("Primary") /\ AcquireTurn(h, "run", << Fresh("Primary") >>)
      <4>1. Fresh("Primary") \in Item
        BY <3>1, FreshTyped DEF HandOver, TypeOK
      <4> QED
        BY <2>1, <3>1, <4>1 DEF HandOver, AcquireTurn, TypeOK, TaskTypes, HistoryTypes
    <3>2. CASE HandOver("Blank") /\ AcquireTurn(h, "run", << >>)
      BY <2>1, <3>2 DEF HandOver, AcquireTurn, TypeOK, TaskTypes, HistoryTypes
    <3> QED
      BY <1>1, <3>1, <3>2 DEF Run
  <2>3. SessionTypes'
    BY <2>1 DEF TypeOK, SessionTypes, Subs
  <2>6. hpc' \in [Hosts -> HostPC]
    BY <2>1 DEF TypeOK, TaskTypes, HostPC
  <2>7. hsub' \in [Hosts -> 0 .. MaxSub]
    BY <2>1 DEF TypeOK, TaskTypes, Subs
  <2>4. TaskTypes'
    BY <2>1, <2>2, <2>6, <2>7 DEF TypeOK, TaskTypes
  <2>5. HistoryTypes'
    BY <2>1, <2>2 DEF TypeOK, HistoryTypes
  <2> QED
    BY <2>3, <2>4, <2>5 DEF TypeOK
<1>2. CASE ContinueCheck(h)
  BY <1>2 DEF TypeOK, SessionTypes, TaskTypes, HistoryTypes, ContinueCheck,
              sessionVars, driverVars, historyVars, HostPC
<1>3. CASE ContinueAcquire(h)
  BY <1>3 DEF TypeOK, SessionTypes, TaskTypes, HistoryTypes, ContinueAcquire,
              AcquireTurn, Subs, HostPC
<1>4. CASE ContinueBusy(h)
  BY <1>4 DEF TypeOK, SessionTypes, TaskTypes, HistoryTypes, ContinueBusy,
              sessionVars, driverVars, historyVars, HostPC
<1>5. CASE Launch(h)
  <2>1. SessionTypes'
    BY <1>5, EventsTyped DEF Launch, Emit, sessionVars, TypeOK, SessionTypes
  <2>4. hpc' \in [Hosts -> HostPC]
    BY <1>5 DEF Launch, TypeOK, TaskTypes, HostPC
  <2>5. hsub' \in [Hosts -> 0 .. MaxSub]
    BY <1>5 DEF Launch, TypeOK, TaskTypes
  <2>6. dpc' \in [Subs -> DriverPC]
    BY <1>5 DEF Launch, Goto, TypeOK, TaskTypes, DriverPC
  <2>2. TaskTypes'
    BY <1>5, <2>4, <2>5, <2>6 DEF Launch, TypeOK, TaskTypes
  <2>3. HistoryTypes'
    BY <1>5 DEF Launch, historyVars, TypeOK, HistoryTypes
  <2> QED
    BY <2>1, <2>2, <2>3 DEF TypeOK
<1>6. ASSUME NEW q \in QueueNames, Enqueue(h, q) PROVE TypeOK'
  <2>1. /\ queue' \in [QueueNames -> Seq(Item)]
        /\ blank' \in SUBSET QueueNames
        /\ accepted' \in Seq(QueueNames \cup {"Primary", "Blank"})
    <3>1. CASE HandOver(q) /\ queue' = [queue EXCEPT ![q] = Append(@, Fresh(q))]
               /\ UNCHANGED blank
      <4>1. Fresh(q) \in Item
        BY <3>1, FreshTyped DEF HandOver, TypeOK
      <4> QED
        BY <3>1, <4>1 DEF HandOver, TypeOK, SessionTypes, HistoryTypes
    <3>2. CASE HandOver("Blank") /\ blank' = blank \cup {q} /\ UNCHANGED queue
      BY <3>2 DEF HandOver, TypeOK, SessionTypes, HistoryTypes
    <3> QED
      BY <1>6, <3>1, <3>2 DEF Enqueue
  <2> QED
    BY <1>6, <2>1 DEF Enqueue, TypeOK, SessionTypes, TaskTypes, HistoryTypes,
                      hostVars, driverVars
<1>7. CASE AbortCapture(h)
  <2>1. active \in Subs
    BY <1>7 DEF AbortCapture, TypeOK, SessionTypes, Subs
  <2>2. hpc' \in [Hosts -> HostPC]
    BY <1>7 DEF AbortCapture, TypeOK, TaskTypes, HostPC
  <2>3. hsub' \in [Hosts -> 0 .. MaxSub]
    BY <1>7, <2>1 DEF AbortCapture, TypeOK, TaskTypes, Subs
  <2>4. TaskTypes'
    BY <1>7, <2>2, <2>3 DEF AbortCapture, TypeOK, TaskTypes, driverVars
  <2>5. SessionTypes' /\ HistoryTypes'
    BY <1>7, <2>1 DEF AbortCapture, TypeOK, SessionTypes, HistoryTypes
  <2> QED
    BY <2>4, <2>5 DEF TypeOK
<1>8. CASE AbortAnnounce(h)
  <2>1. hpc' \in [Hosts -> HostPC]
    BY <1>8 DEF AbortAnnounce, TypeOK, TaskTypes, HostPC
  <2>2. events' \in Seq(Event)
    BY <1>8, EventsTyped DEF AbortAnnounce, Emit, TypeOK, SessionTypes
  <2>3. TaskTypes'
    BY <1>8, <2>1 DEF AbortAnnounce, TypeOK, TaskTypes, driverVars
  <2>4. SessionTypes' /\ HistoryTypes'
    BY <1>8, <2>2 DEF AbortAnnounce, TypeOK, SessionTypes, HistoryTypes, sessionVars, historyVars
  <2> QED
    BY <2>3, <2>4 DEF TypeOK
<1>9. CASE AbortCancel(h)
  <2>1. hpc' \in [Hosts -> HostPC]
    BY <1>9 DEF AbortCancel, TypeOK, TaskTypes, HostPC
  <2>2. hsub' \in [Hosts -> 0 .. MaxSub]
    BY <1>9 DEF AbortCancel, TypeOK, TaskTypes
  <2>3. cancelled' \in [Subs -> BOOLEAN]
    BY <1>9 DEF AbortCancel, TypeOK, TaskTypes
  <2>4. TaskTypes'
    BY <1>9, <2>1, <2>2, <2>3 DEF AbortCancel, TypeOK, TaskTypes, driverVars
  <2>5. SessionTypes' /\ HistoryTypes'
    BY <1>9 DEF AbortCancel, TypeOK, SessionTypes, HistoryTypes, sessionVars, historyVars
  <2> QED
    BY <2>4, <2>5 DEF TypeOK
<1> QED
  BY <1>1, <1>2, <1>3, <1>4, <1>5, <1>6, <1>7, <1>8, <1>9 DEF HostStep

(* The three ways a driver step touches the session and its own hold.      *)
DriverTypes == SessionTypes /\ dpc \in [Subs -> DriverPC] /\ held \in [Subs -> Seq(Item)]

LEMMA GotoTyped ==
  ASSUME TaskTypes, NEW s \in Subs, NEW pc \in DriverPC, Goto(s, pc)
  PROVE  dpc' \in [Subs -> DriverPC]
  BY DEF TaskTypes, Goto

LEMMA DrainTyped ==
  ASSUME TypeOK, NEW s \in Subs, NEW q \in QueueNames,
         NEW taken \in DriverPC, NEW none \in DriverPC,
         DrainInputQueue(s, q, taken, none)
  PROVE  DriverTypes'
<1>1. dpc' \in [Subs -> DriverPC]
  BY GotoTyped DEF DrainInputQueue, TypeOK
<1>2. SessionTypes' /\ held' \in [Subs -> Seq(Item)]
  BY DEF DrainInputQueue, TypeOK, SessionTypes, TaskTypes
<1> QED
  BY <1>1, <1>2 DEF DriverTypes

LEMMA AppendTyped ==
  ASSUME TypeOK, NEW s \in Subs, NEW next \in DriverPC, AppendItems(s, next)
  PROVE  DriverTypes'
<1>1. dpc' \in [Subs -> DriverPC]
  BY GotoTyped DEF AppendItems, TypeOK
<1>2. SessionTypes' /\ held' \in [Subs -> Seq(Item)]
  BY DEF AppendItems, TypeOK, SessionTypes, TaskTypes
<1> QED
  BY <1>1, <1>2 DEF DriverTypes

LEMMA EmitTyped ==
  ASSUME TypeOK, NEW s \in Subs, NEW e \in Event, NEW next \in DriverPC,
         EmitAndGo(s, e, next)
  PROVE  DriverTypes'
<1>1. dpc' \in [Subs -> DriverPC]
  BY GotoTyped DEF EmitAndGo, TypeOK
<1>2. SessionTypes' /\ held' \in [Subs -> Seq(Item)]
  BY DEF EmitAndGo, Emit, sessionVars, TypeOK, SessionTypes, TaskTypes
<1> QED
  BY <1>1, <1>2 DEF DriverTypes

LEMMA LoopTypeStep ==
  ASSUME TypeOK, NEW s \in Subs, LoopStep(s)
  PROVE  TypeOK'
<1>1. DriverTypes'
  <2>1. CASE TopCancelled(s)
    BY <2>1, EmitTyped, EventsTyped DEF TopCancelled, DriverPC
  <2>2. CASE TopInitial(s)
    BY <2>2, AppendTyped DEF TopInitial, DriverPC
  <2>3. CASE TopBootstrap(s)
    BY <2>3, DrainTyped DEF TopBootstrap, DriverPC, QueueNames
  <2>4. CASE BootstrapFollowUp(s)
    BY <2>4, DrainTyped DEF BootstrapFollowUp, DriverPC, QueueNames
  <2>5. CASE BootstrapAppend(s)
    BY <2>5, AppendTyped DEF BootstrapAppend, DriverPC
  <2>6. CASE BootstrapCheck(s)
    <3>1. CASE EmitAndGo(s, TurnEvent("Failed", s), "release")
      BY <3>1, EmitTyped, EventsTyped DEF DriverPC
    <3>2. CASE Goto(s, "start") /\ UNCHANGED <<sessionVars, events, held>>
      BY <3>2, GotoTyped DEF DriverPC, TypeOK, DriverTypes, SessionTypes,
                             TaskTypes, sessionVars
    <3> QED
      BY <2>6, <3>1, <3>2 DEF BootstrapCheck
  <2>7. CASE StartTurn(s)
    BY <2>7, EmitTyped, EventsTyped DEF StartTurn, DriverPC
  <2>8. CASE BuildRequest(s)
    <3>1. CASE EmitAndGo(s, TurnEvent("Failed", s), "release")
      BY <3>1, EmitTyped, EventsTyped DEF DriverPC
    <3>2. CASE Goto(s, "open") /\ UNCHANGED <<sessionVars, events, held>>
      BY <3>2, GotoTyped DEF DriverPC, TypeOK, DriverTypes, SessionTypes,
                             TaskTypes, sessionVars
    <3> QED
      BY <2>8, <3>1, <3>2 DEF BuildRequest
  <2> QED
    BY <2>1, <2>2, <2>3, <2>4, <2>5, <2>6, <2>7, <2>8 DEF LoopStep
<1>2. UNCHANGED <<cancelled, hpc, hsub, calls, more, origin, asked, accepted,
                  nextOutput>>
  BY DEF LoopStep, hostVars, historyVars
<1> QED
  BY <1>1, <1>2 DEF DriverTypes, TypeOK, TaskTypes, HistoryTypes

LEMMA EndTypeStep ==
  ASSUME TypeOK, NEW s \in Subs, EndStep(s)
  PROVE  TypeOK'
<1>1. DriverTypes'
  <2>1. CASE FailTurn(s)
    BY <2>1, EmitTyped, EventsTyped DEF FailTurn, DriverPC
  <2>2. CASE CompleteTurn(s)
    <3>1. more[s] \in BOOLEAN
      BY DEF TypeOK, TaskTypes
    <3> QED
      BY <2>2, <3>1, EmitTyped, EventsTyped DEF CompleteTurn, DriverPC
  <2>3. CASE AfterCompleted(s)
    <3>1. CASE EmitAndGo(s, TurnEvent("Aborted", s), "release")
      BY <3>1, EmitTyped, EventsTyped DEF DriverPC
    <3>2. CASE Goto(s, "top") /\ UNCHANGED <<sessionVars, events, held>>
      BY <3>2, GotoTyped DEF DriverPC, TypeOK, DriverTypes, SessionTypes,
                             TaskTypes, sessionVars
    <3>3. CASE DrainInputQueue(s, "Steering", "tailAppend", "tailFollow")
      BY <3>3, DrainTyped DEF DriverPC, QueueNames
    <3> QED
      BY <2>3, <3>1, <3>2, <3>3 DEF AfterCompleted
  <2>4. CASE TailFollowUp(s)
    BY <2>4, DrainTyped DEF TailFollowUp, DriverPC, QueueNames
  <2>5. CASE TailAppend(s)
    BY <2>5, AppendTyped DEF TailAppend, DriverPC
  <2>6. CASE Release(s)
    BY <2>6, GotoTyped, BoundsAssumption
       DEF Release, DriverPC, TypeOK, DriverTypes, SessionTypes, TaskTypes
  <2>7. CASE Announce(s)
    BY <2>7, EmitTyped, EventsTyped DEF Announce, DriverPC
  <2> QED
    BY <2>1, <2>2, <2>3, <2>4, <2>5, <2>6, <2>7 DEF EndStep
<1>2. UNCHANGED <<cancelled, hpc, hsub, calls, more, origin, asked, accepted,
                  nextOutput>>
  BY DEF EndStep, hostVars, historyVars
<1> QED
  BY <1>1, <1>2 DEF DriverTypes, TypeOK, TaskTypes, HistoryTypes

LEMMA RoundTypeStep ==
  ASSUME TypeOK, NEW s \in Subs,
         \/ OpenStream(s) \/ StreamMessage(s) \/ StreamToolCall(s)
         \/ StreamCompleted(s) \/ Interrupt(s) \/ RecordToolResult(s)
         \/ KernelFinish(s)
  PROVE  TypeOK'
<1> USE BoundsAssumption
<1>1. CASE OpenStream(s)
  <2>1. dpc' \in [Subs -> DriverPC]
    BY <1>1, GotoTyped DEF OpenStream, DriverPC, TypeOK
  <2> QED
    BY <1>1, <2>1 DEF OpenStream, TypeOK, SessionTypes, TaskTypes, HistoryTypes,
                      sessionVars, hostVars, historyVars
<1>2. CASE StreamMessage(s)
  <2>1. [kind |-> "Message", id |-> nextOutput] \in Item
    BY <1>2 DEF StreamMessage, TypeOK, HistoryTypes, Item, Ids
  <2> QED
    BY <1>2, <2>1 DEF StreamMessage, Record, TypeOK, SessionTypes, TaskTypes,
                      HistoryTypes, hostVars, driverVars
<1>3. CASE StreamToolCall(s)
  <2>1. [kind |-> "Call", id |-> nextOutput] \in Item /\ nextOutput \in Ids
    BY <1>3 DEF StreamToolCall, TypeOK, HistoryTypes, Item, Ids
  <2>2. conversation' \in Seq(Item)
    BY <1>3, <2>1 DEF StreamToolCall, Record, TypeOK, SessionTypes
  <2>3. calls' \in [Subs -> Seq(Ids)]
    BY <1>3, <2>1 DEF StreamToolCall, TypeOK, TaskTypes
  <2>4. more' \in [Subs -> BOOLEAN]
    BY <1>3 DEF StreamToolCall, TypeOK, TaskTypes
  <2>5. SessionTypes'
    BY <1>3, <2>2 DEF StreamToolCall, TypeOK, SessionTypes
  <2>6. TaskTypes'
    BY <1>3, <2>3, <2>4 DEF StreamToolCall, TypeOK, TaskTypes, hostVars
  <2>7. HistoryTypes'
    BY <1>3 DEF StreamToolCall, TypeOK, HistoryTypes
  <2> QED
    BY <2>5, <2>6, <2>7 DEF TypeOK
<1>4. CASE StreamCompleted(s)
  BY <1>4, GotoTyped DEF StreamCompleted, DriverPC, TypeOK, SessionTypes,
     TaskTypes, HistoryTypes, sessionVars, hostVars, historyVars
<1>5. CASE Interrupt(s)
  <2>1. dpc' \in [Subs -> DriverPC]
    BY <1>5, GotoTyped DEF Interrupt, DriverPC, TypeOK
  <2>2. calls' \in [Subs -> Seq(Ids)]
    BY <1>5 DEF Interrupt, TypeOK, TaskTypes
  <2>3. SessionTypes' /\ HistoryTypes'
    BY <1>5 DEF Interrupt, TypeOK, SessionTypes, HistoryTypes, sessionVars, historyVars
  <2>4. TaskTypes'
    BY <1>5, <2>1, <2>2 DEF Interrupt, TypeOK, TaskTypes, hostVars
  <2> QED
    BY <2>3, <2>4 DEF TypeOK
<1>6. CASE RecordToolResult(s)
  <2>1. /\ Head(calls[s]) \in Ids
        /\ Tail(calls[s]) \in Seq(Ids)
    BY <1>6 DEF RecordToolResult, TypeOK, TaskTypes
  <2>2. [kind |-> "Result", id |-> Head(calls[s])] \in Item
    BY <2>1 DEF Item
  <2>3. conversation' \in Seq(Item)
    BY <1>6, <2>2 DEF RecordToolResult, Record, TypeOK, SessionTypes
  <2>4. calls' \in [Subs -> Seq(Ids)]
    BY <1>6, <2>1 DEF RecordToolResult, TypeOK, TaskTypes
  <2>5. SessionTypes' /\ HistoryTypes'
    BY <1>6, <2>3 DEF RecordToolResult, TypeOK, SessionTypes, HistoryTypes, historyVars
  <2>6. TaskTypes'
    BY <1>6, <2>4 DEF RecordToolResult, TypeOK, TaskTypes, hostVars
  <2> QED
    BY <2>5, <2>6 DEF TypeOK
<1>7. CASE KernelFinish(s)
  BY <1>7, GotoTyped DEF KernelFinish, DriverPC, TypeOK, SessionTypes,
     TaskTypes, HistoryTypes, sessionVars, hostVars, historyVars
<1> QED
  BY <1>1, <1>2, <1>3, <1>4, <1>5, <1>6, <1>7

(* Every driver step is a loop step, an end step, or a step of its round.  *)
LEMMA DriverCases ==
  ASSUME NEW s \in Subs, DriverStep(s)
  PROVE  \/ LoopStep(s) \/ EndStep(s)
         \/ OpenStream(s) \/ StreamMessage(s) \/ StreamToolCall(s)
         \/ StreamCompleted(s) \/ KernelFinish(s)
         \/ dpc[s] = "stream" /\ Interrupt(s)
         \/ dpc[s] = "tools" /\ Interrupt(s)
         \/ RecordToolResult(s)
  BY DEF DriverStep, StreamError, StreamCancelled, ToolReturns, ToolAborted,
         ToolFatal

LEMMA TypeStep == TypeOK /\ [Next]_vars => TypeOK'
<1> SUFFICES ASSUME TypeOK, [Next]_vars PROVE TypeOK'
  OBVIOUS
<1>1. CASE UNCHANGED vars
  BY <1>1 DEF vars, sessionVars, hostVars, driverVars, historyVars, TypeOK,
              SessionTypes, TaskTypes, HistoryTypes
<1>2. ASSUME NEW h \in Hosts, HostStep(h) PROVE TypeOK'
  BY <1>2, HostTypeStep
<1>3. ASSUME NEW s \in Subs, DriverStep(s) PROVE TypeOK'
  BY <1>3, DriverCases, LoopTypeStep, EndTypeStep, RoundTypeStep
<1> QED
  BY <1>1, <1>2, <1>3 DEF Next, Quiescent

(* Every reachable state is well typed, whatever the bounds.               *)
THEOREM TypeCorrect == Spec => []TypeOK
  BY TypeInit, TypeStep, PTL DEF Spec

(***************************************************************************)
(* The slot.  StatusMatchesTurn and OneDriver are not inductive: that a    *)
(* driver in its loop owns the slot also needs that an acquired call has   *)
(* the only claim to it, and that numbers not handed out yet were never    *)
(* driven.                                                                 *)
(***************************************************************************)
SlotInv ==
    /\ StatusMatchesTurn
    /\ active < nextSub
    /\ \A s \in Subs : dpc[s] \in InLoop => active = s
    /\ \A s \in Subs : s >= nextSub => dpc[s] = "unborn"
    /\ \A h \in Hosts : hpc[h] = "acquired" =>
           /\ active # 0
           /\ active = hsub[h]
           /\ dpc[active] = "unborn"
    /\ \A g, h \in Hosts : hpc[g] = "acquired" /\ hpc[h] = "acquired" => g = h

(* A driver step short of Release stays in the loop and leaves the slot,   *)
(* the submission counter and the calls of the hosts alone.                *)
WithinLoop(s) ==
    /\ dpc[s] \in InLoop
    /\ \E pc \in InLoop : dpc' = [dpc EXCEPT ![s] = pc]
    /\ UNCHANGED <<status, active, nextSub, hpc, hsub>>

LEMMA DriverSlotCases ==
  ASSUME TypeOK, NEW s \in Subs, DriverStep(s)
  PROVE  \/ WithinLoop(s)
         \/ Release(s) /\ UNCHANGED <<hpc, hsub>>
         \/ /\ dpc[s] = "announce"
            /\ Goto(s, "gone")
            /\ UNCHANGED <<status, active, nextSub, hpc, hsub>>
<1> USE DEF WithinLoop, InLoop, DriverPC, Goto
<1>1. CASE LoopStep(s)
  BY <1>1 DEF LoopStep, TopCancelled, TopInitial, TopBootstrap, BootstrapFollowUp,
     BootstrapAppend, BootstrapCheck, StartTurn, BuildRequest, EmitAndGo,
     AppendItems, DrainInputQueue, sessionVars, hostVars
<1>2. CASE EndStep(s)
  <2>1. UNCHANGED <<hpc, hsub>>
    BY <1>2 DEF EndStep, hostVars
  <2>2. CASE Release(s)
    BY <2>1, <2>2
  <2>3. CASE Announce(s)
    BY <2>1, <2>3 DEF Announce, EmitAndGo, sessionVars
  <2>4. CASE FailTurn(s) \/ CompleteTurn(s) \/ AfterCompleted(s)
             \/ TailFollowUp(s) \/ TailAppend(s)
    BY <2>1, <2>4 DEF FailTurn, CompleteTurn, AfterCompleted, TailFollowUp,
       TailAppend, EmitAndGo, AppendItems, DrainInputQueue, sessionVars
  <2> QED
    BY <1>2, <2>2, <2>3, <2>4 DEF EndStep
<1>3. CASE \/ OpenStream(s) \/ StreamCompleted(s) \/ KernelFinish(s)
           \/ dpc[s] = "stream" /\ Interrupt(s)
           \/ dpc[s] = "tools" /\ Interrupt(s)
  BY <1>3 DEF OpenStream, StreamCompleted, KernelFinish, Interrupt, sessionVars,
              hostVars
<1>4. CASE StreamMessage(s) \/ StreamToolCall(s) \/ RecordToolResult(s)
  <2>1. dpc' = dpc /\ dpc[s] \in InLoop
    BY <1>4 DEF StreamMessage, StreamToolCall, RecordToolResult, driverVars
  <2>2. dpc' = [dpc EXCEPT ![s] = dpc[s]]
    BY <2>1 DEF TypeOK, TaskTypes
  <2>3. UNCHANGED <<status, active, nextSub, hpc, hsub>>
    BY <1>4 DEF StreamMessage, StreamToolCall, RecordToolResult, hostVars
  <2> QED
    BY <2>1, <2>2, <2>3
<1> HIDE DEF WithinLoop, InLoop, DriverPC, Goto
<1> QED
  BY <1>1, <1>2, <1>3, <1>4, DriverCases

LEMMA SlotInit == Init => SlotInv
  BY BoundsAssumption DEF Init, SlotInv, StatusMatchesTurn, InLoop, Subs

LEMMA SlotHostStep ==
  ASSUME TypeOK, SlotInv, NEW h \in Hosts, HostStep(h)
  PROVE  SlotInv'
<1> USE BoundsAssumption DEF SlotInv, StatusMatchesTurn
<1> DEFINE Took == \E how \in {"run", "continue"} : \E items : AcquireTurn(h, how, items)
<1>1. CASE Took /\ dpc' = dpc
  <2>1. /\ active = 0 /\ nextSub \in Subs /\ active' = nextSub
        /\ nextSub' = nextSub + 1 /\ status' = "Running" /\ dpc' = dpc
        /\ hpc' = [hpc EXCEPT ![h] = "acquired"]
        /\ hsub' = [hsub EXCEPT ![h] = nextSub]
    BY <1>1 DEF AcquireTurn, TypeOK, SessionTypes, Subs
  <2>2. \A s \in Subs : dpc[s] \notin InLoop
    BY <2>1 DEF Subs
  <2>3. \A g \in Hosts : hpc[g] # "acquired"
    BY <2>1
  <2>4. dpc[nextSub] = "unborn"
    BY <2>1 DEF Subs
  <2>5. hpc'[h] = "acquired" /\ hsub'[h] = nextSub
    BY <2>1 DEF TypeOK, TaskTypes
  <2>6. \A g \in Hosts : g # h => hpc'[g] # "acquired"
    BY <2>1, <2>3 DEF TypeOK, TaskTypes
  <2>7. \A s \in Subs : s >= nextSub' => dpc'[s] = "unborn"
    BY <2>1 DEF Subs
  <2>8. nextSub \in Nat \ {0}
    BY <2>1 DEF Subs
  <2> QED
    BY <2>1, <2>2, <2>4, <2>5, <2>6, <2>7, <2>8
<1>2. CASE Launch(h)
  <2> DEFINE s == hsub[h]
  <2>1. s = active /\ s \in Subs /\ dpc[s] = "unborn"
    BY <1>2 DEF Launch, TypeOK, SessionTypes, Subs
  <2>2. UNCHANGED <<status, active, nextSub>>
    BY <1>2 DEF Launch, sessionVars
  <2>3. dpc' = [dpc EXCEPT ![s] = "top"]
    BY <1>2 DEF Launch, Goto
  <2>4. \A g \in Hosts : hpc'[g] # "acquired"
    BY <1>2 DEF Launch, TypeOK, TaskTypes
  <2>5. \A r \in Subs : dpc'[r] \in InLoop => active' = r
    BY <2>1, <2>2, <2>3 DEF TypeOK, TaskTypes
  <2>6. \A r \in Subs : r >= nextSub' => dpc'[r] = "unborn"
    BY <2>1, <2>2, <2>3 DEF TypeOK, TaskTypes, SessionTypes, Subs
  <2> QED
    BY <2>2, <2>4, <2>5, <2>6
<1>3. CASE AbortCapture(h)
  <2>1. /\ UNCHANGED <<active, nextSub, dpc>>
        /\ active # 0 /\ status' = "Aborting"
        /\ hpc[h] # "acquired"
        /\ hpc' = [hpc EXCEPT ![h] = "aborting"]
        /\ hsub' = [hsub EXCEPT ![h] = active]
    BY <1>3 DEF AbortCapture, driverVars
  <2>2. \A g \in Hosts : hpc'[g] = "acquired" => hpc[g] = "acquired" /\ hsub'[g] = hsub[g]
    BY <2>1 DEF TypeOK, TaskTypes
  <2> QED
    BY <2>1, <2>2
<1>4. CASE /\ UNCHANGED <<status, active, nextSub, dpc>>
           /\ \A g \in Hosts : hpc'[g] = "acquired" => hpc[g] = "acquired" /\ hsub'[g] = hsub[g]
  BY <1>4
<1>5. CASE Run(h)
  BY <1>1, <1>5 DEF Run
<1>6. CASE ContinueAcquire(h)
  BY <1>1, <1>6 DEF ContinueAcquire
<1>7. CASE ContinueCheck(h) \/ ContinueBusy(h) \/ AbortAnnounce(h) \/ AbortCancel(h)
           \/ \E q \in QueueNames : Enqueue(h, q)
  <2>1. UNCHANGED <<status, active, nextSub, dpc>>
    BY <1>7 DEF ContinueCheck, ContinueBusy, AbortAnnounce, AbortCancel, Enqueue,
       sessionVars, driverVars
  <2>2. \A g \in Hosts : hpc'[g] = "acquired" => hpc[g] = "acquired" /\ hsub'[g] = hsub[g]
    BY <1>7 DEF ContinueCheck, ContinueBusy, AbortAnnounce, AbortCancel, Enqueue,
       hostVars, TypeOK, TaskTypes
  <2> QED
    BY <1>4, <2>1, <2>2
<1> QED
  BY <1>2, <1>3, <1>5, <1>6, <1>7 DEF HostStep

LEMMA SlotDriverStep ==
  ASSUME TypeOK, SlotInv, NEW s \in Subs, DriverStep(s)
  PROVE  SlotInv'
<1> USE BoundsAssumption DEF SlotInv, StatusMatchesTurn
<1>1. CASE WithinLoop(s)
  <2>1. PICK pc \in InLoop : dpc' = [dpc EXCEPT ![s] = pc]
    BY <1>1 DEF WithinLoop
  <2>2. /\ UNCHANGED <<status, active, nextSub, hpc, hsub>>
        /\ active = s /\ s < nextSub
        /\ dpc[s] # "unborn"
    BY <1>1 DEF WithinLoop, InLoop
  <2>3. \A r \in Subs : r # s => dpc'[r] = dpc[r]
    BY <2>1
  <2>4. \A g \in Hosts : hpc[g] # "acquired"
    BY <2>2
  <2>5. \A r \in Subs : r >= nextSub => dpc'[r] = "unborn"
    BY <2>2, <2>3 DEF TypeOK, SessionTypes, Subs
  <2> QED
    BY <2>2, <2>3, <2>4, <2>5
<1>2. CASE Release(s) /\ UNCHANGED <<hpc, hsub>>
  <2>1. /\ dpc' = [dpc EXCEPT ![s] = "announce"]
        /\ status' = "Idle" /\ active' = 0 /\ nextSub' = nextSub
        /\ dpc[s] = "release"
    BY <1>2 DEF Release, Goto
  <2>2. active = s /\ dpc[active] # "unborn"
    BY <2>1 DEF InLoop, DriverPC
  <2>3. \A r \in Subs : dpc'[r] \notin InLoop
    BY <2>1, <2>2 DEF TypeOK, TaskTypes, InLoop
  <2>4. \A g \in Hosts : hpc[g] # "acquired"
    BY <2>2
  <2>5. s < nextSub /\ nextSub \in Nat /\ 0 < nextSub
    BY <2>2 DEF TypeOK, SessionTypes
  <2>6. \A r \in Subs : r >= nextSub => dpc'[r] = "unborn"
    BY <2>1, <2>5 DEF TypeOK, TaskTypes, Subs
  <2> QED
    BY <1>2, <2>1, <2>3, <2>4, <2>5, <2>6
<1>3. CASE /\ dpc[s] = "announce"
           /\ Goto(s, "gone")
           /\ UNCHANGED <<status, active, nextSub, hpc, hsub>>
  <2>1. \A r \in Subs : r # s => dpc'[r] = dpc[r]
    BY <1>3 DEF Goto, TypeOK, TaskTypes
  <2>2. dpc'[s] = "gone"
    BY <1>3 DEF Goto, TypeOK, TaskTypes
  <2>3. s < nextSub
    BY <1>3 DEF TypeOK, SessionTypes, Subs
  <2>4. \A g \in Hosts : hpc'[g] = "acquired" => active # s /\ active \in Subs
    BY <1>3 DEF TypeOK, SessionTypes, Subs
  <2>5. \A g \in Hosts : hpc'[g] = "acquired" => dpc'[active] = "unborn"
    BY <1>3, <2>1, <2>4
  <2>6. \A r \in Subs : r >= nextSub' => dpc'[r] = "unborn"
    BY <1>3, <2>1, <2>3 DEF TypeOK, SessionTypes, Subs
  <2>7. \A r \in Subs : dpc'[r] \in InLoop => active' = r
    BY <1>3, <2>1, <2>2 DEF InLoop
  <2> QED
    BY <1>3, <2>5, <2>6, <2>7
<1> QED
  BY <1>1, <1>2, <1>3, DriverSlotCases

LEMMA SlotStep == TypeOK /\ SlotInv /\ [Next]_vars => SlotInv'
<1> SUFFICES ASSUME TypeOK, SlotInv, [Next]_vars PROVE SlotInv'
  OBVIOUS
<1>1. CASE UNCHANGED vars
  BY <1>1 DEF vars, sessionVars, hostVars, driverVars, SlotInv, StatusMatchesTurn
<1>2. ASSUME NEW h \in Hosts, HostStep(h) PROVE SlotInv'
  BY <1>2, SlotHostStep
<1>3. ASSUME NEW s \in Subs, DriverStep(s) PROVE SlotInv'
  BY <1>3, SlotDriverStep
<1> QED
  BY <1>1, <1>2, <1>3 DEF Next, Quiescent

LEMMA SlotHolds == Spec => [](TypeOK /\ SlotInv)
<1>1. Init => TypeOK /\ SlotInv
  BY TypeInit, SlotInit
<1>2. TypeOK /\ SlotInv /\ [Next]_vars => (TypeOK /\ SlotInv)'
  BY TypeStep, SlotStep
<1> QED
  BY <1>1, <1>2, PTL DEF Spec

(* The reported status is Idle exactly when no submission holds the slot,  *)
(* for any number of hosts calling run, continue and abort at once.        *)
THEOREM StatusCorrect == Spec => []StatusMatchesTurn
<1>1. SlotInv => StatusMatchesTurn
  BY DEF SlotInv
<1> QED
  BY <1>1, SlotHolds, PTL

(* One submission drives the session at a time: a driver in its loop, or a *)
(* host about to spawn one, owns the slot.                                 *)
THEOREM OneDriverCorrect == Spec => []OneDriver
<1>1. SlotInv => OneDriver
  BY DEF SlotInv, OneDriver
<1> QED
  BY <1>1, SlotHolds, PTL

(***************************************************************************)
(* What a driver holds: items only before its first round and between the  *)
(* two locks of a drain.                                                   *)
(***************************************************************************)
EmptyHanded == {"bootFollow", "bootCheck", "start", "build", "open", "stream",
                "tools", "failed", "finish", "completed", "tailFollow"}
HoldInv == \A s \in Subs : dpc[s] \in EmptyHanded => held[s] = << >>

(***************************************************************************)
(* Where a cancelled token and an Aborted event come from.                 *)
(***************************************************************************)
Asked == {asked[k] : k \in DOMAIN asked}
AbortInv ==
    /\ AbortHitsItsTurn
    /\ \A s \in Subs : cancelled[s] => s \in Asked
    /\ \A h \in Hosts : hpc[h] \in {"aborting", "cancelling"} => hsub[h] \in Asked

(* One more event keeps AbortHitsItsTurn if an Aborted one names a turn    *)
(* that was asked to stop; captured submissions are never forgotten.       *)
LEMMA AbortEmit ==
  ASSUME TypeOK, AbortHitsItsTurn, Asked \subseteq Asked', NEW e,
         UNCHANGED events \/ Emit(e),
         e.kind = "Aborted" => e.sub \in Asked
  PROVE  AbortHitsItsTurn'
<1>1. CASE UNCHANGED events
  BY <1>1 DEF AbortHitsItsTurn, Asked
<1>2. CASE Emit(e)
  <2> SUFFICES ASSUME NEW i \in DOMAIN events', events'[i].kind = "Aborted"
               PROVE  events'[i].sub \in Asked'
    BY DEF AbortHitsItsTurn, Asked
  <2>1. /\ events \in Seq(Event)
        /\ events' = Append(events, e)
    BY <1>2 DEF Emit, TypeOK, SessionTypes
  <2>2. CASE i = Len(events) + 1
    BY <2>1, <2>2
  <2>3. CASE i # Len(events) + 1
    <3>1. i \in DOMAIN events /\ events'[i] = events[i]
      BY <2>1, <2>3
    <3> QED
      BY <3>1 DEF AbortHitsItsTurn, Asked
  <2> QED
    BY <2>2, <2>3
<1> QED
  BY <1>1, <1>2

LEMMA AbortInit == Init => AbortInv
<1> SUFFICES ASSUME Init PROVE AbortInv
  OBVIOUS
<1>1. AbortHitsItsTurn
  BY DEF Init, AbortHitsItsTurn
<1> QED
  BY <1>1 DEF Init, AbortInv

LEMMA AbortHostStep ==
  ASSUME TypeOK, AbortInv, NEW h \in Hosts, HostStep(h)
  PROVE  AbortInv'
<1> USE DEF AbortInv
<1>1. CASE AbortCapture(h)
  <2>1. active \in Subs /\ asked \in Seq(Subs)
    BY <1>1 DEF AbortCapture, TypeOK, SessionTypes, HistoryTypes, Subs
  <2>2. Asked \subseteq Asked' /\ active \in Asked'
    <3>1. asked' = Append(asked, active)
      BY <1>1 DEF AbortCapture
    <3>2. \A k \in DOMAIN asked : k \in DOMAIN asked' /\ asked'[k] = asked[k]
      BY <2>1, <3>1
    <3>3. Len(asked) + 1 \in DOMAIN asked' /\ asked'[Len(asked) + 1] = active
      BY <2>1, <3>1
    <3> QED
      BY <3>2, <3>3 DEF Asked
  <2>3. UNCHANGED <<events, cancelled>>
    BY <1>1 DEF AbortCapture
  <2>4. AbortHitsItsTurn'
    BY <2>2, <2>3, AbortEmit, StatusEvent("Idle").kind # "Aborted" DEF StatusEvent
  <2>5. \A g \in Hosts : g # h => hpc'[g] = hpc[g] /\ hsub'[g] = hsub[g]
    BY <1>1 DEF AbortCapture, TypeOK, TaskTypes
  <2>6. hsub'[h] = active
    BY <1>1 DEF AbortCapture, TypeOK, TaskTypes
  <2> QED
    BY <2>2, <2>3, <2>4, <2>5, <2>6
<1>2. ASSUME \/ Run(h) \/ ContinueCheck(h) \/ ContinueAcquire(h) \/ ContinueBusy(h)
             \/ Launch(h) \/ AbortAnnounce(h) \/ AbortCancel(h)
             \/ \E q \in QueueNames : Enqueue(h, q)
      PROVE  AbortInv'
  <2>1. asked' = asked /\ Asked' = Asked
    BY <1>2 DEF Run, ContinueCheck, ContinueAcquire, ContinueBusy, Launch,
       AbortAnnounce, AbortCancel, Enqueue, historyVars, Asked
  <2>2. AbortHitsItsTurn'
    <3>1. \E st \in {"Running", "Aborting"} : UNCHANGED events \/ Emit(StatusEvent(st))
      BY <1>2 DEF Run, ContinueCheck, ContinueAcquire, ContinueBusy, Launch,
         AbortAnnounce, AbortCancel, Enqueue, sessionVars
    <3>2. \A st \in {"Running", "Aborting"} : StatusEvent(st).kind # "Aborted"
      BY DEF StatusEvent
    <3> QED
      BY <2>1, <3>1, <3>2, AbortEmit
  <2>3. \A s \in Subs : cancelled'[s] => s \in Asked
    <3>1. CASE AbortCancel(h)
      BY <3>1 DEF AbortCancel, TypeOK, TaskTypes
    <3>2. CASE ~AbortCancel(h)
      BY <1>2, <3>2 DEF Run, ContinueCheck, ContinueAcquire, ContinueBusy, Launch,
         AbortAnnounce, Enqueue
    <3> QED
      BY <3>1, <3>2
  <2>4. \A g \in Hosts : hpc'[g] \in {"aborting", "cancelling"}
            => hpc[g] \in {"aborting", "cancelling"} /\ hsub'[g] = hsub[g]
    <3>1. \A g \in Hosts : g # h => hpc'[g] = hpc[g] /\ hsub'[g] = hsub[g]
      BY <1>2 DEF Run, ContinueCheck, ContinueAcquire, ContinueBusy, Launch,
         AbortAnnounce, AbortCancel, Enqueue, AcquireTurn, hostVars, TypeOK, TaskTypes
    <3>2. CASE AbortAnnounce(h)
      BY <3>1, <3>2 DEF AbortAnnounce
    <3>3. CASE ~AbortAnnounce(h)
      <4>1. hpc'[h] \notin {"aborting", "cancelling"} \/ UNCHANGED <<hpc, hsub>>
        BY <1>2, <3>3 DEF Run, ContinueCheck, ContinueAcquire, ContinueBusy, Launch,
           AbortCancel, Enqueue, AcquireTurn, hostVars, TypeOK, TaskTypes
      <4> QED
        BY <3>1, <4>1
    <3> QED
      BY <3>2, <3>3
  <2> QED
    BY <2>1, <2>2, <2>3, <2>4
<1> QED
  BY <1>1, <1>2 DEF HostStep

(* A driver says Aborted only of itself, and only when its token is        *)
(* cancelled.                                                              *)
LEMMA DriverEmits ==
  ASSUME TypeOK, NEW s \in Subs, DriverStep(s)
  PROVE  /\ UNCHANGED <<cancelled, hpc, hsub, asked>>
         /\ \E e : /\ UNCHANGED events \/ Emit(e)
                   /\ e.kind = "Aborted" => e.sub = s /\ cancelled[s]
<1> DEFINE Says == \E e : /\ UNCHANGED events \/ Emit(e)
                          /\ e.kind = "Aborted" => e.sub = s /\ cancelled[s]
<1>1. \A k : TurnEvent(k, s).kind = k /\ TurnEvent(k, s).sub = s
  BY DEF TurnEvent
<1>2. \A k : StatusEvent(k).kind = k
  BY DEF StatusEvent
<1>3. ASSUME UNCHANGED events PROVE Says
  BY <1>2, <1>3 DEF Says
<1>4. ASSUME NEW k, k = "Aborted" => cancelled[s], Emit(TurnEvent(k, s)) PROVE Says
  BY <1>1, <1>4 DEF Says
<1> HIDE DEF Says
<1>5. CASE LoopStep(s)
  <2>1. UNCHANGED <<cancelled, hpc, hsub, asked>>
    BY <1>5 DEF LoopStep, hostVars, historyVars
  <2>2. Says
    <3>1. CASE TopCancelled(s)
      BY <3>1, <1>4 DEF TopCancelled, EmitAndGo
    <3>2. CASE StartTurn(s)
      BY <3>2, <1>4 DEF StartTurn, EmitAndGo
    <3>3. CASE TopInitial(s) \/ TopBootstrap(s) \/ BootstrapFollowUp(s) \/ BootstrapAppend(s)
      BY <3>3, <1>3 DEF TopInitial, TopBootstrap, BootstrapFollowUp, BootstrapAppend,
         AppendItems, DrainInputQueue
    <3>4. CASE BootstrapCheck(s) \/ BuildRequest(s)
      BY <3>4, <1>3, <1>4 DEF BootstrapCheck, BuildRequest, EmitAndGo
    <3> QED
      BY <1>5, <3>1, <3>2, <3>3, <3>4 DEF LoopStep
  <2> QED
    BY <2>1, <2>2 DEF Says
<1>6. CASE EndStep(s)
  <2>1. UNCHANGED <<cancelled, hpc, hsub, asked>>
    BY <1>6 DEF EndStep, hostVars, historyVars
  <2>2. Says
    <3>1. CASE FailTurn(s)
      BY <3>1, <1>4 DEF FailTurn, EmitAndGo
    <3>2. CASE CompleteTurn(s)
      <4>1. [TurnEvent("Completed", s) EXCEPT !.more = more[s]].kind = "Completed"
        BY DEF TurnEvent
      <4> QED
        BY <3>2, <4>1 DEF CompleteTurn, EmitAndGo, Says
    <3>3. CASE AfterCompleted(s)
      BY <3>3, <1>3, <1>4 DEF AfterCompleted, EmitAndGo, DrainInputQueue
    <3>4. CASE TailFollowUp(s) \/ TailAppend(s) \/ Release(s)
      BY <3>4, <1>3 DEF TailFollowUp, TailAppend, Release, DrainInputQueue, AppendItems
    <3>5. CASE Announce(s)
      <4>1. StatusEvent("Idle").kind # "Aborted"
        BY <1>2
      <4> QED
        BY <3>5, <4>1 DEF Announce, EmitAndGo, Says
    <3> QED
      BY <1>6, <3>1, <3>2, <3>3, <3>4, <3>5 DEF EndStep
  <2> QED
    BY <2>1, <2>2 DEF Says
<1>7. CASE \/ OpenStream(s) \/ StreamCompleted(s) \/ KernelFinish(s) \/ Interrupt(s)
           \/ StreamMessage(s) \/ StreamToolCall(s) \/ RecordToolResult(s)
  <2>1. UNCHANGED <<events, cancelled, hpc, hsub, asked>>
    BY <1>7 DEF OpenStream, StreamCompleted, KernelFinish, Interrupt, StreamMessage,
       StreamToolCall, RecordToolResult, hostVars, historyVars
  <2> QED
    BY <2>1, <1>3 DEF Says
<1> QED
  BY <1>5, <1>6, <1>7, DriverCases

LEMMA AbortStep == TypeOK /\ AbortInv /\ [Next]_vars => AbortInv'
<1> SUFFICES ASSUME TypeOK, AbortInv, [Next]_vars PROVE AbortInv'
  OBVIOUS
<1>1. CASE UNCHANGED vars
  BY <1>1 DEF vars, sessionVars, hostVars, driverVars, historyVars, AbortInv,
              AbortHitsItsTurn, Asked
<1>2. ASSUME NEW h \in Hosts, HostStep(h) PROVE AbortInv'
  BY <1>2, AbortHostStep
<1>3. ASSUME NEW s \in Subs, DriverStep(s) PROVE AbortInv'
  <2>1. PICK e : /\ UNCHANGED events \/ Emit(e)
                 /\ e.kind = "Aborted" => e.sub = s /\ cancelled[s]
    BY <1>3, DriverEmits
  <2>2. UNCHANGED <<cancelled, hpc, hsub, asked>> /\ Asked' = Asked
    BY <1>3, DriverEmits DEF Asked
  <2>3. AbortHitsItsTurn'
    BY <2>1, <2>2, AbortEmit DEF AbortInv
  <2> QED
    BY <2>2, <2>3 DEF AbortInv
<1> QED
  BY <1>1, <1>2, <1>3 DEF Next, Quiescent

(* A turn is reported aborted only if an abort call captured that turn,    *)
(* however late the call gets to cancel the token it cloned.               *)
THEOREM AbortCorrect == Spec => []AbortHitsItsTurn
<1>1. Init => TypeOK /\ AbortInv
  BY TypeInit, AbortInit
<1>2. TypeOK /\ AbortInv /\ [Next]_vars => (TypeOK /\ AbortInv)'
  BY TypeStep, AbortStep
<1>3. AbortInv => AbortHitsItsTurn
  BY DEF AbortInv
<1> QED
  BY <1>1, <1>2, <1>3, PTL DEF Spec

(***************************************************************************)
(* What drivers hold, and what each step writes.                           *)
(***************************************************************************)
(* Effect of a driver step on its hold: it appends what it holds, drains a *)
(* queue, records one output, or leaves both alone.                        *)
Appends(s) ==
    /\ \/ dpc[s] = "top" /\ Goto(s, "start")
       \/ dpc[s] = "bootAppend" /\ Goto(s, "start")
       \/ dpc[s] = "tailAppend" /\ Goto(s, "top")
    /\ conversation' = conversation \o held[s]
    /\ held' = [held EXCEPT ![s] = << >>]
    /\ UNCHANGED <<active, nextSub, queue>>

Drains(s) ==
    /\ \E q \in QueueNames :
          /\ queue' = [queue EXCEPT ![q] = << >>]
          /\ held' = [held EXCEPT ![s] = queue[q]]
          /\ \/ Goto(s, "bootAppend") \/ Goto(s, "tailAppend")
             \/ /\ queue[q] = << >>
                /\ \/ Goto(s, "bootFollow") \/ Goto(s, "bootCheck")
                   \/ Goto(s, "tailFollow") \/ Goto(s, "release")
    /\ \/ dpc[s] \in EmptyHanded
       \/ dpc[s] = "top" /\ held[s] = << >>
    /\ UNCHANGED <<active, nextSub, conversation>>

Records(s) ==
    /\ dpc[s] \in EmptyHanded
    /\ dpc' = dpc
    /\ \E item \in Item : conversation' = Append(conversation, item)
    /\ UNCHANGED <<active, nextSub, queue, held>>

Moves(s) ==
    /\ \/ /\ dpc[s] \in EmptyHanded
          /\ \E pc \in EmptyHanded \cup {"top", "release"} : Goto(s, pc)
       \/ dpc[s] = "top" /\ Goto(s, "release")
       \/ dpc[s] = "announce" /\ Goto(s, "gone")
    /\ UNCHANGED <<active, nextSub, queue, conversation, held>>

Frees(s) ==
    /\ dpc[s] = "release"
    /\ Goto(s, "announce")
    /\ active' = 0
    /\ UNCHANGED <<nextSub, queue, conversation, held>>

LEMMA DriverEffects ==
  ASSUME TypeOK, NEW s \in Subs, DriverStep(s)
  PROVE  Appends(s) \/ Drains(s) \/ Records(s) \/ Moves(s) \/ Frees(s)
<1> USE DEF EmptyHanded
<1>1. CASE LoopStep(s)
  <2>1. CASE TopInitial(s) \/ BootstrapAppend(s)
    BY <2>1 DEF TopInitial, BootstrapAppend, AppendItems, Appends
  <2>2. CASE TopBootstrap(s)
    BY <2>2 DEF TopBootstrap, DrainInputQueue, Drains, QueueNames
  <2>3. CASE BootstrapFollowUp(s)
    BY <2>3 DEF BootstrapFollowUp, DrainInputQueue, Drains, QueueNames
  <2>4. CASE TopCancelled(s) \/ BootstrapCheck(s) \/ StartTurn(s) \/ BuildRequest(s)
    BY <2>4 DEF TopCancelled, BootstrapCheck, StartTurn, BuildRequest, EmitAndGo,
       sessionVars, Moves
  <2> QED
    BY <1>1, <2>1, <2>2, <2>3, <2>4 DEF LoopStep
<1>2. CASE EndStep(s)
  <2>1. CASE TailAppend(s)
    BY <2>1 DEF TailAppend, AppendItems, Appends
  <2>2. CASE TailFollowUp(s)
    BY <2>2 DEF TailFollowUp, DrainInputQueue, Drains, QueueNames
  <2>3. CASE Release(s)
    BY <2>3 DEF Release, Frees
  <2>4. CASE FailTurn(s) \/ CompleteTurn(s) \/ Announce(s)
    BY <2>4 DEF FailTurn, CompleteTurn, Announce, EmitAndGo, sessionVars, Moves
  <2>5. CASE AfterCompleted(s)
    <3>1. CASE DrainInputQueue(s, "Steering", "tailAppend", "tailFollow")
      BY <2>5, <3>1 DEF AfterCompleted, DrainInputQueue, Drains, QueueNames
    <3>2. CASE ~DrainInputQueue(s, "Steering", "tailAppend", "tailFollow")
      BY <2>5, <3>2 DEF AfterCompleted, EmitAndGo, sessionVars, Moves
    <3> QED
      BY <3>1, <3>2
  <2> QED
    BY <1>2, <2>1, <2>2, <2>3, <2>4, <2>5 DEF EndStep
<1>3. CASE \/ OpenStream(s) \/ StreamCompleted(s) \/ KernelFinish(s)
           \/ dpc[s] = "stream" /\ Interrupt(s)
           \/ dpc[s] = "tools" /\ Interrupt(s)
  BY <1>3 DEF OpenStream, StreamCompleted, KernelFinish, Interrupt, sessionVars, Moves
<1>4. CASE StreamMessage(s) \/ StreamToolCall(s)
  <2>1. nextOutput \in Ids
    BY <1>4, BoundsAssumption DEF StreamMessage, StreamToolCall, TypeOK,
       HistoryTypes, Ids
  <2>2. \A k \in {"Message", "Call"} : [kind |-> k, id |-> nextOutput] \in Item
    BY <2>1 DEF Item
  <2> QED
    BY <1>4, <2>2 DEF StreamMessage, StreamToolCall, Record, Records, driverVars
<1>5. CASE RecordToolResult(s)
  <2>1. [kind |-> "Result", id |-> Head(calls[s])] \in Item
    BY <1>5 DEF RecordToolResult, TypeOK, TaskTypes, Item
  <2> QED
    BY <1>5, <2>1 DEF RecordToolResult, Record, Records
<1> HIDE DEF EmptyHanded
<1> QED
  BY <1>1, <1>2, <1>3, <1>4, <1>5, DriverCases

LEMMA HoldInit == Init => HoldInv
  BY DEF Init, HoldInv, EmptyHanded

(* What the hosts do to the queues, the slot and the holds.                *)
Begins(h) ==
    /\ active = 0
    /\ nextSub \in Subs
    /\ active' = nextSub
    /\ nextSub' = nextSub + 1
    /\ \/ held' = [held EXCEPT ![nextSub] = << >>]
       \/ \E item \in Item : held' = [held EXCEPT ![nextSub] = << item >>]
    /\ UNCHANGED <<queue, conversation, dpc>>

Queues(h) ==
    /\ \/ UNCHANGED queue
       \/ \E q \in QueueNames, item \in Item :
              queue' = [queue EXCEPT ![q] = Append(@, item)]
    /\ UNCHANGED <<active, nextSub, conversation, held, dpc>>

Launches(h) ==
    /\ hpc[h] = "acquired"
    /\ Goto(hsub[h], "top")
    /\ UNCHANGED <<active, nextSub, queue, conversation, held>>

LEMMA HostEffects ==
  ASSUME TypeOK, NEW h \in Hosts, HostStep(h)
  PROVE  Begins(h) \/ Queues(h) \/ Launches(h)
<1>1. CASE Run(h)
  <2>1. CASE HandOver("Blank") /\ AcquireTurn(h, "run", << >>)
    BY <1>1, <2>1 DEF Run, AcquireTurn, Begins, TypeOK, SessionTypes, Subs
  <2>2. CASE HandOver("Primary") /\ AcquireTurn(h, "run", << Fresh("Primary") >>)
    <3>1. Fresh("Primary") \in Item
      BY <2>2, FreshTyped DEF HandOver, TypeOK
    <3>2. held' = [held EXCEPT ![nextSub] = << Fresh("Primary") >>]
      BY <2>2 DEF AcquireTurn
    <3>3. UNCHANGED <<queue, conversation, dpc>>
      BY <1>1 DEF Run
    <3>4. active = 0 /\ nextSub \in Subs /\ active' = nextSub /\ nextSub' = nextSub + 1
      BY <2>2 DEF AcquireTurn, TypeOK, SessionTypes, Subs
    <3> QED
      BY <3>1, <3>2, <3>3, <3>4 DEF Begins
  <2> QED
    BY <1>1, <2>1, <2>2 DEF Run
<1>2. CASE ContinueAcquire(h)
  BY <1>2 DEF ContinueAcquire, AcquireTurn, Begins, TypeOK, SessionTypes, Subs
<1>3. CASE Launch(h)
  BY <1>3 DEF Launch, Launches, sessionVars
<1>4. CASE ContinueCheck(h) \/ ContinueBusy(h) \/ AbortCapture(h)
           \/ AbortAnnounce(h) \/ AbortCancel(h)
  BY <1>4 DEF ContinueCheck, ContinueBusy, AbortCapture, AbortAnnounce, AbortCancel,
     sessionVars, driverVars, Queues
<1>5. ASSUME NEW q \in QueueNames, Enqueue(h, q) PROVE Queues(h)
  <2>1. UNCHANGED <<active, nextSub, conversation, held, dpc>>
    BY <1>5 DEF Enqueue, driverVars
  <2>2. CASE UNCHANGED queue
    BY <2>1, <2>2 DEF Queues
  <2>3. CASE HandOver(q) /\ queue' = [queue EXCEPT ![q] = Append(@, Fresh(q))]
    <3>1. Fresh(q) \in Item
      BY <2>3, FreshTyped DEF HandOver, TypeOK
    <3> QED
      BY <2>1, <2>3, <3>1 DEF Queues
  <2> QED
    BY <1>5, <2>2, <2>3 DEF Enqueue
<1> QED
  BY <1>1, <1>2, <1>3, <1>4, <1>5 DEF HostStep

LEMMA HoldStep == TypeOK /\ SlotInv /\ HoldInv /\ [Next]_vars => HoldInv'
<1> SUFFICES ASSUME TypeOK, SlotInv, HoldInv, [Next]_vars PROVE HoldInv'
  OBVIOUS
<1>1. CASE UNCHANGED vars
  BY <1>1 DEF vars, driverVars, HoldInv
<1>2. ASSUME NEW h \in Hosts, HostStep(h) PROVE HoldInv'
  <2>1. CASE Begins(h)
    <3>1. dpc[nextSub] = "unborn"
      BY <2>1 DEF Begins, SlotInv, Subs
    <3> QED
      BY <2>1, <3>1 DEF Begins, HoldInv, EmptyHanded, TypeOK, TaskTypes
  <2>2. CASE Queues(h)
    BY <2>2 DEF Queues, HoldInv
  <2>3. CASE Launches(h)
    BY <2>3 DEF Launches, Goto, HoldInv, EmptyHanded, TypeOK, TaskTypes
  <2> QED
    BY <1>2, <2>1, <2>2, <2>3, HostEffects
<1>3. ASSUME NEW s \in Subs, DriverStep(s) PROVE HoldInv'
  <2>1. CASE Appends(s)
    BY <2>1 DEF Appends, Goto, HoldInv, EmptyHanded, TypeOK, TaskTypes
  <2>2. CASE Drains(s)
    BY <2>2 DEF Drains, Goto, HoldInv, EmptyHanded, TypeOK, TaskTypes
  <2>3. CASE Records(s)
    BY <2>3 DEF Records, HoldInv
  <2>4. CASE Moves(s)
    BY <2>4 DEF Moves, Goto, HoldInv, EmptyHanded, TypeOK, TaskTypes
  <2>5. CASE Frees(s)
    BY <2>5 DEF Frees, Goto, HoldInv, EmptyHanded, TypeOK, TaskTypes
  <2> QED
    BY <1>3, <2>1, <2>2, <2>3, <2>4, <2>5, DriverEffects
<1> QED
  BY <1>1, <1>2, <1>3 DEF Next, Quiescent

(* The inductive invariant of the session.                                 *)
SessionInv == TypeOK /\ SlotInv /\ HoldInv

LEMMA SessionHolds == Spec => []SessionInv
<1>1. Init => SessionInv
  BY TypeInit, SlotInit, HoldInit DEF SessionInv
<1>2. SessionInv /\ [Next]_vars => SessionInv'
  BY TypeStep, SlotStep, HoldStep DEF SessionInv
<1> QED
  BY <1>1, <1>2, PTL DEF Spec

(***************************************************************************)
(* Who writes the conversation.                                            *)
(***************************************************************************)
Extends(old, new) ==
    /\ Len(new) > Len(old)
    /\ SubSeq(new, 1, Len(old)) = old

LEMMA AppendExtends ==
  ASSUME NEW c \in Seq(Item), NEW item \in Item
  PROVE  Extends(c, Append(c, item))
  BY DEF Extends

LEMMA ConcatExtends ==
  ASSUME NEW c \in Seq(Item), NEW d \in Seq(Item), c \o d # c
  PROVE  Extends(c, c \o d)
<1>1. d # << >>
  BY ConcatEmptySeq
<1>2. Len(d) > 0
  BY <1>1, EmptySeq
<1>3. Len(c \o d) = Len(c) + Len(d) /\ c \o d \in Seq(Item)
  OBVIOUS
<1>4. SubSeq(c \o d, 1, Len(c)) = c
  <2>1. /\ SubSeq(c \o d, 1, Len(c)) \in Seq(Item)
        /\ Len(SubSeq(c \o d, 1, Len(c))) = Len(c)
    BY <1>3
  <2>2. \A i \in 1 .. Len(c) : SubSeq(c \o d, 1, Len(c))[i] = c[i]
    BY <1>3
  <2> QED
    BY <2>1, <2>2, SeqEqual
<1>5. Len(c \o d) > Len(c)
  BY <1>2, <1>3, Len(c) \in Nat, Len(d) \in Nat
<1> QED
  BY <1>4, <1>5 DEF Extends

LEMMA WriteStep ==
  ASSUME SessionInv, Next, conversation' # conversation
  PROVE  active # 0 /\ active' = active /\ Extends(conversation, conversation')
<1>1. ASSUME NEW h \in Hosts, HostStep(h) PROVE FALSE
  BY <1>1, HostEffects DEF SessionInv, Begins, Queues, Launches
<1>2. ASSUME Quiescent PROVE FALSE
  BY <1>2 DEF Quiescent, vars, sessionVars
<1>3. PICK s \in Subs : DriverStep(s)
  BY <1>1, <1>2 DEF Next
<1>4. conversation \in Seq(Item) /\ held[s] \in Seq(Item)
  BY DEF SessionInv, TypeOK, SessionTypes, TaskTypes
<1>5. CASE Appends(s)
  <2>1. Extends(conversation, conversation')
    BY <1>4, <1>5, ConcatExtends DEF Appends
  <2>2. active = s /\ active' = active
    BY <1>5 DEF Appends, SessionInv, SlotInv, InLoop, DriverPC
  <2> QED
    BY <2>1, <2>2 DEF Subs
<1>6. CASE Records(s)
  <2>1. Extends(conversation, conversation')
    BY <1>4, <1>6, AppendExtends DEF Records
  <2>2. active = s /\ active' = active
    BY <1>6 DEF Records, EmptyHanded, SessionInv, SlotInv, InLoop, DriverPC
  <2> QED
    BY <2>1, <2>2 DEF Subs
<1>7. Appends(s) \/ Records(s)
  BY <1>3, DriverEffects DEF SessionInv, Drains, Moves, Frees
<1> QED
  BY <1>5, <1>6, <1>7

(* The conversation is append-only, and only the turn that holds the slot  *)
(* writes it, whichever hosts and lingering drivers run beside it.         *)
THEOREM WritesCorrect == Spec => OnlyTheTurnWrites
<1>1. SessionInv /\ [Next]_vars =>
        [conversation' # conversation =>
            /\ active # 0 /\ active' = active
            /\ Len(conversation') > Len(conversation)
            /\ SubSeq(conversation', 1, Len(conversation)) = conversation]_vars
  BY WriteStep DEF Extends, vars, sessionVars
<1> QED
  BY <1>1, SessionHolds, PTL DEF Spec, OnlyTheTurnWrites

(***************************************************************************)
(* Refinement: the session implements SessionLedger.                       *)
(***************************************************************************)
Own == HeldInput({"unborn", "top", "release"})
Drained == HeldInput({"bootAppend", "tailAppend"})

LEMMA LedgerInitial == Init => Ledger!LedgerInit
<1> SUFFICES ASSUME Init PROVE Ledger!LedgerInit
  OBVIOUS
<1>1. \A pcs : HeldInput(pcs) = << >>
  BY DEF Init, HeldInput
<1>2. << >> \o << >> = << >>
  BY ConcatEmptySeq, EmptySeq
<1> QED
  BY <1>1, <1>2 DEF Init, Ledger!LedgerInit

(* A step that changes neither the slot, the queues, the conversation nor  *)
(* the two holds is a stuttering step of the ledger.                       *)
LEMMA LedgerStutter ==
  ASSUME UNCHANGED <<active, nextSub, queue, conversation>>,
         Own' = Own, Drained' = Drained
  PROVE  UNCHANGED Ledger!ledgerVars
  BY DEF Ledger!ledgerVars, Own, Drained

LEMMA LedgerHostStep ==
  ASSUME SessionInv, NEW h \in Hosts, HostStep(h)
  PROVE  [Ledger!LedgerNext]_(Ledger!ledgerVars)
<1> USE DEF SessionInv
<1>1. CASE Begins(h)
  <2>1. Own = << >> /\ Drained = << >>
    BY <1>1 DEF Begins, Own, Drained, HeldInput
  <2>2. active' = nextSub /\ active' # 0 /\ active' \in Subs
    BY <1>1 DEF Begins, Subs
  <2>3. dpc'[active'] = "unborn"
    BY <1>1, <2>2 DEF Begins, SlotInv, Subs
  <2>4. Own' = held'[active'] /\ Drained' = << >>
    BY <2>2, <2>3 DEF Own, Drained, HeldInput
  <2>5. \/ held'[active'] = << >>
        \/ \E item \in Item : held'[active'] = << item >>
    BY <1>1, <2>2 DEF Begins, TypeOK, TaskTypes
  <2>6. Own' \in {<< >>} \cup {<< item >> : item \in Item}
    BY <2>4, <2>5
  <2>7. nextSub' - 1 = (nextSub - 1) + 1 /\ active' = nextSub' - 1
    BY <1>1 DEF Begins, Subs
  <2>8. Ledger!Begin
    BY <1>1, <2>1, <2>4, <2>6, <2>7 DEF Begins, Ledger!Begin, Own, Drained
  <2> QED
    BY <2>8 DEF Ledger!LedgerNext
<1>2. CASE Queues(h)
  <2>1. Own' = Own /\ Drained' = Drained
    BY <1>2 DEF Queues, Own, Drained, HeldInput
  <2>2. CASE UNCHANGED queue
    BY <1>2, <2>1, <2>2, LedgerStutter DEF Queues
  <2>3. ASSUME NEW q \in QueueNames, NEW item \in Item,
               queue' = [queue EXCEPT ![q] = Append(@, item)]
        PROVE  Ledger!LedgerNext
    BY <1>2, <2>1, <2>3 DEF Queues, Ledger!LedgerNext, Ledger!Accept, Own, Drained
  <2> QED
    BY <1>2, <2>2, <2>3 DEF Queues
<1>3. CASE Launches(h)
  <2>1. active = hsub[h] /\ active \in Subs /\ dpc[active] = "unborn"
    BY <1>3 DEF Launches, SlotInv, TypeOK, SessionTypes, Subs
  <2>2. dpc'[active] = "top"
    BY <1>3, <2>1 DEF Launches, Goto, TypeOK, TaskTypes
  <2>3. Own' = Own /\ Drained' = Drained
    BY <1>3, <2>1, <2>2 DEF Launches, Own, Drained, HeldInput
  <2> QED
    BY <1>3, <2>3, LedgerStutter DEF Launches
<1> QED
  BY <1>1, <1>2, <1>3, HostEffects

LEMMA LedgerDriverStep ==
  ASSUME SessionInv, SessionInv', NEW s \in Subs, DriverStep(s)
  PROVE  [Ledger!LedgerNext]_(Ledger!ledgerVars)
<1>1. /\ conversation \in Seq(Item) /\ conversation' \in Seq(Item)
      /\ held[s] \in Seq(Item)
      /\ \A q \in QueueNames : queue[q] \in Seq(Item)
      /\ dpc \in [Subs -> DriverPC] /\ held \in [Subs -> Seq(Item)]
      /\ s # 0
  <2>1. SessionTypes /\ SessionTypes' /\ TaskTypes
    BY DEF SessionInv, TypeOK
  <2>2. conversation \in Seq(Item) /\ conversation' \in Seq(Item)
    BY <2>1 DEF SessionTypes
  <2>3. \A q \in QueueNames : queue[q] \in Seq(Item)
    BY <2>1 DEF SessionTypes
  <2>4. /\ dpc \in [Subs -> DriverPC] /\ held \in [Subs -> Seq(Item)]
        /\ held[s] \in Seq(Item)
    BY <2>1 DEF TaskTypes
  <2> QED
    BY <2>2, <2>3, <2>4 DEF Subs
<1>2. \A c \in Seq(Item) : c \o << >> = c
  BY ConcatEmptySeq
<1>3. dpc[s] \in InLoop => active = s
  BY DEF SessionInv, SlotInv
<1>4. dpc[s] \in EmptyHanded => held[s] = << >>
  BY DEF SessionInv, HoldInv
<1> DEFINE Transcript == conversation \o Drained
<1>5. CASE Appends(s)
  <2>1. active = s /\ active' = s
    BY <1>3, <1>5 DEF Appends, InLoop, DriverPC
  <2>2. held'[s] = << >>
    BY <1>1, <1>5 DEF Appends
  <2>3. Own' = << >> /\ Drained' = << >>
    BY <2>1, <2>2 DEF Own, Drained, HeldInput
  <2>4. conversation' = conversation \o held[s]
    BY <1>5 DEF Appends
  <2>5. CASE dpc[s] = "top"
    <3>1. Own = held[s] /\ Drained = << >>
      BY <1>1, <2>1, <2>5 DEF Own, Drained, HeldInput
    <3>2. Transcript' = Transcript \o Own
      BY <1>1, <1>2, <2>3, <2>4, <3>1
    <3>3. Ledger!WritePrimary
      BY <1>1, <1>5, <2>1, <2>3, <3>2 DEF Appends, Ledger!WritePrimary, Own, Drained
    <3> QED
      BY <3>3 DEF Ledger!LedgerNext
  <2>6. CASE dpc[s] \in {"bootAppend", "tailAppend"}
    <3>1. Own = << >> /\ Drained = held[s]
      BY <1>1, <2>1, <2>6 DEF Own, Drained, HeldInput
    <3>2. Transcript' = Transcript
      BY <1>1, <1>2, <2>3, <2>4, <3>1
    <3>3. UNCHANGED <<active, nextSub, queue>> /\ Own' = Own
      BY <1>5, <2>3, <3>1 DEF Appends
    <3>4. UNCHANGED Ledger!ledgerVars
      BY <3>2, <3>3 DEF Ledger!ledgerVars, Own, Drained
    <3> QED
      BY <3>4
  <2> QED
    BY <1>5, <2>5, <2>6 DEF Appends
<1>6. CASE Drains(s)
  <2>1. active = s /\ active' = s
    BY <1>3, <1>6 DEF Drains, EmptyHanded, InLoop, DriverPC
  <2>2. held[s] = << >>
    BY <1>4, <1>6 DEF Drains
  <2>3. Own = << >> /\ Drained = << >>
    BY <2>1, <2>2 DEF Own, Drained, HeldInput
  <2>4. PICK q \in QueueNames :
          /\ queue' = [queue EXCEPT ![q] = << >>]
          /\ held' = [held EXCEPT ![s] = queue[q]]
          /\ \/ Goto(s, "bootAppend") \/ Goto(s, "tailAppend")
             \/ /\ queue[q] = << >>
                /\ \/ Goto(s, "bootFollow") \/ Goto(s, "bootCheck")
                   \/ Goto(s, "tailFollow") \/ Goto(s, "release")
    BY <1>6 DEF Drains
  <2>5. held'[s] = queue[q]
    BY <1>1, <2>4
  <2>6. \/ dpc'[s] \in {"bootAppend", "tailAppend"}
        \/ dpc'[s] \notin {"bootAppend", "tailAppend", "unborn", "top"} /\ queue[q] = << >>
    BY <1>1, <2>4 DEF Goto
  <2>7. Own' = << >> /\ Drained' = queue[q]
    <3>1. active' = s /\ s # 0
      BY <1>1, <2>1
    <3>2. CASE dpc'[s] \in {"bootAppend", "tailAppend"}
      BY <2>5, <3>1, <3>2 DEF Own, Drained, HeldInput
    <3>3. CASE dpc'[s] \notin {"bootAppend", "tailAppend", "unborn", "top"}
               /\ queue[q] = << >>
      BY <2>5, <3>1, <3>3 DEF Own, Drained, HeldInput
    <3> QED
      BY <2>6, <3>2, <3>3
  <2>8. Transcript' = Transcript \o queue[q]
    BY <1>1, <1>2, <1>6, <2>3, <2>7 DEF Drains
  <2>9. Ledger!WriteQueue(q)
    BY <1>1, <1>6, <2>1, <2>3, <2>4, <2>7, <2>8
       DEF Drains, Ledger!WriteQueue, Own, Drained
  <2> QED
    BY <2>9 DEF Ledger!LedgerNext
<1>7. CASE Records(s)
  <2>1. active = s /\ active' = s
    BY <1>3, <1>7 DEF Records, EmptyHanded, InLoop, DriverPC
  <2>2. Own = << >> /\ Drained = << >> /\ Own' = << >> /\ Drained' = << >>
    BY <1>4, <1>7, <2>1 DEF Records, Own, Drained, HeldInput
  <2>3. PICK item \in Item : conversation' = Append(conversation, item)
    BY <1>7 DEF Records
  <2>4. Transcript' = Append(Transcript, item)
    BY <1>1, <1>2, <2>2, <2>3
  <2>5. Ledger!WriteOutput
    BY <1>1, <1>7, <2>1, <2>2, <2>4 DEF Records, Ledger!WriteOutput, Own, Drained
  <2> QED
    BY <2>5 DEF Ledger!LedgerNext
<1>8. CASE Moves(s)
  <2>1. UNCHANGED <<active, nextSub, queue, conversation, held>>
    BY <1>8 DEF Moves
  <2>2. CASE dpc[s] \in EmptyHanded
    <3>1. active = s /\ active' = s /\ held[s] = << >> /\ held'[s] = << >>
      BY <1>3, <1>4, <2>1, <2>2 DEF EmptyHanded, InLoop, DriverPC
    <3>2. Own = << >> /\ Drained = << >> /\ Own' = << >> /\ Drained' = << >>
      BY <3>1 DEF Own, Drained, HeldInput
    <3> QED
      BY <2>1, <3>2, LedgerStutter
  <2>3. CASE dpc[s] = "top" /\ Goto(s, "release")
    <3>1. active = s /\ active' = s /\ dpc'[s] = "release"
      BY <1>1, <1>3, <2>1, <2>3 DEF Goto, InLoop, DriverPC
    <3>2. Own' = Own /\ Drained' = Drained
      BY <2>1, <2>3, <3>1 DEF Own, Drained, HeldInput
    <3> QED
      BY <2>1, <3>2, LedgerStutter
  <2>4. CASE dpc[s] = "announce" /\ Goto(s, "gone")
    <3>1. dpc'[s] = "gone" /\ \A r \in Subs : r # s => dpc'[r] = dpc[r]
      BY <1>1, <2>4 DEF Goto
    <3>2. active # 0 => active \in Subs
      BY DEF SessionInv, TypeOK, SessionTypes, Subs
    <3>3. Own' = Own /\ Drained' = Drained
      BY <2>1, <2>4, <3>1, <3>2 DEF Own, Drained, HeldInput
    <3> QED
      BY <2>1, <3>3, LedgerStutter
  <2> QED
    BY <1>8, <2>2, <2>3, <2>4 DEF Moves
<1>9. CASE Frees(s)
  <2>1. active = s /\ active' = 0
    BY <1>3, <1>9 DEF Frees, InLoop, DriverPC
  <2>2. Drained = << >> /\ Own' = << >> /\ Drained' = << >>
    BY <1>9, <2>1 DEF Frees, Own, Drained, HeldInput
  <2>3. Ledger!End
    BY <1>1, <1>9, <2>1, <2>2 DEF Frees, Ledger!End, Own, Drained
  <2> QED
    BY <2>3 DEF Ledger!LedgerNext
<1> QED
  BY <1>5, <1>6, <1>7, <1>8, <1>9, DriverEffects DEF SessionInv

LEMMA LedgerStep ==
  SessionInv /\ SessionInv' /\ [Next]_vars => [Ledger!LedgerNext]_(Ledger!ledgerVars)
<1> SUFFICES ASSUME SessionInv, SessionInv', [Next]_vars
             PROVE  [Ledger!LedgerNext]_(Ledger!ledgerVars)
  OBVIOUS
<1>1. CASE UNCHANGED vars
  <2>1. UNCHANGED <<active, nextSub, queue, conversation, dpc, held>>
    BY <1>1 DEF vars, sessionVars, driverVars
  <2>2. Own' = Own /\ Drained' = Drained
    BY <2>1 DEF Own, Drained, HeldInput
  <2> QED
    BY <2>1, <2>2, LedgerStutter
<1>2. ASSUME NEW h \in Hosts, HostStep(h) PROVE [Ledger!LedgerNext]_(Ledger!ledgerVars)
  BY <1>2, LedgerHostStep
<1>3. ASSUME NEW s \in Subs, DriverStep(s) PROVE [Ledger!LedgerNext]_(Ledger!ledgerVars)
  BY <1>3, LedgerDriverStep
<1> QED
  BY <1>1, <1>2, <1>3 DEF Next, Quiescent

(* The session implements its ledger: turns take it one at a time, and a   *)
(* host's input goes from its queue to the transcript whole, in order and  *)
(* once, although the code takes its lock twice on the way.                *)
THEOREM SessionImplementsLedger == Spec => ImplementsLedger
<1>1. SessionInv /\ SessionInv' /\ [Next]_vars => [Ledger!LedgerNext]_(Ledger!ledgerVars)
  BY LedgerStep
<1> QED
  BY <1>1, LedgerInitial, SessionHolds, PTL DEF Spec, ImplementsLedger, Ledger!LedgerSpec


(***************************************************************************)
(* Tool rounds.                                                            *)
(***************************************************************************)
InputKinds == QueueNames \cup {"Primary"}

(* Queues and hands hold input only; outputs are numbered as they come; and *)
(* while a call waits for its result, no input was recorded after it.      *)
InputInv ==
    /\ \A q \in QueueNames : \A n \in DOMAIN queue[q] : queue[q][n].kind \in InputKinds
    /\ \A s \in Subs : \A n \in DOMAIN held[s] : held[s][n].kind \in InputKinds

CallInv ==
    /\ \A i \in DOMAIN conversation :
          conversation[i].kind \in {"Call", "Result"} => conversation[i].id < nextOutput
    /\ \A s \in Subs : calls[s] # << >> => dpc[s] \in {"stream", "tools"}
    /\ \A s \in Subs : \A n \in DOMAIN calls[s] : calls[s][n] < nextOutput

OpenInv ==
    \A s \in Subs : \A n \in DOMAIN calls[s] : \A i, k \in DOMAIN conversation :
        (/\ conversation[i].kind = "Call" /\ conversation[i].id = calls[s][n]
         /\ i <= k)
        => conversation[k].kind \notin InputKinds

RoundInv == InputInv /\ CallInv /\ OpenInv /\ NoInputInsideToolRound

(* A driver step that records nothing.                                     *)
Quiet(s) ==
    /\ conversation' = conversation /\ nextOutput' = nextOutput
    /\ \A t \in Subs \ {s} : dpc'[t] = dpc[t]
    /\ \/ calls' = [calls EXCEPT ![s] = << >>]
       \/ /\ calls' = calls
          /\ calls[s] = << >> \/ dpc'[s] = "tools" \/ dpc[s] \notin {"stream", "tools"}
    /\ \/ UNCHANGED <<queue, held>>
       \/ \E q \in QueueNames : /\ queue' = [queue EXCEPT ![q] = << >>]
                                /\ held' = [held EXCEPT ![s] = queue[q]]

LEMMA RoundEffects ==
  ASSUME TypeOK, NEW s \in Subs, DriverStep(s)
  PROVE  \/ Quiet(s)
         \/ Appends(s) /\ UNCHANGED <<calls, nextOutput>>
         \/ StreamMessage(s) \/ StreamToolCall(s) \/ RecordToolResult(s)
<1>0. dpc \in [Subs -> DriverPC]
  BY DEF TypeOK, TaskTypes
<1>1. CASE LoopStep(s)
  <2>1. UNCHANGED <<calls, nextOutput>> /\ dpc[s] \notin {"stream", "tools"}
    BY <1>1 DEF LoopStep, TopCancelled, TopInitial, TopBootstrap, BootstrapFollowUp,
       BootstrapAppend, BootstrapCheck, StartTurn, BuildRequest, historyVars
  <2>2. CASE TopInitial(s) \/ BootstrapAppend(s)
    BY <2>1, <2>2 DEF TopInitial, BootstrapAppend, AppendItems, Appends
  <2>3. CASE TopBootstrap(s) \/ BootstrapFollowUp(s)
    BY <1>0, <2>1, <2>3 DEF TopBootstrap, BootstrapFollowUp, DrainInputQueue, Quiet, QueueNames,
       Goto
  <2>4. CASE TopCancelled(s) \/ BootstrapCheck(s) \/ StartTurn(s) \/ BuildRequest(s)
    BY <1>0, <2>1, <2>4 DEF TopCancelled, BootstrapCheck, StartTurn, BuildRequest, EmitAndGo,
       sessionVars, Quiet, Goto
  <2> QED
    BY <1>1, <2>2, <2>3, <2>4 DEF LoopStep
<1>2. CASE EndStep(s)
  <2>1. UNCHANGED <<calls, nextOutput>> /\ dpc[s] \notin {"stream", "tools"}
    BY <1>2 DEF EndStep, FailTurn, CompleteTurn, AfterCompleted, TailFollowUp, TailAppend,
       Release, Announce, historyVars
  <2>2. CASE TailAppend(s)
    BY <2>1, <2>2 DEF TailAppend, AppendItems, Appends
  <2>3. CASE TailFollowUp(s) \/ Release(s) \/ FailTurn(s) \/ CompleteTurn(s) \/ Announce(s)
    BY <1>0, <2>1, <2>3 DEF TailFollowUp, DrainInputQueue, QueueNames, Release, FailTurn,
       CompleteTurn, Announce, EmitAndGo, sessionVars, Quiet, Goto
  <2>4. CASE AfterCompleted(s)
    BY <1>0, <2>1, <2>4 DEF AfterCompleted, DrainInputQueue, QueueNames, EmitAndGo,
       sessionVars, Quiet, Goto
  <2> QED
    BY <1>2, <2>2, <2>3, <2>4 DEF EndStep
<1>3. CASE OpenStream(s) \/ StreamCompleted(s) \/ KernelFinish(s)
  <2>1. UNCHANGED <<conversation, queue, held, calls, nextOutput>>
    BY <1>3 DEF OpenStream, StreamCompleted, KernelFinish, sessionVars, historyVars
  <2>2. /\ \A t \in Subs \ {s} : dpc'[t] = dpc[t]
        /\ calls[s] = << >> \/ dpc'[s] = "tools" \/ dpc[s] \notin {"stream", "tools"}
    BY <1>0, <1>3 DEF OpenStream, StreamCompleted, KernelFinish, Goto
  <2> QED
    BY <2>1, <2>2 DEF Quiet
<1>4. CASE Interrupt(s)
  BY <1>0, <1>4 DEF Interrupt, Goto, Quiet, sessionVars, historyVars
<1>5. CASE StreamMessage(s) \/ StreamToolCall(s) \/ RecordToolResult(s)
  BY <1>5
<1> QED
  BY <1>1, <1>2, <1>3, <1>4, <1>5, DriverCases

(* What an appended item, or appended input, leaves of the conversation.   *)
LEMMA Longer ==
  ASSUME NEW c \in Seq(Item), NEW x \in Item
  PROVE  /\ DOMAIN c = 1 .. Len(c) /\ Len(c) \in Nat
         /\ DOMAIN Append(c, x) = 1 .. Len(c) + 1
         /\ \A i \in 1 .. Len(c) : Append(c, x)[i] = c[i]
         /\ Append(c, x)[Len(c) + 1] = x
OBVIOUS

LEMMA OldOrNew ==
  ASSUME NEW c \in Seq(Item), NEW x \in Item, NEW i \in DOMAIN Append(c, x)
  PROVE  \/ i \in DOMAIN c /\ Append(c, x)[i] = c[i] /\ i <= Len(c)
         \/ i = Len(c) + 1 /\ Append(c, x)[i] = x
BY Longer

LEMMA OldOrInput ==
  ASSUME NEW c \in Seq(Item), NEW d \in Seq(Item), NEW i \in DOMAIN (c \o d)
  PROVE  \/ i \in DOMAIN c /\ (c \o d)[i] = c[i] /\ i <= Len(c)
         \/ i > Len(c) /\ \E n \in DOMAIN d : (c \o d)[i] = d[n]
<1>1. /\ DOMAIN c = 1 .. Len(c) /\ DOMAIN d = 1 .. Len(d)
      /\ Len(c) \in Nat /\ Len(d) \in Nat
      /\ DOMAIN (c \o d) = 1 .. Len(c) + Len(d)
      /\ \A n \in 1 .. Len(c) : (c \o d)[n] = c[n]
      /\ \A n \in 1 .. Len(d) : (c \o d)[Len(c) + n] = d[n]
  OBVIOUS
<1>2. CASE i <= Len(c)
  BY <1>1, <1>2
<1>3. CASE i > Len(c)
  <2>1. i - Len(c) \in 1 .. Len(d) /\ i = Len(c) + (i - Len(c))
    BY <1>1, <1>3
  <2> QED
    BY <1>1, <1>3, <2>1
<1> QED
  BY <1>1, <1>2, <1>3

LEMMA RoundInit == Init => RoundInv
<1> SUFFICES ASSUME Init PROVE RoundInv
  OBVIOUS
<1> USE DEF Init
<1>1. InputInv /\ CallInv
  BY DEF InputInv, CallInv
<1>2. OpenInv /\ NoInputInsideToolRound
  BY DEF OpenInv, NoInputInsideToolRound
<1> QED
  BY <1>1, <1>2 DEF RoundInv

LEMMA RoundHostStep ==
  ASSUME TypeOK, SlotInv, RoundInv, NEW h \in Hosts, HostStep(h)
  PROVE  RoundInv'
<1> USE DEF RoundInv
<1>1. UNCHANGED <<conversation, calls, nextOutput>>
  BY DEF HostStep, Run, ContinueCheck, ContinueAcquire, ContinueBusy, Launch, Enqueue,
     AbortCapture, AbortAnnounce, AbortCancel, sessionVars, driverVars, historyVars
<1>2. \A s \in Subs : dpc'[s] = dpc[s] \/ dpc[s] = "unborn"
  <2>1. CASE Launch(h)
    BY <2>1 DEF Launch, Goto, TypeOK, TaskTypes, SlotInv
  <2>2. CASE ~Launch(h)
    BY <2>2 DEF HostStep, Run, ContinueCheck, ContinueAcquire, ContinueBusy, Enqueue,
       AbortCapture, AbortAnnounce, AbortCancel, driverVars
  <2> QED
    BY <2>1, <2>2
<1>3. CallInv' /\ OpenInv' /\ NoInputInsideToolRound'
  BY <1>1, <1>2 DEF CallInv, OpenInv, NoInputInsideToolRound
<1>4. InputInv'
  <2>1. CASE UNCHANGED <<queue, held>>
    BY <2>1 DEF InputInv
  <2>2. ASSUME NEW items, AcquireTurn(h, "run", items) \/ AcquireTurn(h, "continue", items),
               items = << >> \/ items = << Fresh("Primary") >>, queue' = queue
        PROVE  InputInv'
    <3>1. held' = [held EXCEPT ![nextSub] = items]
      BY <2>2 DEF AcquireTurn
    <3>2. \A n \in DOMAIN items : items[n].kind \in InputKinds
      BY <2>2 DEF Fresh, InputKinds
    <3>3. \A s \in Subs : held'[s] = held[s] \/ held'[s] = items
      BY <3>1 DEF TypeOK, TaskTypes
    <3> QED
      BY <2>2, <3>2, <3>3 DEF InputInv
  <2>3. ASSUME NEW q \in QueueNames, Enqueue(h, q) PROVE InputInv'
    <3>1. held' = held
      BY <2>3 DEF Enqueue, driverVars
    <3>2. CASE queue' = queue
      BY <3>1, <3>2 DEF InputInv
    <3>3. CASE HandOver(q) /\ queue' = [queue EXCEPT ![q] = Append(@, Fresh(q))]
      <4>1. Fresh(q) \in Item /\ Fresh(q).kind \in InputKinds
        BY <3>3, FreshTyped DEF HandOver, TypeOK, Fresh, InputKinds
      <4>2. queue[q] \in Seq(Item) /\ queue'[q] = Append(queue[q], Fresh(q))
        BY <3>3 DEF TypeOK, SessionTypes
      <4>3. \A n \in DOMAIN queue'[q] : queue'[q][n].kind \in InputKinds
        BY <4>1, <4>2, OldOrNew DEF InputInv
      <4>4. \A r \in QueueNames \ {q} : queue'[r] = queue[r]
        BY <3>3 DEF TypeOK, SessionTypes
      <4> QED
        BY <3>1, <4>3, <4>4 DEF InputInv
    <3> QED
      BY <2>3, <3>2, <3>3 DEF Enqueue
  <2>4. CASE Run(h)
    BY <2>2, <2>4 DEF Run
  <2>5. CASE ContinueAcquire(h)
    BY <2>2, <2>5 DEF ContinueAcquire
  <2>6. CASE ContinueCheck(h) \/ ContinueBusy(h) \/ Launch(h) \/ AbortCapture(h)
             \/ AbortAnnounce(h) \/ AbortCancel(h)
    BY <2>1, <2>6 DEF ContinueCheck, ContinueBusy, Launch, AbortCapture, AbortAnnounce,
       AbortCancel, sessionVars, driverVars
  <2> QED
    BY <2>3, <2>4, <2>5, <2>6 DEF HostStep
<1> QED
  BY <1>3, <1>4

LEMMA RoundDriverStep ==
  ASSUME TypeOK, SlotInv, RoundInv, NEW s \in Subs, DriverStep(s)
  PROVE  RoundInv'
<1> USE DEF RoundInv
<1>0. /\ conversation \in Seq(Item) /\ held \in [Subs -> Seq(Item)]
      /\ calls \in [Subs -> Seq(Ids)] /\ dpc \in [Subs -> DriverPC]
      /\ queue \in [QueueNames -> Seq(Item)] /\ nextOutput \in Nat
      /\ Ids \subseteq Nat
  BY BoundsAssumption DEF TypeOK, SessionTypes, TaskTypes, HistoryTypes, Ids
<1>1. CASE Quiet(s)
  <2>1. InputInv'
    <3>1. CASE UNCHANGED <<queue, held>>
      BY <3>1 DEF InputInv
    <3>2. ASSUME NEW q \in QueueNames, queue' = [queue EXCEPT ![q] = << >>],
                 held' = [held EXCEPT ![s] = queue[q]]
          PROVE  InputInv'
      <4>1. \A r \in QueueNames : queue'[r] = queue[r] \/ queue'[r] = << >>
        BY <1>0, <3>2
      <4>2. \A t \in Subs : held'[t] = held[t] \/ held'[t] = queue[q]
        BY <1>0, <3>2
      <4>3. \A r \in QueueNames : \A n \in DOMAIN queue'[r] : queue'[r][n].kind \in InputKinds
        BY <4>1 DEF InputInv
      <4>4. \A t \in Subs : \A n \in DOMAIN held'[t] : held'[t][n].kind \in InputKinds
        BY <4>2 DEF InputInv
      <4> QED
        BY <4>3, <4>4 DEF InputInv
    <3> QED
      BY <1>1, <3>1, <3>2 DEF Quiet
  <2>2. \A t \in Subs : calls'[t] = calls[t] \/ calls'[t] = << >>
    BY <1>0, <1>1 DEF Quiet
  <2>3. ASSUME NEW t \in Subs, calls'[t] # << >> PROVE dpc'[t] \in {"stream", "tools"}
    <3>1. calls[t] # << >> /\ dpc[t] \in {"stream", "tools"}
      BY <2>2, <2>3 DEF CallInv
    <3>2. CASE t = s
      BY <1>0, <1>1, <2>3, <3>1, <3>2 DEF Quiet
    <3>3. CASE t # s
      BY <1>1, <3>1, <3>3 DEF Quiet
    <3> QED
      BY <3>2, <3>3
  <2>4. CallInv'
    BY <1>1, <2>2, <2>3 DEF Quiet, CallInv
  <2>5. OpenInv' /\ NoInputInsideToolRound'
    BY <1>1, <2>2 DEF Quiet, OpenInv, NoInputInsideToolRound
  <2> QED
    BY <2>1, <2>4, <2>5
(* Input is recorded while no call waits for its result.                   *)
<1>2. CASE Appends(s) /\ UNCHANGED <<calls, nextOutput>>
  <2>1. /\ conversation' = conversation \o held[s] /\ held' = [held EXCEPT ![s] = << >>]
        /\ queue' = queue /\ calls' = calls /\ nextOutput' = nextOutput
        /\ dpc[s] \in {"top", "bootAppend", "tailAppend"} /\ \A t \in Subs \ {s} : dpc'[t] = dpc[t]
    BY <1>0, <1>2 DEF Appends, Goto
  <2>2. \A t \in Subs : calls[t] = << >>
    <3>1. active = s
      BY <2>1 DEF SlotInv, InLoop, DriverPC
    <3>2. \A t \in Subs : dpc[t] \in {"stream", "tools"} => t = s
      BY <3>1 DEF SlotInv, InLoop, DriverPC
    <3> QED
      BY <2>1, <3>2 DEF CallInv
  <2>3. InputInv'
    BY <1>0, <2>1 DEF InputInv
  <2>4. \A i \in DOMAIN conversation' :
           \/ i \in DOMAIN conversation /\ conversation'[i] = conversation[i] /\ i <= Len(conversation)
           \/ i > Len(conversation) /\ conversation'[i].kind \in InputKinds
    BY <1>0, <2>1, OldOrInput DEF InputInv
  <2>5. {"Call", "Result"} \cap InputKinds = {}
    BY DEF InputKinds, QueueNames
  <2>6. CallInv'
    BY <2>1, <2>2, <2>4, <2>5 DEF CallInv
  <2>7. OpenInv'
    BY <2>1, <2>2 DEF OpenInv
  <2>8. NoInputInsideToolRound'
    <3> SUFFICES ASSUME NEW i \in DOMAIN conversation', NEW j \in DOMAIN conversation',
                        conversation'[i].kind = "Call", conversation'[j].kind = "Result",
                        conversation'[i].id = conversation'[j].id
                 PROVE  i < j /\ \A k \in i .. j : conversation'[k].kind \notin InputKinds
      BY DEF NoInputInsideToolRound, InputKinds
    <3>1. /\ i \in DOMAIN conversation /\ conversation'[i] = conversation[i]
          /\ j \in DOMAIN conversation /\ conversation'[j] = conversation[j]
      BY <2>4, <2>5
    <3>2. i < j /\ \A k \in i .. j : conversation[k].kind \notin InputKinds
      BY <3>1 DEF NoInputInsideToolRound, InputKinds
    <3>3. ASSUME NEW k \in i .. j PROVE conversation'[k] = conversation[k]
      <4>1. k \in DOMAIN conversation
        BY <1>0, <3>1
      <4> QED
        BY <1>0, <2>1, <4>1
    <3> QED
      BY <3>2, <3>3
  <2> QED
    BY <2>3, <2>6, <2>7, <2>8
(* An output is recorded.                                                  *)
<1>3. ASSUME NEW x \in Item, conversation' = Append(conversation, x), x.kind \notin InputKinds,
             UNCHANGED <<queue, held, dpc>>, nextOutput <= nextOutput', nextOutput' \in Nat,
             x.kind \in {"Call", "Result"} => x.id < nextOutput',
             \A t \in Subs : \A n \in DOMAIN calls'[t] :
                 \/ \E m \in DOMAIN calls[t] : calls'[t][n] = calls[t][m]
                 \/ x.kind = "Call" /\ calls'[t][n] = nextOutput /\ nextOutput < nextOutput',
             \A t \in Subs : calls'[t] # << >> => dpc[t] \in {"stream", "tools"},
             x.kind = "Call" => x.id = nextOutput,
             x.kind = "Result" => \E t \in Subs : \E n \in DOMAIN calls[t] : calls[t][n] = x.id
      PROVE  RoundInv'
  <2>1. InputInv'
    BY <1>3 DEF InputInv
  <2> DEFINE L == Len(conversation)
  <2>2. \A i \in DOMAIN conversation' :
           \/ i \in DOMAIN conversation /\ conversation'[i] = conversation[i] /\ i <= L
           \/ i = L + 1 /\ conversation'[i] = x
    BY <1>0, <1>3, OldOrNew
  <2>3. L \in Nat /\ DOMAIN conversation = 1 .. L /\ DOMAIN conversation' = 1 .. L + 1
    BY <1>0, <1>3, Longer
  <2>7. /\ \A i \in DOMAIN conversation : conversation[i].id \in Nat
        /\ \A t \in Subs : \A n \in DOMAIN calls[t] : calls[t][n] \in Nat
    <3>1. \A i \in DOMAIN conversation : conversation[i] \in Item
      BY <1>0
    <3>2. \A y \in Item : y.id \in Nat
      BY <1>0 DEF Item
    <3>3. ASSUME NEW t \in Subs, NEW n \in DOMAIN calls[t] PROVE calls[t][n] \in Nat
      <4>1. calls[t] \in Seq(Ids)
        BY <1>0
      <4>2. calls[t][n] \in Ids
        BY <4>1
      <4> QED
        BY <1>0, <4>2
    <3> QED
      BY <3>1, <3>2, <3>3
  <2> HIDE DEF L
  <2>4. CallInv'
    <3>1. \A i \in DOMAIN conversation' :
             conversation'[i].kind \in {"Call", "Result"} => conversation'[i].id < nextOutput'
      BY <1>0, <1>3, <2>2, <2>7 DEF CallInv
    <3>2. \A t \in Subs : \A n \in DOMAIN calls'[t] : calls'[t][n] < nextOutput'
      <4> SUFFICES ASSUME NEW t \in Subs, NEW n \in DOMAIN calls'[t]
                   PROVE  calls'[t][n] < nextOutput'
        OBVIOUS
      <4>1. CASE \E m \in DOMAIN calls[t] : calls'[t][n] = calls[t][m]
        <5>1. PICK m \in DOMAIN calls[t] : calls'[t][n] = calls[t][m]
          BY <4>1
        <5>2. calls[t][m] \in Nat /\ calls[t][m] < nextOutput
          BY <2>7 DEF CallInv
        <5> QED
          BY <1>0, <1>3, <5>1, <5>2
      <4>2. CASE calls'[t][n] = nextOutput /\ nextOutput < nextOutput'
        BY <4>2
      <4> QED
        BY <1>3, <4>1, <4>2
    <3> QED
      BY <1>3, <3>1, <3>2 DEF CallInv
  <2>5. OpenInv'
    <3> SUFFICES ASSUME NEW t \in Subs, NEW n \in DOMAIN calls'[t],
                        NEW i \in DOMAIN conversation', NEW k \in DOMAIN conversation',
                        conversation'[i].kind = "Call", conversation'[i].id = calls'[t][n], i <= k
                 PROVE  conversation'[k].kind \notin InputKinds
      BY DEF OpenInv
    <3>1. CASE k = L + 1
      BY <1>3, <2>2, <2>3, <3>1
    <3>2. CASE k # L + 1
      <4>1. /\ k \in DOMAIN conversation /\ conversation'[k] = conversation[k]
            /\ i \in DOMAIN conversation /\ conversation'[i] = conversation[i]
        BY <2>2, <2>3, <3>2
      <4>2. calls'[t][n] # nextOutput
        BY <1>0, <4>1, <2>7 DEF CallInv
      <4>3. PICK m \in DOMAIN calls[t] : calls'[t][n] = calls[t][m]
        BY <1>3, <4>2
      <4> QED
        BY <4>1, <4>3 DEF OpenInv
    <3> QED
      BY <3>1, <3>2
  <2>6. NoInputInsideToolRound'
    <3> SUFFICES ASSUME NEW i \in DOMAIN conversation', NEW j \in DOMAIN conversation',
                        conversation'[i].kind = "Call", conversation'[j].kind = "Result",
                        conversation'[i].id = conversation'[j].id
                 PROVE  i < j /\ \A k \in i .. j : conversation'[k].kind \notin InputKinds
      BY DEF NoInputInsideToolRound, InputKinds
    <3>1. CASE i \in DOMAIN conversation /\ j \in DOMAIN conversation
      <4>1. conversation'[i] = conversation[i] /\ conversation'[j] = conversation[j]
        BY <2>2, <2>3, <3>1
      <4>2. i < j /\ \A k \in i .. j : conversation[k].kind \notin InputKinds
        BY <3>1, <4>1 DEF NoInputInsideToolRound, InputKinds
      <4>3. \A k \in i .. j : k \in DOMAIN conversation /\ k \in DOMAIN conversation' /\ k # L + 1
        BY <2>3, <3>1
      <4> QED
        BY <2>2, <4>2, <4>3
    <3>2. CASE i = L + 1
      <4>1. j \in DOMAIN conversation /\ conversation'[j] = conversation[j] /\ conversation'[i] = x
        BY <2>2, <2>3, <3>2
      <4>2. conversation[j].id < nextOutput /\ x.id = nextOutput
        BY <1>3, <4>1 DEF CallInv
      <4> QED
        BY <1>0, <4>1, <4>2
    <3>3. CASE i \in DOMAIN conversation /\ j = L + 1
      <4>1. conversation'[i] = conversation[i] /\ conversation'[j] = x /\ i < j
        BY <2>2, <2>3, <3>3
      <4>2. PICK t \in Subs : \E n \in DOMAIN calls[t] : calls[t][n] = conversation[i].id
        BY <1>3, <4>1
      <4>5. PICK n \in DOMAIN calls[t] : calls[t][n] = conversation[i].id
        BY <4>2
      <4>6. \A k \in DOMAIN conversation : i <= k => conversation[k].kind \notin InputKinds
        BY <3>3, <4>1, <4>5 DEF OpenInv
      <4>4. ASSUME NEW k \in i .. j PROVE conversation'[k].kind \notin InputKinds
        <5>1. k \in DOMAIN conversation' /\ i <= k
          BY <2>3, <3>3
        <5> QED
          BY <1>3, <2>2, <4>6, <5>1
      <4> QED
        BY <4>1, <4>4
    <3> QED
      BY <2>2, <3>1, <3>2, <3>3
  <2> QED
    BY <2>1, <2>4, <2>5, <2>6
<1>4. {"Call", "Result", "Message"} \cap InputKinds = {}
  BY DEF InputKinds, QueueNames
<1>5. CASE StreamMessage(s) \/ StreamToolCall(s)
  <2>1. nextOutput \in Ids /\ nextOutput' = nextOutput + 1 /\ dpc[s] = "stream"
        /\ UNCHANGED <<queue, held, dpc>>
    BY <1>5, BoundsAssumption DEF StreamMessage, StreamToolCall, driverVars, TypeOK,
       HistoryTypes, Ids
  <2>2. \A k \in {"Message", "Call"} : [kind |-> k, id |-> nextOutput] \in Item
    BY <2>1 DEF Item
  <2>3. CASE StreamMessage(s)
    <3>1. conversation' = Append(conversation, [kind |-> "Message", id |-> nextOutput])
          /\ calls' = calls
      BY <2>3 DEF StreamMessage, Record, driverVars
    <3>2. \A t \in Subs : calls'[t] # << >> => dpc[t] \in {"stream", "tools"}
      BY <3>1 DEF CallInv
    <3>5. PICK x \in Item : x = [kind |-> "Message", id |-> nextOutput]
      BY <2>2
    <3>6. x.kind = "Message" /\ x.id = nextOutput /\ x.kind \notin InputKinds
      BY <1>4, <3>5
    <3>7. conversation' = Append(conversation, x) /\ nextOutput' \in Nat /\ nextOutput < nextOutput'
      BY <1>0, <2>1, <3>1, <3>5
    <3>8. \A t \in Subs : \A n \in DOMAIN calls'[t] :
             \/ \E m \in DOMAIN calls[t] : calls'[t][n] = calls[t][m]
             \/ x.kind = "Call" /\ calls'[t][n] = nextOutput /\ nextOutput < nextOutput'
      BY <3>1
    <3>9. x.id < nextOutput' /\ nextOutput <= nextOutput'
      BY <1>0, <3>6, <3>7
    <3>10. x.kind = "Call" => x.id = nextOutput
      BY <3>6
    <3>11. x.kind # "Result"
      BY <3>6
    <3> QED
      BY <1>3, <2>1, <3>2, <3>6, <3>7, <3>8, <3>9, <3>10, <3>11
  <2>4. CASE StreamToolCall(s)
    <3>1. /\ conversation' = Append(conversation, [kind |-> "Call", id |-> nextOutput])
          /\ calls' = [calls EXCEPT ![s] = Append(calls[s], nextOutput)]
      BY <2>4 DEF StreamToolCall, Record
    <3>2. \A t \in Subs : calls'[t] # << >> => dpc[t] \in {"stream", "tools"}
      BY <1>0, <2>1, <3>1 DEF CallInv
    <3>3. ASSUME NEW t \in Subs, NEW n \in DOMAIN calls'[t]
          PROVE  \/ \E m \in DOMAIN calls[t] : calls'[t][n] = calls[t][m]
                 \/ calls'[t][n] = nextOutput
      <4>1. CASE t # s
        BY <1>0, <3>1, <3>3, <4>1
      <4>2. CASE t = s
        <5>1. calls'[s] = Append(calls[s], nextOutput) /\ calls[s] \in Seq(Ids)
          BY <1>0, <3>1
        <5>2. /\ DOMAIN calls[s] = 1 .. Len(calls[s]) /\ Len(calls[s]) \in Nat
              /\ DOMAIN calls'[s] = 1 .. Len(calls[s]) + 1
              /\ \A m \in 1 .. Len(calls[s]) : calls'[s][m] = calls[s][m]
              /\ calls'[s][Len(calls[s]) + 1] = nextOutput
          BY <2>1, <5>1
        <5> QED
          BY <3>3, <4>2, <5>2
      <4> QED
        BY <4>1, <4>2
    <3>5. PICK x \in Item : x = [kind |-> "Call", id |-> nextOutput]
      BY <2>2
    <3>6. x.kind = "Call" /\ x.id = nextOutput /\ x.kind \notin InputKinds
      BY <1>4, <3>5
    <3>7. conversation' = Append(conversation, x) /\ nextOutput' \in Nat /\ nextOutput < nextOutput'
      BY <1>0, <2>1, <3>1, <3>5
    <3>8. \A t \in Subs : \A n \in DOMAIN calls'[t] :
             \/ \E m \in DOMAIN calls[t] : calls'[t][n] = calls[t][m]
             \/ x.kind = "Call" /\ calls'[t][n] = nextOutput /\ nextOutput < nextOutput'
      BY <3>3, <3>6, <3>7
    <3>9. x.id < nextOutput' /\ nextOutput <= nextOutput'
      BY <1>0, <3>6, <3>7
    <3>10. x.kind = "Call" => x.id = nextOutput
      BY <3>6
    <3>11. x.kind # "Result"
      BY <3>6
    <3> QED
      BY <1>3, <2>1, <3>2, <3>6, <3>7, <3>8, <3>9, <3>10, <3>11
  <2> QED
    BY <1>5, <2>3, <2>4
<1>6. CASE RecordToolResult(s)
  <2> DEFINE c == calls[s]
  <2>1. /\ dpc[s] = "tools" /\ c # << >> /\ UNCHANGED <<queue, held, dpc, nextOutput>>
        /\ conversation' = Append(conversation, [kind |-> "Result", id |-> Head(c)])
        /\ calls' = [calls EXCEPT ![s] = Tail(c)]
    BY <1>6 DEF RecordToolResult, Record, historyVars
  <2>2. c \in Seq(Ids)
    BY <1>0
  <2> HIDE DEF c
  <2>3. /\ 1 \in DOMAIN c /\ c[1] = Head(c) /\ Head(c) \in Ids
        /\ \A n \in DOMAIN Tail(c) : n + 1 \in DOMAIN c /\ Tail(c)[n] = c[n + 1]
    BY <2>1, <2>2
  <2>4. [kind |-> "Result", id |-> Head(c)] \in Item
    BY <2>3 DEF Item
  <2>5. \A t \in Subs : calls'[t] # << >> => dpc[t] \in {"stream", "tools"}
    BY <1>0, <2>1 DEF CallInv
  <2>6. \A t \in Subs : \A n \in DOMAIN calls'[t] : \E m \in DOMAIN calls[t] : calls'[t][n] = calls[t][m]
    BY <1>0, <2>1, <2>3 DEF c
  <2>7. Head(c) < nextOutput
    BY <2>3 DEF CallInv, c
  <2>8. \E t \in Subs : \E n \in DOMAIN calls[t] : calls[t][n] = Head(c)
    BY <2>3 DEF c
  <2>9. PICK x \in Item : x = [kind |-> "Result", id |-> Head(c)]
    BY <2>4
  <2>10. x.kind = "Result" /\ x.id = Head(c) /\ x.kind \notin InputKinds
    BY <1>4, <2>9
  <2>11. conversation' = Append(conversation, x) /\ nextOutput' \in Nat /\ nextOutput <= nextOutput'
    BY <1>0, <2>1, <2>9
  <2>12. x.id < nextOutput' /\ \E t \in Subs : \E n \in DOMAIN calls[t] : calls[t][n] = x.id
    BY <2>1, <2>7, <2>8, <2>10
  <2> QED
    BY <1>3, <2>1, <2>5, <2>6, <2>10, <2>11, <2>12
<1> QED
  BY <1>1, <1>2, <1>5, <1>6, RoundEffects

LEMMA RoundHolds == Spec => [](SessionInv /\ RoundInv)
<1>1. SessionInv /\ RoundInv /\ [Next]_vars => RoundInv'
  <2> SUFFICES ASSUME SessionInv, RoundInv, [Next]_vars PROVE RoundInv'
    OBVIOUS
  <2>1. CASE UNCHANGED vars
    BY <2>1 DEF RoundInv, InputInv, CallInv, OpenInv, NoInputInsideToolRound, vars,
       sessionVars, driverVars, historyVars
  <2>2. ASSUME NEW h \in Hosts, HostStep(h) PROVE RoundInv'
    BY <2>2, RoundHostStep DEF SessionInv
  <2>3. ASSUME NEW s \in Subs, DriverStep(s) PROVE RoundInv'
    BY <2>3, RoundDriverStep DEF SessionInv
  <2> QED
    BY <2>1, <2>2, <2>3 DEF Next, Quiescent
<1> QED
  BY <1>1, RoundInit, SessionHolds, PTL DEF Spec

(* No input of the host lands between a tool call and its result.          *)
THEOREM ToolRoundCorrect == Spec => []NoInputInsideToolRound
<1>1. RoundInv => NoInputInsideToolRound
  BY DEF RoundInv
<1> QED
  BY <1>1, RoundHolds, PTL

(***************************************************************************)
(* The grammar of a submission's events: where a driver stands tells what  *)
(* the last event of its submission was.                                   *)
(***************************************************************************)
Between == {"top", "bootFollow", "bootAppend", "bootCheck", "start"}
Inside == {"build", "open", "stream", "tools", "failed", "finish"}
Over == {"release", "announce", "gone"}

(* p is the event right before i, and i the last, of the submission s.     *)
RightBefore(s, p, i) ==
    p \in EventsOf(s) /\ p < i /\ \A j \in EventsOf(s) : j < i => j <= p
IsLast(s, i) == i \in EventsOf(s) /\ \A j \in EventsOf(s) : j <= i

InPlace(s, i) ==
    \/ /\ events[i].kind = "Completed"
       /\ \E p \in DOMAIN events : RightBefore(s, p, i) /\ events[p].kind = "Started"
    \/ /\ events[i].kind = "Started"
       /\ \/ \A j \in EventsOf(s) : i <= j
          \/ \E p \in DOMAIN events : RightBefore(s, p, i) /\ events[p].kind = "Completed"
    \/ /\ events[i].kind \notin {"Completed", "Started"}
       /\ IsLast(s, i)

Rounds(s) == \A i \in EventsOf(s) : InPlace(s, i)

Stands(s) ==
    /\ dpc[s] = "unborn" => EventsOf(s) = {}
    /\ dpc[s] \in Between =>
           \/ EventsOf(s) = {}
           \/ \E i \in DOMAIN events : IsLast(s, i) /\ events[i].kind = "Completed"
    /\ dpc[s] \in Inside =>
           \E i \in DOMAIN events : IsLast(s, i) /\ events[i].kind = "Started"
    /\ dpc[s] \in {"completed", "tailFollow", "tailAppend"} =>
           \E i \in DOMAIN events :
               /\ IsLast(s, i) /\ events[i].kind = "Completed"
               /\ dpc[s] = "completed" => events[i].more = more[s]
               /\ dpc[s] = "tailFollow" => ~events[i].more
    /\ dpc[s] \in Over =>
           \E i \in DOMAIN events :
               /\ IsLast(s, i) /\ ~events[i].more
               /\ events[i].kind \in {"Completed", "Failed", "Aborted"}

GrammarInv == \A s \in Subs : Rounds(s) /\ Stands(s)

(* What Max picks, when a greatest element is at hand.                     *)
LEMMA MaxIs ==
  ASSUME NEW S \in SUBSET Nat, NEW m \in S, \A n \in S : n <= m
  PROVE  Max(S) = m
<1>1. m \in S /\ \A n \in S : m >= n
  OBVIOUS
<1>2. Max(S) \in S /\ Max(S) >= m
  BY <1>1 DEF Max
<1>3. Max(S) \in Nat /\ m \in Nat /\ Max(S) <= m
  BY <1>2
<1> QED
  BY <1>2, <1>3

(* GrammarInv says TurnGrammar without Max.                                *)
LEMMA GrammarMeans ==
  ASSUME TypeOK, GrammarInv
  PROVE  TurnGrammar
<1> DEFINE Spelled(t, i) ==
             LET before == {j \in EventsOf(t) : j < i}
             IN  /\ events[i].kind = "Completed" =>
                        before # {} /\ events[Max(before)].kind = "Started"
                 /\ events[i].kind = "Started" =>
                        before = {} \/ events[Max(before)].kind = "Completed"
                 /\ events[i].kind \notin {"Started", "Completed"} =>
                        i = Max(EventsOf(t))
           SpelledEnd(t) ==
             /\ EventsOf(t) # {}
             /\ events[Max(EventsOf(t))].kind \in {"Completed", "Failed", "Aborted"}
             /\ ~events[Max(EventsOf(t))].more
<1>1. \A s \in Subs : EventsOf(s) \subseteq Nat
  BY DEF TypeOK, SessionTypes, EventsOf
<1> SUFFICES ASSUME NEW s \in Subs
             PROVE  /\ \A i \in EventsOf(s) : Spelled(s, i)
                    /\ dpc[s] = "gone" => SpelledEnd(s)
  BY DEF TurnGrammar
<1>2. \A i : IsLast(s, i) => Max(EventsOf(s)) = i
  BY <1>1, MaxIs DEF IsLast
<1>3. ASSUME NEW i, NEW p, RightBefore(s, p, i)
      PROVE  /\ {j \in EventsOf(s) : j < i} # {}
             /\ Max({j \in EventsOf(s) : j < i}) = p
  <2> DEFINE B == {j \in EventsOf(s) : j < i}
  <2>1. B \in SUBSET Nat /\ p \in B /\ \A n \in B : n <= p
    BY <1>1, <1>3 DEF RightBefore
  <2> HIDE DEF B
  <2>2. Max(B) = p
    BY <2>1, MaxIs
  <2> QED
    BY <2>1, <2>2 DEF B
<1>4. ASSUME NEW i \in EventsOf(s) PROVE Spelled(s, i)
  <2>1. CASE events[i].kind = "Completed"
    <3>1. PICK p \in DOMAIN events : RightBefore(s, p, i) /\ events[p].kind = "Started"
      BY <2>1 DEF GrammarInv, Rounds, InPlace
    <3> QED
      BY <2>1, <3>1, <1>3
  <2>2. CASE events[i].kind = "Started"
    <3>1. CASE \A j \in EventsOf(s) : i <= j
      <4>1. {j \in EventsOf(s) : j < i} = {}
        BY <1>1, <3>1
      <4> QED
        BY <2>2, <4>1
    <3>2. CASE \E p \in DOMAIN events : RightBefore(s, p, i) /\ events[p].kind = "Completed"
      BY <2>2, <3>2, <1>3
    <3> QED
      BY <2>2, <3>1, <3>2 DEF GrammarInv, Rounds, InPlace
  <2>3. CASE events[i].kind \notin {"Completed", "Started"}
    <3>1. IsLast(s, i)
      BY <2>3 DEF GrammarInv, Rounds, InPlace
    <3> QED
      BY <2>3, <3>1, <1>2
  <2> QED
    BY <2>1, <2>2, <2>3
<1>5. ASSUME dpc[s] = "gone" PROVE SpelledEnd(s)
  <2>1. PICK i \in DOMAIN events :
               /\ IsLast(s, i) /\ ~events[i].more
               /\ events[i].kind \in {"Completed", "Failed", "Aborted"}
    BY <1>5 DEF GrammarInv, Stands, Over
  <2>2. i \in EventsOf(s) /\ Max(EventsOf(s)) = i
    BY <2>1, <1>2 DEF IsLast
  <2> QED
    BY <2>1, <2>2
<1> QED
  BY <1>4, <1>5

(* One more event on the channel.                                          *)
LEMMA EmitPlaces ==
  ASSUME TypeOK, NEW e \in Event, Emit(e)
  PROVE  /\ Len(events) \in Nat /\ DOMAIN events = 1 .. Len(events)
         /\ DOMAIN events' = 1 .. Len(events) + 1
         /\ \A i \in DOMAIN events : events'[i] = events[i]
         /\ events'[Len(events) + 1] = e
         /\ \A s \in Subs : EventsOf(s)' = IF e.sub = s THEN EventsOf(s) \cup {Len(events) + 1}
                                                        ELSE EventsOf(s)
         /\ \A s \in Subs : EventsOf(s) \subseteq DOMAIN events
<1>1. events \in Seq(Event) /\ events' = Append(events, e)
  BY DEF TypeOK, SessionTypes, Emit
<1>2. /\ Len(events) \in Nat /\ DOMAIN events = 1 .. Len(events)
      /\ DOMAIN events' = 1 .. Len(events) + 1
      /\ \A i \in DOMAIN events : events'[i] = events[i]
      /\ events'[Len(events) + 1] = e
  BY <1>1
<1> QED
  BY <1>2 DEF EventsOf

(* A step that reports nothing of this submission.                         *)
LEMMA SilentGrammar ==
  ASSUME TypeOK, NEW s \in Subs, Rounds(s), Stands(s), NEW e \in Event,
         UNCHANGED events \/ (Emit(e) /\ e.sub # s),
         \/ dpc'[s] = dpc[s] /\ more'[s] = more[s]
         \/ dpc[s] \in Between /\ dpc'[s] \in Between
         \/ dpc[s] \in Inside /\ dpc'[s] \in Inside
         \/ dpc[s] = "unborn" /\ dpc'[s] = "top"
         \/ dpc[s] = "completed" /\ dpc'[s] \in {"top", "tailAppend"}
         \/ dpc[s] = "completed" /\ dpc'[s] = "tailFollow" /\ ~more[s]
         \/ dpc[s] = "tailFollow" /\ dpc'[s] \in {"tailAppend", "release"}
         \/ dpc[s] = "tailAppend" /\ dpc'[s] = "top"
         \/ dpc[s] = "release" /\ dpc'[s] = "announce"
         \/ dpc[s] = "announce" /\ dpc'[s] = "gone"
  PROVE  Rounds(s)' /\ Stands(s)'
<1>1. /\ EventsOf(s)' = EventsOf(s) /\ EventsOf(s) \subseteq DOMAIN events
      /\ DOMAIN events \subseteq DOMAIN events'
      /\ \A i \in DOMAIN events : events'[i] = events[i]
  <2>1. CASE UNCHANGED events
    BY <2>1 DEF EventsOf
  <2>2. CASE Emit(e) /\ e.sub # s
    BY <2>2, EmitPlaces
  <2> QED
    BY <2>1, <2>2
<1>2. Rounds(s)'
  BY <1>1 DEF Rounds, InPlace, RightBefore, IsLast
<1>3. /\ EventsOf(s) = {} => EventsOf(s)' = {}
      /\ \A i \in DOMAIN events : /\ IsLast(s, i) => IsLast(s, i)'
                                 /\ i \in DOMAIN events' /\ events'[i] = events[i]
  BY <1>1 DEF IsLast
<1>4. Stands(s)'
  BY <1>3 DEF Stands, Between, Inside, Over
<1> QED
  BY <1>2, <1>4

(* Its driver reports one event of its own.                                *)
LEMMA OwnGrammar ==
  ASSUME TypeOK, NEW s \in Subs, Rounds(s), Stands(s), NEW e \in Event, Emit(e), e.sub = s,
         \/ dpc[s] \in Between /\ dpc'[s] = "build" /\ e.kind = "Started"
         \/ /\ dpc[s] \in Inside /\ dpc'[s] = "completed" /\ e.kind = "Completed"
            /\ e.more = more'[s]
         \/ /\ dpc[s] \in Between \cup Inside \cup {"completed"} /\ dpc'[s] = "release"
            /\ e.kind \in {"Failed", "Aborted"} /\ ~e.more
  PROVE  Rounds(s)' /\ Stands(s)'
<1> DEFINE E == EventsOf(s)
<1>0. PICK L \in Nat : L = Len(events)
  BY EmitPlaces
<1>1. /\ L \in Nat /\ DOMAIN events = 1 .. L /\ DOMAIN events' = 1 .. L + 1
      /\ \A i \in DOMAIN events : events'[i] = events[i]
      /\ events'[L + 1] = e
      /\ EventsOf(s)' = E \cup {L + 1} /\ E \subseteq DOMAIN events
  BY <1>0, EmitPlaces
<1> HIDE DEF E
<1>2. \A j \in E : j \in Nat /\ j < L + 1
  BY <1>1
<1>3. \/ E = {} /\ e.kind # "Completed"
      \/ \E i \in DOMAIN events : /\ IsLast(s, i)
                                  /\ e.kind = "Completed" => events[i].kind = "Started"
                                  /\ e.kind = "Started" => events[i].kind = "Completed"
                                  /\ events[i].kind \in {"Started", "Completed"}
  BY DEF Stands, Between, Inside, E
<1>4. \A i \in E : events[i].kind \in {"Started", "Completed"}
  BY <1>3, <1>1, <1>2 DEF Rounds, InPlace, IsLast, E
<1>5. Rounds(s)'
  <2> SUFFICES ASSUME NEW i \in E \cup {L + 1}
               PROVE  InPlace(s, i)'
    BY <1>1 DEF Rounds
  <2>1. CASE i \in E
    <3>1. events'[i] = events[i] /\ i < L + 1 /\ i \in Nat
      BY <1>1, <1>2, <2>1
    <3>2. \A p \in DOMAIN events : RightBefore(s, p, i) => RightBefore(s, p, i)'
      BY <1>1, <3>1 DEF RightBefore, E
    <3>3. (\A j \in E : i <= j) => \A j \in E \cup {L + 1} : i <= j
      BY <1>1, <3>1
    <3> QED
      BY <1>1, <1>4, <2>1, <3>1, <3>2, <3>3 DEF Rounds, InPlace, IsLast, E
  <2>2. CASE i = L + 1
    <3>1. events'[i] = e /\ \A j \in E \cup {L + 1} : j <= i
      BY <1>1, <1>2, <2>2
    <3>2. CASE E = {} /\ e.kind # "Completed"
      BY <1>1, <2>2, <3>1, <3>2 DEF InPlace, IsLast
    <3>3. ASSUME NEW p \in DOMAIN events, IsLast(s, p),
                 e.kind = "Completed" => events[p].kind = "Started",
                 e.kind = "Started" => events[p].kind = "Completed"
          PROVE  InPlace(s, i)'
      <4>1. RightBefore(s, p, i)'
        BY <1>1, <1>2, <2>2, <3>3 DEF RightBefore, IsLast, E
      <4>2. p \in DOMAIN events' /\ events'[p] = events[p]
        BY <1>1, <3>3
      <4> QED
        BY <1>1, <2>2, <3>1, <3>3, <4>1, <4>2 DEF InPlace, IsLast
    <3> QED
      BY <1>3, <3>2, <3>3
  <2> QED
    BY <2>1, <2>2
<1>6. Stands(s)'
  <2>1. IsLast(s, L + 1)' /\ L + 1 \in DOMAIN events' /\ events'[L + 1] = e
    <3>1. \A j \in E \cup {L + 1} : j <= L + 1
      BY <1>1, <1>2
    <3> QED
      BY <1>1, <3>1 DEF IsLast
  <2> QED
    BY <2>1 DEF Stands, Between, Inside, Over
<1> QED
  BY <1>5, <1>6

LEMMA GrammarInit == Init => GrammarInv
<1> SUFFICES ASSUME Init, NEW s \in Subs PROVE Rounds(s) /\ Stands(s)
  BY DEF GrammarInv
<1>1. EventsOf(s) = {}
  BY DEF Init, EventsOf, Subs
<1> QED
  BY <1>1 DEF Init, Rounds, Stands, Between, Inside, Over

LEMMA GrammarHostStep ==
  ASSUME TypeOK, SlotInv, GrammarInv, NEW h \in Hosts, HostStep(h)
  PROVE  GrammarInv'
<1> SUFFICES ASSUME NEW s \in Subs PROVE Rounds(s)' /\ Stands(s)'
  BY DEF GrammarInv
<1>1. Rounds(s) /\ Stands(s)
  BY DEF GrammarInv
<1>2. /\ StatusEvent("Running") \in Event /\ StatusEvent("Running").sub # s
      /\ StatusEvent("Aborting") \in Event /\ StatusEvent("Aborting").sub # s
  BY EventsTyped DEF StatusEvent, Subs
<1>3. CASE Launch(h)
  <2>1. Emit(StatusEvent("Running")) /\ more' = more
    BY <1>3 DEF Launch
  <2>2. dpc'[s] = dpc[s] \/ (dpc[s] = "unborn" /\ dpc'[s] = "top")
    <3>1. dpc \in [Subs -> DriverPC] /\ dpc' = [dpc EXCEPT ![hsub[h]] = "top"]
      BY <1>3 DEF Launch, Goto, TypeOK, TaskTypes
    <3>2. dpc[hsub[h]] = "unborn"
      BY <1>3 DEF Launch, SlotInv
    <3>3. CASE s = hsub[h]
      BY <3>1, <3>2, <3>3
    <3>4. CASE s # hsub[h]
      BY <3>1, <3>4
    <3> QED
      BY <3>3, <3>4
  <2> QED
    BY <1>1, <1>2, <2>1, <2>2, SilentGrammar
<1>4. CASE AbortAnnounce(h)
  <2>1. Emit(StatusEvent("Aborting")) /\ more' = more /\ dpc' = dpc
    BY <1>4 DEF AbortAnnounce, driverVars
  <2> QED
    BY <1>1, <1>2, <2>1, SilentGrammar
<1>5. CASE \/ Run(h) \/ ContinueCheck(h) \/ ContinueAcquire(h) \/ ContinueBusy(h)
           \/ AbortCapture(h) \/ AbortCancel(h) \/ \E q \in QueueNames : Enqueue(h, q)
  <2>1. UNCHANGED <<events, more, dpc>>
    BY <1>5 DEF Run, ContinueCheck, ContinueAcquire, ContinueBusy, AbortCapture, AbortCancel,
       Enqueue, driverVars
  <2> QED
    BY <1>1, <1>2, <2>1, SilentGrammar
<1> QED
  BY <1>3, <1>4, <1>5 DEF HostStep

(* What a driver reports when, and where it goes.                          *)
Reports(s, e) ==
    \/ dpc[s] \in Between /\ Goto(s, "build") /\ e.kind = "Started"
    \/ /\ dpc[s] \in Inside /\ Goto(s, "completed") /\ e.kind = "Completed"
       /\ e.more = more'[s]
    \/ /\ dpc[s] \in Between \cup Inside \cup {"completed"} /\ Goto(s, "release")
       /\ e.kind \in {"Failed", "Aborted"} /\ ~e.more

Silent(s) ==
    \/ dpc' = dpc /\ (more' = more \/ dpc[s] \in Inside)
    \/ \E pc \in DriverPC :
        /\ Goto(s, pc)
        /\ \/ dpc[s] \in Between /\ pc \in Between
           \/ dpc[s] \in Inside /\ pc \in Inside
           \/ dpc[s] = "completed" /\ pc \in {"top", "tailAppend"}
           \/ dpc[s] = "completed" /\ pc = "tailFollow" /\ ~more[s]
           \/ dpc[s] = "tailFollow" /\ pc \in {"tailAppend", "release"}
           \/ dpc[s] = "tailAppend" /\ pc = "top"
           \/ dpc[s] = "release" /\ pc = "announce"

LEMMA GrammarEffects ==
  ASSUME TypeOK, NEW s \in Subs, DriverStep(s)
  PROVE  /\ \A r \in Subs \ {s} : dpc'[r] = dpc[r] /\ more'[r] = more[r]
         /\ \/ Silent(s) /\ UNCHANGED events
            \/ \E e \in Event : Reports(s, e) /\ e.sub = s /\ Emit(e)
            \/ dpc[s] = "announce" /\ Goto(s, "gone") /\ Emit(StatusEvent("Idle"))
<1>0. dpc \in [Subs -> DriverPC] /\ more \in [Subs -> BOOLEAN]
  BY DEF TypeOK, TaskTypes
<1> USE DEF Between, Inside
<1>5. \A k \in {"Started", "Failed", "Aborted"} :
         /\ TurnEvent(k, s) \in Event /\ TurnEvent(k, s).kind = k
         /\ TurnEvent(k, s).sub = s /\ ~TurnEvent(k, s).more
  BY EventsTyped DEF TurnEvent
<1> DEFINE Goal == \/ Silent(s) /\ UNCHANGED events
                   \/ \E e \in Event : Reports(s, e) /\ e.sub = s /\ Emit(e)
                   \/ dpc[s] = "announce" /\ Goto(s, "gone") /\ Emit(StatusEvent("Idle"))
           Others == \A r \in Subs \ {s} : dpc'[r] = dpc[r] /\ more'[r] = more[r]
<1> SUFFICES Others /\ Goal
  OBVIOUS
<1>6. ASSUME NEW k \in {"Failed", "Aborted"}, EmitAndGo(s, TurnEvent(k, s), "release"),
             dpc[s] \in Between \cup Inside \cup {"completed"}
      PROVE  Goal
  BY <1>5, <1>6 DEF EmitAndGo, Reports
<1>7. ASSUME NEW pc \in DriverPC, Goto(s, pc) PROVE \A r \in Subs \ {s} : dpc'[r] = dpc[r]
  BY <1>0, <1>7 DEF Goto
<1>1. CASE LoopStep(s)
  <2>1. more' = more
    BY <1>1 DEF LoopStep
  <2>2. CASE TopInitial(s) \/ TopBootstrap(s) \/ BootstrapFollowUp(s) \/ BootstrapAppend(s)
    <3>1. UNCHANGED events
      BY <2>2 DEF TopInitial, TopBootstrap, BootstrapFollowUp, BootstrapAppend,
         DrainInputQueue, AppendItems
    <3>2. dpc[s] \in Between /\ \E pc \in Between : Goto(s, pc)
      BY <2>2 DEF TopInitial, TopBootstrap, BootstrapFollowUp, BootstrapAppend,
         DrainInputQueue, AppendItems
    <3>3. Silent(s)
      BY <3>2 DEF Silent, DriverPC
    <3> QED
      BY <2>1, <3>1, <3>2, <3>3, <1>7 DEF DriverPC
  <2>3. CASE TopCancelled(s)
    BY <2>1, <2>3, <1>6, <1>7 DEF TopCancelled, EmitAndGo, DriverPC
  <2>4. CASE BootstrapCheck(s) \/ BuildRequest(s)
    <3>1. CASE EmitAndGo(s, TurnEvent("Failed", s), "release")
      BY <2>1, <2>4, <3>1, <1>6, <1>7 DEF BootstrapCheck, BuildRequest, EmitAndGo, DriverPC
    <3>2. CASE ~EmitAndGo(s, TurnEvent("Failed", s), "release")
      BY <2>1, <2>4, <3>2, <1>7 DEF BootstrapCheck, BuildRequest, Silent, DriverPC
    <3> QED
      BY <3>1, <3>2
  <2>5. CASE StartTurn(s)
    <3>1. Goto(s, "build") /\ Emit(TurnEvent("Started", s)) /\ dpc[s] \in Between
      BY <2>5 DEF StartTurn, EmitAndGo
    <3> QED
      BY <2>1, <3>1, <1>5, <1>7 DEF Reports, DriverPC
  <2> QED
    BY <1>1, <2>2, <2>3, <2>4, <2>5 DEF LoopStep
<1>2. CASE EndStep(s)
  <2>1. more' = more
    BY <1>2 DEF EndStep
  <2>2. CASE FailTurn(s)
    <3>1. \E k \in {"Failed", "Aborted"} : EmitAndGo(s, TurnEvent(k, s), "release")
      BY <2>2 DEF FailTurn
    <3> QED
      BY <2>1, <2>2, <3>1, <1>6, <1>7 DEF FailTurn, EmitAndGo, DriverPC
  <2>3. CASE CompleteTurn(s)
    <3> DEFINE e == [TurnEvent("Completed", s) EXCEPT !.more = more[s]]
    <3>1. e \in Event /\ e.kind = "Completed" /\ e.sub = s /\ e.more = more'[s]
      BY <1>0, <2>1, EventsTyped DEF TurnEvent
    <3>2. Emit(e) /\ Goto(s, "completed") /\ dpc[s] \in Inside
      BY <2>3 DEF CompleteTurn, EmitAndGo
    <3> HIDE DEF e
    <3> QED
      BY <2>1, <3>1, <3>2, <1>7 DEF Reports, DriverPC
  <2>4. CASE AfterCompleted(s)
    <3>1. CASE EmitAndGo(s, TurnEvent("Aborted", s), "release")
      BY <2>1, <2>4, <3>1, <1>6, <1>7 DEF AfterCompleted, EmitAndGo, DriverPC
    <3>2. CASE Goto(s, "top") /\ UNCHANGED <<sessionVars, events, held>>
      BY <2>1, <2>4, <3>2, <1>7 DEF AfterCompleted, Silent, DriverPC
    <3>3. CASE ~more[s] /\ DrainInputQueue(s, "Steering", "tailAppend", "tailFollow")
      BY <2>1, <2>4, <3>3, <1>7 DEF AfterCompleted, DrainInputQueue, Silent, DriverPC
    <3> QED
      BY <2>4, <3>1, <3>2, <3>3 DEF AfterCompleted
  <2>5. CASE TailFollowUp(s) \/ TailAppend(s) \/ Release(s)
    BY <2>1, <2>5, <1>7 DEF TailFollowUp, TailAppend, Release, DrainInputQueue, AppendItems,
       Silent, DriverPC
  <2>6. CASE Announce(s)
    BY <2>1, <2>6, <1>7 DEF Announce, EmitAndGo, DriverPC
  <2> QED
    BY <1>2, <2>2, <2>3, <2>4, <2>5, <2>6 DEF EndStep
<1>3. CASE \/ OpenStream(s) \/ StreamCompleted(s) \/ KernelFinish(s)
           \/ dpc[s] = "stream" /\ Interrupt(s)
           \/ dpc[s] = "tools" /\ Interrupt(s)
  <2>1. UNCHANGED events /\ \A r \in Subs \ {s} : more'[r] = more[r]
    BY <1>0, <1>3 DEF OpenStream, StreamCompleted, KernelFinish, Interrupt
  <2>2. dpc[s] \in Inside /\ \E pc \in Inside : Goto(s, pc)
    BY <1>3 DEF OpenStream, StreamCompleted, KernelFinish, Interrupt
  <2> QED
    BY <2>1, <2>2, <1>7 DEF Silent, DriverPC
<1>4. CASE StreamMessage(s) \/ StreamToolCall(s) \/ RecordToolResult(s)
  <2>1. UNCHANGED <<events, dpc>> /\ \A r \in Subs \ {s} : more'[r] = more[r]
    BY <1>0, <1>4 DEF StreamMessage, StreamToolCall, RecordToolResult, driverVars
  <2>2. dpc[s] \in Inside
    BY <1>4 DEF StreamMessage, StreamToolCall, RecordToolResult
  <2> QED
    BY <2>1, <2>2 DEF Silent
<1> HIDE DEF Between, Inside, Others, Goal
<1> QED
  BY <1>1, <1>2, <1>3, <1>4, DriverCases

LEMMA GrammarDriverStep ==
  ASSUME TypeOK, GrammarInv, NEW s \in Subs, DriverStep(s)
  PROVE  GrammarInv'
<1>0. dpc \in [Subs -> DriverPC] /\ more \in [Subs -> BOOLEAN]
  BY DEF TypeOK, TaskTypes
<1>1. \A r \in Subs \ {s} : dpc'[r] = dpc[r] /\ more'[r] = more[r]
  BY GrammarEffects
<1>2. \A r \in Subs : Rounds(r) /\ Stands(r)
  BY DEF GrammarInv
<1>3. \A r \in Subs : StatusEvent("Idle") \in Event /\ StatusEvent("Idle").sub # r
  BY EventsTyped DEF StatusEvent, Subs
<1>4. ASSUME NEW r \in Subs \ {s} PROVE Rounds(r)' /\ Stands(r)'
  <2>1. \E e \in Event : UNCHANGED events \/ (Emit(e) /\ e.sub # r)
    BY <1>3, GrammarEffects
  <2> QED
    BY <1>1, <1>2, <2>1, SilentGrammar
<1>5. CASE Silent(s) /\ UNCHANGED events
  <2>1. ASSUME dpc' = dpc, more' = more PROVE Rounds(s)' /\ Stands(s)'
    BY <1>2, <1>3, <1>5, <2>1, SilentGrammar
  <2>2. ASSUME dpc' = dpc, dpc[s] \in Inside PROVE Rounds(s)' /\ Stands(s)'
    BY <1>2, <1>3, <1>5, <2>2, SilentGrammar
  <2>3. ASSUME NEW pc \in DriverPC, Goto(s, pc),
           \/ dpc[s] \in Between /\ pc \in Between
           \/ dpc[s] \in Inside /\ pc \in Inside
           \/ dpc[s] = "completed" /\ pc \in {"top", "tailAppend"}
           \/ dpc[s] = "completed" /\ pc = "tailFollow" /\ ~more[s]
           \/ dpc[s] = "tailFollow" /\ pc \in {"tailAppend", "release"}
           \/ dpc[s] = "tailAppend" /\ pc = "top"
           \/ dpc[s] = "release" /\ pc = "announce"
        PROVE  Rounds(s)' /\ Stands(s)'
    <3>1. dpc'[s] = pc
      BY <1>0, <2>3 DEF Goto
    <3> QED
      BY <1>2, <1>3, <1>5, <2>3, <3>1, SilentGrammar
  <2>4. Rounds(s)' /\ Stands(s)'
    BY <1>5, <2>1, <2>2, <2>3 DEF Silent
  <2> QED
    BY <1>4, <2>4 DEF GrammarInv
<1>6. ASSUME NEW e \in Event, Reports(s, e), e.sub = s, Emit(e) PROVE GrammarInv'
  <2>1. Rounds(s)' /\ Stands(s)'
    <3>1. \A pc : Goto(s, pc) => dpc'[s] = pc
      BY <1>0 DEF Goto
    <3> QED
      BY <1>2, <1>6, <3>1, OwnGrammar DEF Reports
  <2> QED
    BY <1>4, <2>1 DEF GrammarInv
<1>7. CASE dpc[s] = "announce" /\ Goto(s, "gone") /\ Emit(StatusEvent("Idle"))
  <2>1. dpc'[s] = "gone"
    BY <1>0, <1>7 DEF Goto
  <2>2. Rounds(s)' /\ Stands(s)'
    BY <1>2, <1>3, <1>7, <2>1, SilentGrammar
  <2> QED
    BY <1>4, <2>2 DEF GrammarInv
<1> QED
  BY <1>5, <1>6, <1>7, GrammarEffects

LEMMA GrammarStep == SessionInv /\ GrammarInv /\ [Next]_vars => GrammarInv'
<1> SUFFICES ASSUME SessionInv, GrammarInv, [Next]_vars PROVE GrammarInv'
  OBVIOUS
<1>1. CASE UNCHANGED vars
  BY <1>1 DEF vars, sessionVars, driverVars, GrammarInv, Rounds, Stands, InPlace, IsLast,
     RightBefore, EventsOf
<1>2. ASSUME NEW h \in Hosts, HostStep(h) PROVE GrammarInv'
  BY <1>2, GrammarHostStep DEF SessionInv
<1>3. ASSUME NEW s \in Subs, DriverStep(s) PROVE GrammarInv'
  BY <1>3, GrammarDriverStep DEF SessionInv
<1> QED
  BY <1>1, <1>2, <1>3 DEF Next, Quiescent

(* Of one submission a subscriber sees rounds Started..Completed, at most  *)
(* one Failed or Aborted after them, and nothing more; once its driver is  *)
(* gone it has seen the outcome.                                           *)
THEOREM GrammarCorrect == Spec => []TurnGrammar
<1>1. SessionInv /\ GrammarInv => TurnGrammar
  BY GrammarMeans DEF SessionInv
<1> QED
  BY <1>1, GrammarInit, GrammarStep, SessionHolds, PTL DEF Spec

(***************************************************************************)
(* Every call answered once and in order.  ToolAnswersInOrder is inductive *)
(* on top of CallInv, by which only the active submission has futures in   *)
(* flight and the next call gets a number above all others.                *)
(***************************************************************************)
InFlight == IF active = 0 THEN << >> ELSE calls[active]

Answered(c, f) ==
    /\ InOrder(c, "Call") /\ InOrder(c, "Result")
    /\ \A m, n \in DOMAIN f : m < n => f[m] < f[n]
    /\ \A id \in IdsOf(c, "Result"), n \in DOMAIN f : id < f[n]
    /\ IdsOf(c, "Call") = IdsOf(c, "Result") \cup {f[n] : n \in DOMAIN f}

(* What is recorded behind a sequence leaves its items of other kinds as   *)
(* they were; an item with a larger number than all of its kind is in      *)
(* order.                                                                  *)
LEMMA OtherKind ==
  ASSUME NEW c, NEW d, NEW k, DOMAIN c \subseteq DOMAIN d,
         \A i \in DOMAIN c : d[i] = c[i],
         \A i \in DOMAIN d \ DOMAIN c : d[i].kind # k
  PROVE  /\ IdsOf(d, k) = IdsOf(c, k)
         /\ InOrder(c, k) => InOrder(d, k)
<1>1. Where(d, k) = Where(c, k) /\ \A i \in Where(c, k) : d[i] = c[i]
  BY DEF Where
<1> QED
  BY <1>1 DEF IdsOf, InOrder

LEMMA NextOfKind ==
  ASSUME NEW c \in Seq(Item), NEW x \in Item, \A id \in IdsOf(c, x.kind) : id < x.id
  PROVE  /\ IdsOf(Append(c, x), x.kind) = IdsOf(c, x.kind) \cup {x.id}
         /\ InOrder(c, x.kind) => InOrder(Append(c, x), x.kind)
<1>1. /\ Where(Append(c, x), x.kind) = Where(c, x.kind) \cup {Len(c) + 1}
      /\ \A i \in Where(c, x.kind) : i \in 1 .. Len(c) /\ Append(c, x)[i] = c[i]
      /\ Append(c, x)[Len(c) + 1] = x /\ Len(c) \in Nat
  BY Longer DEF Where
<1>2. ASSUME InOrder(c, x.kind),
             NEW i \in Where(Append(c, x), x.kind), NEW j \in Where(Append(c, x), x.kind), i < j
      PROVE  Append(c, x)[i].id < Append(c, x)[j].id
  <2>1. i \in Where(c, x.kind) /\ i \in 1 .. Len(c)
    BY <1>1, <1>2
  <2>2. CASE j \in Where(c, x.kind)
    BY <1>1, <1>2, <2>1, <2>2 DEF InOrder
  <2>3. CASE j = Len(c) + 1
    <3>1. c[i].id \in IdsOf(c, x.kind)
      BY <2>1 DEF IdsOf
    <3> QED
      BY <1>1, <2>1, <2>3, <3>1
  <2> QED
    BY <1>1, <2>2, <2>3
<1>3. IdsOf(Append(c, x), x.kind) = IdsOf(c, x.kind) \cup {x.id}
  BY <1>1 DEF IdsOf
<1> QED
  BY <1>2, <1>3 DEF InOrder

(* What is on the channel stays there, and an interrupted round stays on   *)
(* record: its driver can only report the failure.                         *)
LEMMA EventsStay ==
  ASSUME TypeOK, NEW e, UNCHANGED events \/ Emit(e)
  PROVE  \A i \in DOMAIN events : i \in DOMAIN events' /\ events'[i] = events[i]
<1>1. events \in Seq(Event)
  BY DEF TypeOK, SessionTypes
<1> QED
  BY <1>1 DEF Emit

LEMMA FailedReports ==
  ASSUME TypeOK, NEW s \in Subs, DriverStep(s), dpc[s] = "failed"
  PROVE  Interrupted'
<1>1. FailTurn(s)
  <2>1. ~LoopStep(s)
    BY DEF LoopStep, TopCancelled, TopInitial, TopBootstrap, BootstrapFollowUp,
       BootstrapAppend, BootstrapCheck, StartTurn, BuildRequest
  <2>2. EndStep(s)
    BY <2>1, DriverCases DEF OpenStream, StreamMessage, StreamToolCall, StreamCompleted,
       KernelFinish, RecordToolResult
  <2> QED
    BY <2>2 DEF EndStep, CompleteTurn, AfterCompleted, TailFollowUp, TailAppend, Release,
       Announce
<1>2. PICK k \in {"Failed", "Aborted"} : Emit(TurnEvent(k, s))
  BY <1>1 DEF FailTurn, EmitAndGo
<1>3. events \in Seq(Event) /\ TurnEvent(k, s) \in Event /\ TurnEvent(k, s).kind = k
  BY EventsTyped DEF TypeOK, SessionTypes, TurnEvent
<1>4. Len(events) + 1 \in DOMAIN events' /\ events'[Len(events) + 1] = TurnEvent(k, s)
  BY <1>2, <1>3 DEF Emit
<1> QED
  BY <1>3, <1>4 DEF Interrupted

LEMMA InterruptedStays ==
  ASSUME TypeOK, SlotInv, Interrupted, [Next]_vars
  PROVE  Interrupted'
<1>1. \E e : UNCHANGED events \/ Emit(e)
  <2>1. CASE UNCHANGED vars
    BY <2>1 DEF vars
  <2>2. ASSUME NEW h \in Hosts, HostStep(h) PROVE \E e : UNCHANGED events \/ Emit(e)
    BY <2>2 DEF HostStep, Run, ContinueCheck, ContinueAcquire, ContinueBusy, Launch, Enqueue,
       AbortCapture, AbortAnnounce, AbortCancel
  <2>3. ASSUME NEW s \in Subs, DriverStep(s) PROVE \E e : UNCHANGED events \/ Emit(e)
    BY <2>3, DriverEmits
  <2> QED
    BY <2>1, <2>2, <2>3 DEF Next, Quiescent
<1>2. CASE \E i \in DOMAIN events : events[i].kind \in {"Failed", "Aborted"}
  BY <1>1, <1>2, EventsStay DEF Interrupted
<1>3. ASSUME NEW s \in Subs, dpc[s] = "failed" PROVE Interrupted'
  <2>1. dpc \in [Subs -> DriverPC]
    BY DEF TypeOK, TaskTypes
  <2>2. CASE dpc'[s] = "failed"
    BY <2>2 DEF Interrupted
  <2>3. CASE DriverStep(s)
    BY <1>3, <2>3, FailedReports
  <2>4. ASSUME NEW r \in Subs, r # s, DriverStep(r) PROVE dpc'[s] = dpc[s]
    BY <2>1, <2>4, DriverSlotCases DEF WithinLoop, Release, Goto
  <2>5. ASSUME NEW h \in Hosts, HostStep(h) PROVE dpc'[s] = dpc[s]
    <3>1. CASE Begins(h) \/ Queues(h)
      BY <3>1 DEF Begins, Queues
    <3>2. CASE Launches(h)
      <4>1. hsub[h] # s /\ Goto(hsub[h], "top")
        BY <1>3, <3>2 DEF Launches, SlotInv
      <4> QED
        BY <2>1, <4>1 DEF Goto
    <3> QED
      BY <2>5, <3>1, <3>2, HostEffects
  <2>6. CASE UNCHANGED vars
    BY <1>3, <2>6, <2>2 DEF vars, driverVars
  <2> QED
    BY <1>3, <2>2, <2>3, <2>4, <2>5, <2>6 DEF Next, Quiescent
<1> QED
  BY <1>2, <1>3 DEF Interrupted

(* A driver step that neither makes nor answers a call leaves the futures  *)
(* alone, or interrupts the round.                                         *)
LEMMA CallEffects ==
  ASSUME TypeOK, NEW s \in Subs, DriverStep(s)
  PROVE  calls' = calls \/ StreamToolCall(s) \/ RecordToolResult(s) \/ Interrupted'
<1>1. CASE Interrupt(s)
  BY <1>1 DEF Interrupt, Goto, Interrupted, TypeOK, TaskTypes
<1> QED
  BY <1>1, DriverCases DEF LoopStep, EndStep, OpenStream, StreamMessage, StreamCompleted,
     KernelFinish, driverVars

(* The futures in flight are those of the active submission, and none when *)
(* the slot changes hands.                                                 *)
LEMMA FlightIsActive ==
  ASSUME TypeOK, SlotInv, CallInv
  PROVE  /\ \A s \in Subs : calls[s] # << >> => active = s
         /\ \A s \in Subs : dpc[s] \in {"unborn", "release"} => calls[s] = << >>
         /\ \A s \in Subs : dpc[s] \in {"stream", "tools"} => active = s /\ InFlight = calls[s]
         /\ InFlight \in Seq(Ids)
<1>1. \A s \in Subs : dpc[s] \in {"stream", "tools"} => active = s
  BY DEF SlotInv, InLoop, DriverPC
<1>2. active \in {0} \cup Subs /\ calls \in [Subs -> Seq(Ids)] /\ 0 \notin Subs
  BY BoundsAssumption DEF TypeOK, SessionTypes, TaskTypes, Subs
<1> QED
  BY <1>1, <1>2 DEF CallInv, InFlight

LEMMA FlightStays ==
  ASSUME TypeOK, SlotInv, CallInv, [Next]_vars, calls' = calls
  PROVE  InFlight' = InFlight
<1>1. CASE active' = active
  BY <1>1 DEF InFlight
<1>2. ASSUME NEW h \in Hosts, Begins(h) PROVE InFlight' = InFlight
  <2>1. active = 0 /\ nextSub \in Subs /\ active' = nextSub
    BY <1>2 DEF Begins
  <2>2. calls[nextSub] = << >>
    BY <2>1, FlightIsActive DEF SlotInv, Subs
  <2> QED
    BY <2>1, <2>2, BoundsAssumption DEF InFlight, Subs
<1>3. ASSUME NEW s \in Subs, Frees(s) PROVE InFlight' = InFlight
  <2>1. active = s /\ active' = 0 /\ calls[s] = << >>
    BY <1>3, FlightIsActive DEF Frees, SlotInv, InLoop, DriverPC
  <2> QED
    BY <2>1 DEF InFlight
<1>4. ASSUME NEW h \in Hosts, HostStep(h) PROVE InFlight' = InFlight
  BY <1>1, <1>2, <1>4, HostEffects DEF Queues, Launches
<1>5. ASSUME NEW s \in Subs, DriverStep(s) PROVE InFlight' = InFlight
  BY <1>1, <1>3, <1>5, DriverEffects DEF Appends, Drains, Records, Moves
<1>6. CASE UNCHANGED vars
  BY <1>1, <1>6 DEF vars, sessionVars
<1> QED
  BY <1>4, <1>5, <1>6 DEF Next, Quiescent

LEMMA AnswersInit == Init => ToolAnswersInOrder
<1> SUFFICES ASSUME Init PROVE Answered(conversation, InFlight)
  BY DEF ToolAnswersInOrder, Answered, InFlight
<1>1. conversation = << >> /\ InFlight = << >>
  BY DEF Init, InFlight
<1> QED
  BY <1>1 DEF Answered, InOrder, IdsOf, Where

(* A call the model makes: the largest number so far, last in flight.      *)
LEMMA CallMade ==
  ASSUME NEW c \in Seq(Item), NEW f \in Seq(Ids), Answered(c, f),
         NEW n \in Ids, [kind |-> "Call", id |-> n] \in Item,
         \A k \in {"Call", "Result"} : \A id \in IdsOf(c, k) : id < n,
         \A m \in DOMAIN f : f[m] < n
  PROVE  Answered(Append(c, [kind |-> "Call", id |-> n]), Append(f, n))
<1>1. PICK x \in Item : x = [kind |-> "Call", id |-> n]
  OBVIOUS
<1>2. x.kind = "Call" /\ x.id = n
  BY <1>1
<1>3. /\ IdsOf(Append(c, x), "Call") = IdsOf(c, "Call") \cup {n}
      /\ InOrder(Append(c, x), "Call")
  BY <1>2, NextOfKind DEF Answered
<1>4. /\ IdsOf(Append(c, x), "Result") = IdsOf(c, "Result")
      /\ InOrder(Append(c, x), "Result")
  <2>1. /\ DOMAIN c \subseteq DOMAIN Append(c, x)
        /\ \A i \in DOMAIN c : Append(c, x)[i] = c[i]
        /\ \A i \in DOMAIN Append(c, x) \ DOMAIN c : Append(c, x)[i].kind # "Result"
    BY <1>2, Longer
  <2> QED
    BY <2>1, OtherKind DEF Answered
<1>5. /\ DOMAIN Append(f, n) = 1 .. Len(f) + 1 /\ Len(f) \in Nat /\ DOMAIN f = 1 .. Len(f)
      /\ \A m \in DOMAIN f : Append(f, n)[m] = f[m]
      /\ Append(f, n)[Len(f) + 1] = n
  OBVIOUS
<1>6. \A l, m \in DOMAIN Append(f, n) : l < m => Append(f, n)[l] < Append(f, n)[m]
  <2> SUFFICES ASSUME NEW l \in DOMAIN Append(f, n), NEW m \in DOMAIN Append(f, n), l < m
               PROVE  Append(f, n)[l] < Append(f, n)[m]
    OBVIOUS
  <2>1. l \in DOMAIN f
    BY <1>5
  <2>2. CASE m \in DOMAIN f
    BY <1>5, <2>1, <2>2 DEF Answered
  <2>3. CASE m = Len(f) + 1
    BY <1>5, <2>1, <2>3
  <2> QED
    BY <1>5, <2>2, <2>3
<1>7. \A id \in IdsOf(Append(c, x), "Result"), m \in DOMAIN Append(f, n) : id < Append(f, n)[m]
  BY <1>4, <1>5 DEF Answered
<1>8. {Append(f, n)[m] : m \in DOMAIN Append(f, n)} = {f[m] : m \in DOMAIN f} \cup {n}
  BY <1>5
<1>9. IdsOf(Append(c, x), "Call")
        = IdsOf(Append(c, x), "Result") \cup {Append(f, n)[m] : m \in DOMAIN Append(f, n)}
  BY <1>3, <1>4, <1>8 DEF Answered
<1> QED
  BY <1>1, <1>3, <1>4, <1>6, <1>7, <1>9 DEF Answered

(* An answer: the first in flight, above all results so far.               *)
LEMMA CallAnswered ==
  ASSUME NEW c \in Seq(Item), NEW f \in Seq(Ids), f # << >>, Answered(c, f),
         [kind |-> "Result", id |-> Head(f)] \in Item
  PROVE  Answered(Append(c, [kind |-> "Result", id |-> Head(f)]), Tail(f))
<1>1. PICK x \in Item : x = [kind |-> "Result", id |-> Head(f)]
  OBVIOUS
<1>2. x.kind = "Result" /\ x.id = Head(f)
  BY <1>1
<1>3. /\ Len(f) \in Nat \ {0} /\ DOMAIN f = 1 .. Len(f) /\ Head(f) = f[1]
      /\ DOMAIN Tail(f) = 1 .. Len(f) - 1
      /\ \A m \in DOMAIN Tail(f) : m + 1 \in DOMAIN f /\ Tail(f)[m] = f[m + 1]
  OBVIOUS
<1>9. \A id \in IdsOf(c, "Result") : id < f[1]
  <2>1. 1 \in DOMAIN f
    BY <1>3
  <2> QED
    BY <2>1 DEF Answered
<1>4. /\ IdsOf(Append(c, x), "Result") = IdsOf(c, "Result") \cup {f[1]}
      /\ InOrder(Append(c, x), "Result")
  <2>1. \A id \in IdsOf(c, x.kind) : id < x.id
    BY <1>2, <1>3, <1>9
  <2> QED
    BY <1>2, <1>3, <2>1, NextOfKind DEF Answered
<1>5. /\ IdsOf(Append(c, x), "Call") = IdsOf(c, "Call")
      /\ InOrder(Append(c, x), "Call")
  <2>1. /\ DOMAIN c \subseteq DOMAIN Append(c, x)
        /\ \A i \in DOMAIN c : Append(c, x)[i] = c[i]
        /\ \A i \in DOMAIN Append(c, x) \ DOMAIN c : Append(c, x)[i].kind # "Call"
    BY <1>2, Longer
  <2> QED
    BY <2>1, OtherKind DEF Answered
<1>6. \A l, m \in DOMAIN Tail(f) : l < m => Tail(f)[l] < Tail(f)[m]
  BY <1>3 DEF Answered
<1>7. \A id \in IdsOf(Append(c, x), "Result"), m \in DOMAIN Tail(f) : id < Tail(f)[m]
  <2> SUFFICES ASSUME NEW id \in IdsOf(c, "Result") \cup {f[1]}, NEW m \in DOMAIN Tail(f)
               PROVE  id < Tail(f)[m]
    BY <1>4
  <2>1. m + 1 \in DOMAIN f /\ 1 \in DOMAIN f /\ 1 < m + 1 /\ Tail(f)[m] = f[m + 1]
    BY <1>3
  <2> QED
    BY <2>1 DEF Answered
<1>8. {f[m] : m \in DOMAIN f} = {f[1]} \cup {Tail(f)[m] : m \in DOMAIN Tail(f)}
  <2>1. ASSUME NEW m \in DOMAIN f, m # 1 PROVE m - 1 \in DOMAIN Tail(f) /\ Tail(f)[m - 1] = f[m]
    BY <1>3, <2>1
  <2>2. ASSUME NEW m \in DOMAIN f
        PROVE  f[m] \in {f[1]} \cup {Tail(f)[l] : l \in DOMAIN Tail(f)}
    <3>1. CASE m = 1
      BY <3>1
    <3>2. CASE m # 1
      BY <2>1, <3>2
    <3> QED
      BY <3>1, <3>2
  <2>3. ASSUME NEW l \in DOMAIN Tail(f) PROVE Tail(f)[l] \in {f[m] : m \in DOMAIN f}
    BY <1>3
  <2>4. f[1] \in {f[m] : m \in DOMAIN f}
    BY <1>3
  <2> QED
    BY <2>2, <2>3, <2>4
<1>10. IdsOf(Append(c, x), "Call")
         = IdsOf(Append(c, x), "Result") \cup {Tail(f)[m] : m \in DOMAIN Tail(f)}
  <2>1. IdsOf(c, "Call") = IdsOf(c, "Result") \cup {f[m] : m \in DOMAIN f}
    BY DEF Answered
  <2> QED
    BY <1>4, <1>5, <1>8, <2>1, Zenon
<1> QED
  BY <1>1, <1>4, <1>5, <1>6, <1>7, <1>10 DEF Answered

LEMMA AnswersStep ==
  ASSUME SessionInv, RoundInv, ToolAnswersInOrder, [Next]_vars
  PROVE  ToolAnswersInOrder'
<1>0. TypeOK /\ SlotInv /\ CallInv
  BY DEF SessionInv, RoundInv
<1>1. CASE Interrupted'
  BY <1>1 DEF ToolAnswersInOrder
<1> SUFFICES ASSUME ~Interrupted' PROVE Answered(conversation, InFlight)'
  BY <1>1 DEF ToolAnswersInOrder, Answered, InFlight
<1>2. Answered(conversation, InFlight)
  BY <1>0, InterruptedStays DEF ToolAnswersInOrder, Answered, InFlight
<1>3. /\ conversation \in Seq(Item) /\ held \in [Subs -> Seq(Item)]
      /\ calls \in [Subs -> Seq(Ids)] /\ nextOutput \in Nat
  BY <1>0 DEF TypeOK, SessionTypes, TaskTypes, HistoryTypes
<1>4. CASE calls' = calls /\ conversation' = conversation
  BY <1>0, <1>2, <1>4, FlightStays
<1>5. ASSUME NEW h \in Hosts, HostStep(h) PROVE Answered(conversation, InFlight)'
  BY <1>4, <1>5 DEF HostStep, Run, ContinueCheck, ContinueAcquire, ContinueBusy, Launch,
     Enqueue, AbortCapture, AbortAnnounce, AbortCancel, sessionVars, driverVars
<1>6. ASSUME NEW s \in Subs, DriverStep(s) PROVE Answered(conversation, InFlight)'
  <2>1. CASE Quiet(s)
    <3>1. ~StreamToolCall(s) /\ ~RecordToolResult(s)
      BY <1>3, <2>1 DEF Quiet, StreamToolCall, RecordToolResult, Record
    <3>2. calls' = calls
      BY <1>0, <1>6, <3>1, CallEffects
    <3> QED
      BY <1>4, <2>1, <3>2 DEF Quiet
  <2>2. CASE Appends(s) /\ UNCHANGED <<calls, nextOutput>>
    <3>1. conversation' = conversation \o held[s] /\ calls' = calls /\ held[s] \in Seq(Item)
      BY <1>3, <2>2 DEF Appends
    <3>2. \A i \in DOMAIN conversation' :
             \/ i \in DOMAIN conversation /\ conversation'[i] = conversation[i]
             \/ i \notin DOMAIN conversation /\ conversation'[i].kind \in InputKinds
      BY <1>0, <1>3, <3>1, OldOrInput DEF RoundInv, InputInv
    <3>3. DOMAIN conversation \subseteq DOMAIN conversation'
      BY <1>3, <3>1
    <3>4. "Call" \notin InputKinds /\ "Result" \notin InputKinds
      BY DEF InputKinds, QueueNames
    <3>5. \A k \in {"Call", "Result"} :
             /\ IdsOf(conversation', k) = IdsOf(conversation, k)
             /\ InOrder(conversation, k) => InOrder(conversation', k)
      BY <3>2, <3>3, <3>4, OtherKind
    <3>6. InFlight' = InFlight
      BY <1>0, <3>1, FlightStays
    <3>7. Answered(conversation', InFlight')
      BY <1>2, <3>5, <3>6 DEF Answered
    <3> QED
      BY <3>7 DEF Answered, InOrder, IdsOf, Where
  <2>3. CASE StreamMessage(s)
    <3>1. PICK x \in Item : x.kind = "Message" /\ conversation' = Append(conversation, x)
      <4>1. [kind |-> "Message", id |-> nextOutput] \in Item
        BY <1>0, <2>3, BoundsAssumption DEF StreamMessage, TypeOK, HistoryTypes, Item, Ids
      <4> QED
        BY <2>3, <4>1 DEF StreamMessage, Record
    <3>2. /\ DOMAIN conversation \subseteq DOMAIN conversation'
          /\ \A i \in DOMAIN conversation : conversation'[i] = conversation[i]
          /\ \A i \in DOMAIN conversation' \ DOMAIN conversation :
                 conversation'[i].kind \notin {"Call", "Result"}
      BY <1>3, <3>1, Longer
    <3>3. \A k \in {"Call", "Result"} :
             /\ IdsOf(conversation', k) = IdsOf(conversation, k)
             /\ InOrder(conversation, k) => InOrder(conversation', k)
      BY <3>2, OtherKind
    <3>4. InFlight' = InFlight
      BY <1>0, <2>3, FlightStays DEF StreamMessage, driverVars
    <3>5. Answered(conversation', InFlight')
      BY <1>2, <3>3, <3>4 DEF Answered
    <3> QED
      BY <3>5 DEF Answered, InOrder, IdsOf, Where
  <2>4. CASE StreamToolCall(s)
    <3>1. /\ active = s /\ active' = s /\ InFlight = calls[s] /\ calls[s] \in Seq(Ids)
          /\ conversation' = Append(conversation, [kind |-> "Call", id |-> nextOutput])
          /\ calls'[s] = Append(calls[s], nextOutput) /\ s # 0
      BY <1>0, <1>3, <2>4, FlightIsActive DEF StreamToolCall, Record, Subs
    <3>2. nextOutput \in Ids /\ [kind |-> "Call", id |-> nextOutput] \in Item
      BY <1>0, <2>4, BoundsAssumption DEF StreamToolCall, TypeOK, HistoryTypes, Item, Ids
    <3>3. \A k \in {"Call", "Result"} : \A id \in IdsOf(conversation, k) : id < nextOutput
      BY <1>0 DEF CallInv, IdsOf, Where
    <3>4. \A m \in DOMAIN calls[s] : calls[s][m] < nextOutput
      BY <1>0 DEF CallInv
    <3>5. Answered(conversation, calls[s])
      BY <1>2, <3>1
    <3>6. Answered(Append(conversation, [kind |-> "Call", id |-> nextOutput]),
                   Append(calls[s], nextOutput))
      BY <1>3, <3>1, <3>2, <3>3, <3>4, <3>5, CallMade
    <3>7. InFlight' = Append(calls[s], nextOutput)
      BY <3>1 DEF InFlight
    <3>8. Answered(conversation', InFlight')
      BY <3>1, <3>6, <3>7
    <3> QED
      BY <3>8 DEF Answered, InOrder, IdsOf, Where
  <2>5. CASE RecordToolResult(s)
    <3>1. /\ active = s /\ active' = s /\ InFlight = calls[s] /\ calls[s] \in Seq(Ids)
          /\ conversation' = Append(conversation, [kind |-> "Result", id |-> Head(calls[s])])
          /\ calls'[s] = Tail(calls[s]) /\ calls[s] # << >> /\ s # 0
      BY <1>0, <1>3, <2>5, FlightIsActive DEF RecordToolResult, Record, Subs
    <3>2. [kind |-> "Result", id |-> Head(calls[s])] \in Item
      BY <3>1 DEF Item
    <3>3. Answered(conversation, calls[s])
      BY <1>2, <3>1
    <3>4. Answered(Append(conversation, [kind |-> "Result", id |-> Head(calls[s])]),
                   Tail(calls[s]))
      BY <1>3, <3>1, <3>2, <3>3, CallAnswered
    <3>5. InFlight' = Tail(calls[s])
      BY <3>1 DEF InFlight
    <3>6. Answered(conversation', InFlight')
      BY <3>1, <3>4, <3>5
    <3> QED
      BY <3>6 DEF Answered, InOrder, IdsOf, Where
  <2> QED
    BY <1>0, <1>6, <2>1, <2>2, <2>3, <2>4, <2>5, RoundEffects
<1> QED
  BY <1>4, <1>5, <1>6 DEF Next, Quiescent, vars, sessionVars, driverVars

(* Until a round is interrupted, every call the model made is answered     *)
(* once, in the model's order, or still in flight behind all answers.      *)
THEOREM AnswersCorrect == Spec => []ToolAnswersInOrder
<1>1. SessionInv /\ RoundInv /\ ToolAnswersInOrder /\ [Next]_vars => ToolAnswersInOrder'
  BY AnswersStep
<1> QED
  BY <1>1, AnswersInit, RoundHolds, PTL DEF Spec

(***************************************************************************)
(* Every accepted input is in exactly one place.                           *)
(***************************************************************************)
Places == 1 .. 3 + MaxSub
Filled == [Places -> Seq(Item)]
Hands == [Subs -> Seq(Item)]

Once(S, x) ==
    \E p \in Places : \E k \in DOMAIN S[p] :
        /\ S[p][k] = x
        /\ \A q \in Places : \A l \in DOMAIN S[q] : S[q][l] = x => q = p /\ l = k

Present(S, x) == \E p \in Places : \E k \in DOMAIN S[p] : S[p][k] = x

(* The two ways a step changes the stores: the items of one go behind those *)
(* of another, or one item is put behind those of one.                     *)
MovesTo(S, T, a, b) ==
    /\ T[a] = S[a] \o S[b] /\ T[b] = << >>
    /\ \A p \in Places \ {a, b} : T[p] = S[p]

Puts(S, T, a, y) ==
    /\ T[a] = Append(S[a], y)
    /\ \A p \in Places \ {a} : T[p] = S[p]

(* t is c, of length n, followed by d.                                     *)
Joins(c, d, t, n) ==
    /\ n \in Nat /\ DOMAIN c = 1 .. n
    /\ \A k \in DOMAIN c : k \in DOMAIN t /\ t[k] = c[k]
    /\ \A k \in DOMAIN d : k \in Nat /\ k > 0 /\ n + k \in DOMAIN t /\ t[n + k] = d[k]
    /\ \A k \in DOMAIN t :
           k \in Nat /\ (k \in DOMAIN c \/ (k - n \in DOMAIN d /\ k > n))

LEMMA JoinAt ==
  ASSUME NEW c \in Seq(Item), NEW d \in Seq(Item)
  PROVE  Joins(c, d, c \o d, Len(c))
<1>1. PICK t, n : t = c \o d /\ n = Len(c)
  OBVIOUS
<1>2. /\ n \in Nat /\ Len(d) \in Nat
      /\ DOMAIN c = 1 .. n /\ DOMAIN d = 1 .. Len(d) /\ DOMAIN t = 1 .. n + Len(d)
  BY <1>1
<1>3. \A k \in 1 .. n + Len(d) : t[k] = IF k <= n THEN c[k] ELSE d[k - n]
  BY <1>1
<1>4. Joins(c, d, t, n)
  BY <1>2, <1>3 DEF Joins
<1> QED
  BY <1>1, <1>4

LEMMA MoveKeepsOnce ==
  ASSUME NEW S \in Filled, NEW T \in Filled,
         NEW a \in Places, NEW b \in Places, a # b, MovesTo(S, T, a, b), NEW x
  PROVE  /\ Once(S, x) => Once(T, x)
         /\ Present(T, x) => Present(S, x)
<1>1. S[a] \in Seq(Item) /\ S[b] \in Seq(Item) /\ T[a] = S[a] \o S[b] /\ T[b] = << >>
  BY DEF MovesTo, Filled
<1>8. PICK L : L = Len(S[a])
  OBVIOUS
<1>2. /\ L \in Nat
      /\ \A k \in DOMAIN S[b] : k \in Nat /\ k > 0
      /\ \A k \in DOMAIN S[a] : k \in 1 .. L /\ k \in DOMAIN T[a] /\ T[a][k] = S[a][k]
      /\ \A k \in DOMAIN S[b] : L + k \in DOMAIN T[a] /\ T[a][L + k] = S[b][k]
      /\ \A k \in DOMAIN T[a] :
             k \in Nat /\ (k \in DOMAIN S[a] \/ (k - L \in DOMAIN S[b] /\ k > L))
      /\ DOMAIN T[b] = {}
  <2>1. DOMAIN T[b] = {}
    BY <1>1
  <2>2. /\ L \in Nat /\ DOMAIN S[a] = 1 .. L
        /\ \A k \in DOMAIN S[a] : k \in DOMAIN T[a] /\ T[a][k] = S[a][k]
        /\ \A k \in DOMAIN S[b] :
               k \in Nat /\ k > 0 /\ L + k \in DOMAIN T[a] /\ T[a][L + k] = S[b][k]
        /\ \A k \in DOMAIN T[a] :
               k \in Nat /\ (k \in DOMAIN S[a] \/ (k - L \in DOMAIN S[b] /\ k > L))
    <3>1. Joins(S[a], S[b], T[a], L)
      BY <1>1, <1>8, JoinAt
    <3> QED
      BY <3>1 DEF Joins
  <2> QED
    BY <2>1, <2>2
<1>3. \A p \in Places \ {a, b} : T[p] = S[p]
  BY DEF MovesTo
(* Where an item of T came from.                                           *)
<1>4. ASSUME NEW q \in Places, NEW l \in DOMAIN T[q]
      PROVE  \/ q # a /\ q # b /\ l \in DOMAIN S[q] /\ S[q][l] = T[q][l]
             \/ q = a /\ l \in DOMAIN S[a] /\ S[a][l] = T[q][l]
             \/ q = a /\ l - L \in DOMAIN S[b] /\ S[b][l - L] = T[q][l] /\ l \in Nat /\ l > L
  <2>1. CASE q = a
    <3>1. CASE l \in DOMAIN S[a]
      BY <1>2, <2>1, <3>1
    <3>2. CASE l - L \in DOMAIN S[b] /\ l > L
      <4>1. L + (l - L) = l /\ l \in Nat
        BY <1>2, <1>4, <2>1
      <4> QED
        BY <1>2, <2>1, <3>2, <4>1
    <3> QED
      BY <1>2, <1>4, <2>1, <3>1, <3>2
  <2>2. CASE q # a
    BY <1>2, <1>3, <1>4, <2>2
  <2> QED
    BY <2>1, <2>2
<1>5. ASSUME Present(T, x) PROVE Present(S, x)
  <2>1. PICK q \in Places : \E l \in DOMAIN T[q] : T[q][l] = x
    BY <1>5 DEF Present
  <2>2. PICK l \in DOMAIN T[q] : T[q][l] = x
    BY <2>1
  <2> QED
    BY <1>4, <2>2 DEF Present
<1>6. ASSUME Once(S, x) PROVE Once(T, x)
  <2>1. PICK p \in Places : \E k \in DOMAIN S[p] :
           /\ S[p][k] = x
           /\ \A q \in Places : \A l \in DOMAIN S[q] : S[q][l] = x => q = p /\ l = k
    BY <1>6 DEF Once
  <2>2. PICK k \in DOMAIN S[p] :
           /\ S[p][k] = x
           /\ \A q \in Places : \A l \in DOMAIN S[q] : S[q][l] = x => q = p /\ l = k
    BY <2>1
  <2>3. CASE p = b
    <3>1. L + k \in DOMAIN T[a] /\ T[a][L + k] = x
      BY <1>2, <2>2, <2>3
    <3>2. ASSUME NEW q \in Places, NEW l \in DOMAIN T[q], T[q][l] = x PROVE q = a /\ l = L + k
      <4>1. q = a /\ l - L = k /\ l \in Nat /\ l > L
        BY <1>4, <2>2, <2>3, <3>2
      <4> QED
        BY <1>2, <2>3, <4>1
    <3> QED
      BY <3>1, <3>2 DEF Once
  <2>4. CASE p # b
    <3>1. k \in DOMAIN T[p] /\ T[p][k] = x
      BY <1>2, <1>3, <2>2, <2>4
    <3>2. ASSUME NEW q \in Places, NEW l \in DOMAIN T[q], T[q][l] = x PROVE q = p /\ l = k
      BY <1>4, <2>2, <2>4, <3>2
    <3> QED
      BY <3>1, <3>2 DEF Once
  <2> QED
    BY <2>3, <2>4
<1> QED
  BY <1>5, <1>6

LEMMA PutKeepsOnce ==
  ASSUME NEW S \in Filled, NEW T \in Filled,
         NEW a \in Places, NEW y \in Item, Puts(S, T, a, y), NEW x
  PROVE  /\ x # y /\ Once(S, x) => Once(T, x)
         /\ x = y /\ ~Present(S, y) => Once(T, x)
         /\ Present(T, x) => Present(S, x) \/ x = y
<1>1. S[a] \in Seq(Item) /\ T[a] = Append(S[a], y) /\ \A p \in Places \ {a} : T[p] = S[p]
  BY DEF Puts, Filled
<1>2. PICK L \in Nat : L = Len(S[a])
  BY <1>1
<1>3. /\ DOMAIN S[a] = 1 .. L /\ DOMAIN T[a] = 1 .. L + 1
      /\ \A k \in 1 .. L : T[a][k] = S[a][k]
      /\ T[a][L + 1] = y
  BY <1>1, <1>2, Longer
<1>4. ASSUME NEW q \in Places, NEW l \in DOMAIN T[q]
      PROVE  \/ l \in DOMAIN S[q] /\ S[q][l] = T[q][l]
             \/ q = a /\ l = L + 1 /\ T[q][l] = y
  <2>1. CASE q = a
    BY <1>3, <1>4, <2>1
  <2>2. CASE q # a
    BY <1>1, <1>4, <2>2
  <2> QED
    BY <2>1, <2>2
<1>5. ASSUME NEW q \in Places, NEW l \in DOMAIN S[q] PROVE l \in DOMAIN T[q] /\ T[q][l] = S[q][l]
  <2>1. CASE q = a
    BY <1>3, <1>5, <2>1
  <2>2. CASE q # a
    BY <1>1, <1>5, <2>2
  <2> QED
    BY <2>1, <2>2
<1>6. ASSUME Present(T, x) PROVE Present(S, x) \/ x = y
  BY <1>4, <1>6 DEF Present
<1>7. ASSUME x # y, Once(S, x) PROVE Once(T, x)
  <2>1. PICK p \in Places : \E k \in DOMAIN S[p] :
           /\ S[p][k] = x
           /\ \A q \in Places : \A l \in DOMAIN S[q] : S[q][l] = x => q = p /\ l = k
    BY <1>7 DEF Once
  <2>2. PICK k \in DOMAIN S[p] :
           /\ S[p][k] = x
           /\ \A q \in Places : \A l \in DOMAIN S[q] : S[q][l] = x => q = p /\ l = k
    BY <2>1
  <2>3. k \in DOMAIN T[p] /\ T[p][k] = x
    BY <1>5, <2>2
  <2>4. ASSUME NEW q \in Places, NEW l \in DOMAIN T[q], T[q][l] = x PROVE q = p /\ l = k
    BY <1>4, <1>7, <2>2, <2>4
  <2> QED
    BY <2>3, <2>4 DEF Once
<1>8. ASSUME ~Present(S, y) PROVE Once(T, y)
  <2>1. L + 1 \in DOMAIN T[a] /\ T[a][L + 1] = y
    BY <1>3
  <2>2. ASSUME NEW q \in Places, NEW l \in DOMAIN T[q], T[q][l] = y PROVE q = a /\ l = L + 1
    BY <1>4, <1>8, <2>2 DEF Present
  <2> QED
    BY <2>1, <2>2 DEF Once
<1> QED
  BY <1>6, <1>7, <1>8

(* The places, one by one.                                                 *)
Laid(S, c, u, v, h) ==
    /\ S \in Filled
    /\ S[1] = c /\ S[2] = u /\ S[3] = v
    /\ \A s \in Subs : S[3 + s] = h[s]

LEMMA StoreAt ==
  ASSUME NEW c \in Seq(Item), NEW u \in Seq(Item), NEW v \in Seq(Item), NEW h \in Hands
  PROVE  Laid(<< c, u, v >> \o h, c, u, v, h)
<1>0. PICK S : S = << c, u, v >> \o h
  OBVIOUS
<1>1. h \in Seq(Seq(Item)) /\ Len(h) = MaxSub /\ MaxSub \in Nat
  <2>1. MaxSub \in Nat /\ h \in [1 .. MaxSub -> Seq(Item)]
    BY BoundsAssumption DEF Subs, Hands
  <2> QED
    BY <2>1
<1>2. << c, u, v >> \in Seq(Seq(Item)) /\ Len(<< c, u, v >>) = 3
  OBVIOUS
<1>3. S \in Seq(Seq(Item)) /\ Len(S) = 3 + MaxSub
  BY <1>0, <1>1, <1>2
<1>4. \A i \in 1 .. 3 + MaxSub :
         S[i] = IF i <= 3 THEN << c, u, v >>[i] ELSE h[i - 3]
  BY <1>0, <1>1, <1>2
<1>5. S \in Filled /\ DOMAIN S = Places
  <2>1. S \in [1 .. Len(S) -> Seq(Item)]
    BY <1>3, LenProperties
  <2> QED
    BY <1>3, <2>1 DEF Places, Filled
<1>6. S[1] = c /\ S[2] = u /\ S[3] = v
  BY <1>1, <1>4
<1>7. ASSUME NEW s \in Subs PROVE 3 + s \in Places /\ S[3 + s] = h[s]
  <2>1. s \in 1 .. MaxSub /\ 3 + s \in 1 .. 3 + MaxSub /\ ~(3 + s <= 3) /\ (3 + s) - 3 = s
    BY <1>1 DEF Subs
  <2> QED
    BY <1>4, <2>1 DEF Places
<1>8. Laid(S, c, u, v, h)
  BY <1>5, <1>6, <1>7 DEF Laid
<1> QED
  BY <1>0, <1>8

(* The stores of a state.                                                  *)
IsStores(S, c, q, h) == Laid(S, c, q["Steering"], q["FollowUp"], h)

LEMMA StoresAre ==
  ASSUME NEW c \in Seq(Item), NEW q \in [QueueNames -> Seq(Item)],
         NEW h \in Hands
  PROVE  IsStores(<< c, q["Steering"], q["FollowUp"] >> \o h, c, q, h)
<1>1. q["Steering"] \in Seq(Item) /\ q["FollowUp"] \in Seq(Item)
  BY DEF QueueNames
<1> QED
  BY <1>1, StoreAt DEF IsStores

LEMMA PlaceCases ==
  /\ \A p \in Places : p \in {1, 2, 3} \/ \E s \in Subs : p = 3 + s
  /\ \A s \in Subs : 3 + s \in Places /\ s \in Nat /\ s > 0
  /\ {1, 2, 3} \subseteq Places
<1>1. MaxSub \in Nat
  BY BoundsAssumption
<1>2. ASSUME NEW p \in Places PROVE p \in {1, 2, 3} \/ \E s \in Subs : p = 3 + s
  <2>1. p \in 1 .. 3 + MaxSub
    BY DEF Places
  <2>2. CASE p > 3
    <3>1. p - 3 \in 1 .. MaxSub /\ p = 3 + (p - 3)
      BY <1>1, <2>1, <2>2
    <3> QED
      BY <3>1 DEF Subs
  <2> QED
    BY <1>1, <2>1, <2>2
<1> QED
  BY <1>1, <1>2 DEF Places, Subs

QueuePlace(q) == IF q = "Steering" THEN 2 ELSE 3

(* The four kinds of steps, as changes of the stores.                      *)
LEMMA AppendMoves ==
  ASSUME NEW S, NEW T, NEW c \in Seq(Item), NEW q, NEW h \in Hands,
         NEW s \in Subs, IsStores(S, c, q, h),
         IsStores(T, c \o h[s], q, [h EXCEPT ![s] = << >>])
  PROVE  MovesTo(S, T, 1, 3 + s)
<1>1. T[1] = S[1] \o S[3 + s] /\ T[3 + s] = << >>
  BY DEF IsStores, Laid, Hands, Filled
<1>2. ASSUME NEW p \in Places \ {1, 3 + s} PROVE T[p] = S[p]
  <2>1. CASE p \in {1, 2, 3}
    BY <1>2, <2>1 DEF IsStores, Laid, Hands, Filled
  <2>2. ASSUME NEW r \in Subs, p = 3 + r PROVE T[p] = S[p]
    <3>1. r # s
      BY <1>2, <2>2
    <3> QED
      BY <2>2, <3>1 DEF IsStores, Laid, Hands, Filled
  <2> QED
    BY <2>1, <2>2, PlaceCases
<1> QED
  BY <1>1, <1>2 DEF MovesTo

LEMMA DrainMoves ==
  ASSUME NEW S, NEW T, NEW c, NEW q \in [QueueNames -> Seq(Item)],
         NEW h \in Hands, NEW s \in Subs, NEW n \in QueueNames,
         h[s] = << >>, IsStores(S, c, q, h),
         IsStores(T, c, [q EXCEPT ![n] = << >>], [h EXCEPT ![s] = q[n]])
  PROVE  MovesTo(S, T, 3 + s, QueuePlace(n))
<1>1. \/ n = "Steering" /\ QueuePlace(n) = 2
      \/ n = "FollowUp" /\ QueuePlace(n) = 3
  BY DEF QueueNames, QueuePlace
<1>2. T[3 + s] = S[3 + s] \o S[QueuePlace(n)]
  <2>1. q[n] \in Seq(Item) /\ << >> \o q[n] = q[n]
    BY ConcatEmptySeq
  <2> QED
    BY <1>1, <2>1 DEF IsStores, Laid, Hands, Filled
<1>3. T[QueuePlace(n)] = << >>
  BY <1>1 DEF IsStores, Laid, Hands, Filled
<1>4. ASSUME NEW p \in Places \ {3 + s, QueuePlace(n)} PROVE T[p] = S[p]
  <2>1. CASE p \in {1, 2, 3}
    BY <1>1, <1>4, <2>1 DEF IsStores, Laid, Hands, Filled
  <2>2. ASSUME NEW r \in Subs, p = 3 + r PROVE T[p] = S[p]
    <3>1. r # s
      BY <1>4, <2>2
    <3> QED
      BY <2>2, <3>1 DEF IsStores, Laid, Hands, Filled
  <2> QED
    BY <2>1, <2>2, PlaceCases
<1> QED
  BY <1>2, <1>3, <1>4 DEF MovesTo

LEMMA RecordPuts ==
  ASSUME NEW S, NEW T, NEW c, NEW q, NEW h, NEW y,
         IsStores(S, c, q, h), IsStores(T, Append(c, y), q, h)
  PROVE  Puts(S, T, 1, y)
<1>1. ASSUME NEW p \in Places \ {1} PROVE T[p] = S[p]
  <2>1. CASE p \in {2, 3}
    BY <2>1 DEF IsStores, Laid, Hands, Filled
  <2>2. ASSUME NEW r \in Subs, p = 3 + r PROVE T[p] = S[p]
    BY <2>2 DEF IsStores, Laid, Hands, Filled
  <2> QED
    BY <1>1, <2>1, <2>2, PlaceCases
<1> QED
  BY <1>1 DEF Puts, IsStores, Laid

LEMMA QueuePuts ==
  ASSUME NEW S, NEW T, NEW c, NEW q \in [QueueNames -> Seq(Item)], NEW h, NEW y,
         NEW n \in QueueNames,
         IsStores(S, c, q, h), IsStores(T, c, [q EXCEPT ![n] = Append(q[n], y)], h)
  PROVE  Puts(S, T, QueuePlace(n), y)
<1>1. \/ n = "Steering" /\ QueuePlace(n) = 2
      \/ n = "FollowUp" /\ QueuePlace(n) = 3
  BY DEF QueueNames, QueuePlace
<1>2. ASSUME NEW p \in Places \ {QueuePlace(n)} PROVE T[p] = S[p]
  <2>1. CASE p \in {1, 2, 3}
    BY <1>1, <1>2, <2>1 DEF IsStores, Laid, Hands, Filled
  <2>2. ASSUME NEW r \in Subs, p = 3 + r PROVE T[p] = S[p]
    BY <2>2 DEF IsStores, Laid, Hands, Filled
  <2> QED
    BY <2>1, <2>2, PlaceCases
<1> QED
  BY <1>1, <1>2 DEF Puts, IsStores, Laid

LEMMA HoldPuts ==
  ASSUME NEW S, NEW T, NEW c, NEW q, NEW h \in Hands, NEW y \in Item,
         NEW s \in Subs, h[s] = << >>,
         IsStores(S, c, q, h), IsStores(T, c, q, [h EXCEPT ![s] = << y >>])
  PROVE  Puts(S, T, 3 + s, y)
<1>1. T[3 + s] = Append(S[3 + s], y)
  <2>1. Append(<< >>, y) = << y >>
    OBVIOUS
  <2> QED
    BY <2>1 DEF IsStores, Laid, Hands, Filled
<1>2. ASSUME NEW p \in Places \ {3 + s} PROVE T[p] = S[p]
  <2>1. CASE p \in {1, 2, 3}
    BY <2>1 DEF IsStores, Laid, Hands, Filled
  <2>2. ASSUME NEW r \in Subs, p = 3 + r PROVE T[p] = S[p]
    <3>1. r # s
      BY <1>2, <2>2
    <3> QED
      BY <2>2, <3>1 DEF IsStores, Laid, Hands, Filled
  <2> QED
    BY <2>1, <2>2, PlaceCases
<1> QED
  BY <1>1, <1>2 DEF Puts

(* The inputs accepted so far, A, each in one place of S; and no item of S *)
(* is an input yet to come.                                                *)
AllOnce(S, A) ==
    /\ \A n \in DOMAIN A : A[n] # "Blank" => Once(S, [kind |-> A[n], id |-> n])
    /\ \A y \in Item : Present(S, y) /\ y.kind \in InputKinds => y.id <= Len(A)

InputSeqs == Seq(QueueNames \cup {"Primary", "Blank"})

LEMMA MovedOnce ==
  ASSUME NEW S \in Filled, NEW T \in Filled,
         NEW a \in Places, NEW b \in Places, a # b, MovesTo(S, T, a, b),
         NEW A, AllOnce(S, A)
  PROVE  AllOnce(T, A)
  BY MoveKeepsOnce DEF AllOnce

LEMMA OutputOnce ==
  ASSUME NEW S \in Filled, NEW T \in Filled,
         NEW a \in Places, NEW y \in Item, y.kind \notin InputKinds, Puts(S, T, a, y),
         NEW A \in InputSeqs, AllOnce(S, A)
  PROVE  AllOnce(T, A)
<1>1. ASSUME NEW n \in DOMAIN A, A[n] # "Blank" PROVE Once(T, [kind |-> A[n], id |-> n])
  <2>1. PICK x : x = [kind |-> A[n], id |-> n]
    OBVIOUS
  <2>2. x.kind \in InputKinds
    BY <1>1, <2>1 DEF InputSeqs, InputKinds
  <2>3. x # y /\ Once(S, x)
    BY <1>1, <2>1, <2>2 DEF AllOnce
  <2> QED
    BY <2>1, <2>3, PutKeepsOnce
<1>2. ASSUME NEW x \in Item, Present(T, x), x.kind \in InputKinds PROVE x.id <= Len(A)
  BY <1>2, PutKeepsOnce DEF AllOnce
<1> QED
  BY <1>1, <1>2 DEF AllOnce

LEMMA NextInputOnce ==
  ASSUME NEW S \in Filled, NEW T \in Filled,
         NEW a \in Places, NEW A \in InputSeqs, NEW k \in InputKinds, NEW y \in Item,
         y = [kind |-> k, id |-> Len(A) + 1], Puts(S, T, a, y), AllOnce(S, A)
  PROVE  AllOnce(T, Append(A, k))
<1>1. /\ Len(A) \in Nat /\ DOMAIN A = 1 .. Len(A) /\ DOMAIN Append(A, k) = 1 .. Len(A) + 1
      /\ \A n \in DOMAIN A : Append(A, k)[n] = A[n]
      /\ Append(A, k)[Len(A) + 1] = k /\ Len(Append(A, k)) = Len(A) + 1
  BY DEF InputSeqs
<1>2. y.kind \in InputKinds /\ y.id = Len(A) + 1 /\ ~(Len(A) + 1 <= Len(A))
  BY <1>1
<1>3. Once(T, y)
  BY <1>2, PutKeepsOnce DEF AllOnce
<1>4. ASSUME NEW n \in DOMAIN A, A[n] # "Blank" PROVE Once(T, [kind |-> A[n], id |-> n])
  <2>1. PICK x : x = [kind |-> A[n], id |-> n]
    OBVIOUS
  <2>2. x.id = n /\ x # y
    BY <1>1, <1>2, <2>1
  <2>3. Once(S, x)
    BY <1>4, <2>1 DEF AllOnce
  <2> QED
    BY <2>1, <2>2, <2>3, PutKeepsOnce
<1>5. ASSUME NEW n \in DOMAIN Append(A, k), Append(A, k)[n] # "Blank"
      PROVE  Once(T, [kind |-> Append(A, k)[n], id |-> n])
  <2>1. CASE n \in DOMAIN A
    BY <1>1, <1>4, <1>5, <2>1
  <2>2. CASE n = Len(A) + 1
    BY <1>1, <1>3, <2>2
  <2> QED
    BY <1>1, <2>1, <2>2
<1>6. ASSUME NEW x \in Item, Present(T, x), x.kind \in InputKinds
      PROVE  x.id <= Len(Append(A, k))
  <2>1. x.id \in Nat
    BY BoundsAssumption DEF Item, Ids
  <2>2. Present(S, x) \/ x = y
    BY <1>6, PutKeepsOnce
  <2> QED
    BY <1>1, <1>2, <1>6, <2>1, <2>2 DEF AllOnce
<1> QED
  BY <1>5, <1>6 DEF AllOnce

LEMMA BlankOnce ==
  ASSUME NEW S, NEW A \in InputSeqs, AllOnce(S, A)
  PROVE  AllOnce(S, Append(A, "Blank"))
<1>1. /\ Len(A) \in Nat /\ DOMAIN A = 1 .. Len(A) /\ DOMAIN Append(A, "Blank") = 1 .. Len(A) + 1
      /\ \A n \in DOMAIN A : Append(A, "Blank")[n] = A[n]
      /\ Append(A, "Blank")[Len(A) + 1] = "Blank" /\ Len(Append(A, "Blank")) = Len(A) + 1
  BY DEF InputSeqs
<1>2. ASSUME NEW n \in DOMAIN Append(A, "Blank"), Append(A, "Blank")[n] # "Blank"
      PROVE  Once(S, [kind |-> Append(A, "Blank")[n], id |-> n])
  BY <1>1, <1>2 DEF AllOnce
<1>3. ASSUME NEW x \in Item, Present(S, x), x.kind \in InputKinds
      PROVE  x.id <= Len(Append(A, "Blank"))
  <2>1. x.id \in Nat /\ x.id <= Len(A)
    BY <1>3, BoundsAssumption DEF Item, Ids, AllOnce
  <2> QED
    BY <1>1, <2>1
<1> QED
  BY <1>2, <1>3 DEF AllOnce

(* What the session keeps: inputs accepted are in one place, and a         *)
(* submission not yet begun holds nothing.                                 *)
OnceInv ==
    /\ AllOnce(Stores, accepted)
    /\ \A s \in Subs : s >= nextSub => held[s] = << >>

LEMMA StoresTyped ==
  ASSUME TypeOK
  PROVE  /\ IsStores(Stores, conversation, queue, held)
         /\ conversation \in Seq(Item) /\ queue \in [QueueNames -> Seq(Item)]
         /\ held \in Hands /\ accepted \in InputSeqs
         /\ Stores \in Filled
<1>1. /\ conversation \in Seq(Item) /\ queue \in [QueueNames -> Seq(Item)]
      /\ held \in Hands /\ accepted \in InputSeqs
  BY DEF TypeOK, SessionTypes, TaskTypes, HistoryTypes, InputSeqs, Hands
<1>2. IsStores(Stores, conversation, queue, held)
  BY <1>1, StoresAre DEF Stores
<1> QED
  BY <1>1, <1>2 DEF IsStores, Laid

LEMMA NextStores ==
  ASSUME conversation' \in Seq(Item), queue' \in [QueueNames -> Seq(Item)],
         held' \in Hands
  PROVE  /\ IsStores(Stores', conversation', queue', held')
         /\ Stores' \in Filled
<1>1. IsStores(Stores', conversation', queue', held')
  BY StoresAre DEF Stores
<1> QED
  BY <1>1 DEF IsStores, Laid

(* From places to a count: an input that occurs once is at one place.      *)
PlacesOf(S, x) == UNION {{p} \X {k \in DOMAIN S[p] : S[p][k] = x} : p \in DOMAIN S}

LEMMA OnceIsOne ==
  ASSUME NEW S \in Filled, NEW x, Once(S, x)
  PROVE  Cardinality(PlacesOf(S, x)) = 1
<1>1. DOMAIN S = Places
  BY DEF Filled
<1>2. PICK p \in Places : \E k \in DOMAIN S[p] :
         /\ S[p][k] = x
         /\ \A q \in Places : \A l \in DOMAIN S[q] : S[q][l] = x => q = p /\ l = k
  BY DEF Once
<1>3. PICK k \in DOMAIN S[p] :
         /\ S[p][k] = x
         /\ \A q \in Places : \A l \in DOMAIN S[q] : S[q][l] = x => q = p /\ l = k
  BY <1>2
<1>4. PlacesOf(S, x) = {<<p, k>>}
  BY <1>1, <1>3 DEF PlacesOf
<1> QED
  BY <1>4, FS_Singleton

LEMMA OnceCounted ==
  ASSUME TypeOK, AllOnce(Stores, accepted)
  PROVE  InputOnce
<1> SUFFICES ASSUME NEW n \in DOMAIN accepted, accepted[n] # "Blank"
             PROVE  Cardinality(PlacesOf(Stores, [kind |-> accepted[n], id |-> n])) = 1
  BY DEF InputOnce, PlacesOf
<1>1. Once(Stores, [kind |-> accepted[n], id |-> n]) /\ Stores \in Filled
  BY StoresTyped DEF AllOnce
<1> QED
  BY <1>1, OnceIsOne

LEMMA OnceInit == Init => OnceInv
<1> SUFFICES ASSUME Init PROVE OnceInv
  OBVIOUS
<1>1. TypeOK /\ accepted = << >> /\ DOMAIN accepted = {} /\ Len(accepted) = 0
  BY TypeInit DEF Init
<1>2. /\ conversation = << >> /\ queue["Steering"] = << >> /\ queue["FollowUp"] = << >>
      /\ \A s \in Subs : held[s] = << >>
  BY DEF Init, QueueNames
<1>3. \A p \in Places : Stores[p] = << >>
  <2>1. PICK S : S = Stores
    OBVIOUS
  <2>2. IsStores(S, conversation, queue, held)
    BY <1>1, <2>1, StoresTyped
  <2>3. /\ S[1] = << >> /\ S[2] = << >> /\ S[3] = << >>
        /\ \A s \in Subs : S[3 + s] = << >>
    BY <1>2, <2>2 DEF IsStores, Laid
  <2>4. \A p \in Places : S[p] = << >>
    BY <2>3, PlaceCases
  <2> QED
    BY <2>1, <2>4
<1>4. AllOnce(Stores, accepted)
  BY <1>1, <1>3 DEF AllOnce, Present
<1> QED
  BY <1>2, <1>4 DEF OnceInv

LEMMA OnceHostStep ==
  ASSUME SessionInv, TypeOK', OnceInv, NEW h \in Hosts, HostStep(h)
  PROVE  OnceInv'
<1>1. /\ IsStores(Stores, conversation, queue, held)
      /\ conversation \in Seq(Item) /\ queue \in [QueueNames -> Seq(Item)]
      /\ held \in Hands /\ accepted \in InputSeqs /\ Stores \in Filled
  BY StoresTyped DEF SessionInv
<1>2. IsStores(Stores', conversation', queue', held') /\ Stores' \in Filled
  BY NextStores DEF TypeOK, SessionTypes, TaskTypes, Hands
<1>3. nextSub \in Nat /\ nextSub > 0 /\ MaxSub \in Nat
  BY BoundsAssumption DEF SessionInv, TypeOK, SessionTypes
<1>4. ASSUME UNCHANGED <<conversation, queue, held>>,
             \/ UNCHANGED accepted
             \/ accepted' = Append(accepted, "Blank"),
             nextSub' \in Nat, nextSub' >= nextSub
      PROVE  OnceInv'
  <2>1. Stores' = Stores
    BY <1>4 DEF Stores
  <2>2. AllOnce(Stores, accepted')
    BY <1>1, <1>4, BlankOnce DEF OnceInv
  <2>3. \A s \in Subs : s >= nextSub' => held'[s] = << >>
    BY <1>3, <1>4, PlaceCases DEF OnceInv
  <2>4. AllOnce(Stores', accepted')
    BY <2>1, <2>2
  <2> QED
    BY <2>3, <2>4 DEF OnceInv, AllOnce, Once, Present
<1>5. CASE Run(h)
  <2>1. /\ nextSub \in Subs /\ nextSub' = nextSub + 1 /\ held[nextSub] = << >>
        /\ UNCHANGED <<conversation, queue>>
    BY <1>3, <1>5 DEF Run, AcquireTurn, OnceInv, Subs
  <2>2. \A s \in Subs : s >= nextSub' => s # nextSub /\ held[s] = << >>
    BY <1>3, <2>1, PlaceCases DEF OnceInv
  <2>3. CASE HandOver("Primary") /\ AcquireTurn(h, "run", << Fresh("Primary") >>)
    <3>1. /\ Fresh("Primary") \in Item /\ accepted' = Append(accepted, "Primary")
          /\ held' = [held EXCEPT ![nextSub] = << Fresh("Primary") >>]
      BY <2>3, FreshTyped DEF HandOver, AcquireTurn, SessionInv, TypeOK
    <3>2. Puts(Stores, Stores', 3 + nextSub, Fresh("Primary"))
      BY <1>1, <1>2, <2>1, <3>1, HoldPuts
    <3>3. AllOnce(Stores', accepted')
      BY <1>1, <1>2, <2>1, <3>1, <3>2, NextInputOnce, PlaceCases
         DEF Fresh, OnceInv, InputKinds
    <3>4. \A s \in Subs : s >= nextSub' => held'[s] = << >>
      BY <1>1, <2>2, <3>1 DEF Hands
    <3> QED
      BY <3>3, <3>4 DEF OnceInv, AllOnce, Once, Present
  <2>4. CASE HandOver("Blank") /\ AcquireTurn(h, "run", << >>)
    <3>1. accepted' = Append(accepted, "Blank") /\ held' = [held EXCEPT ![nextSub] = << >>]
      BY <2>4 DEF HandOver, AcquireTurn
    <3>2. held' = held
      BY <1>1, <2>1, <3>1 DEF Hands
    <3> QED
      BY <1>3, <1>4, <2>1, <3>1, <3>2
  <2> QED
    BY <1>5, <2>3, <2>4 DEF Run
<1>6. CASE ContinueAcquire(h)
  <2>1. /\ nextSub \in Subs /\ nextSub' = nextSub + 1 /\ held[nextSub] = << >>
        /\ held' = [held EXCEPT ![nextSub] = << >>]
        /\ UNCHANGED <<conversation, queue, accepted>>
    BY <1>3, <1>6 DEF ContinueAcquire, AcquireTurn, OnceInv, Subs
  <2>2. held' = held
    BY <1>1, <2>1 DEF Hands
  <2> QED
    BY <1>3, <1>4, <2>1, <2>2
<1>7. ASSUME NEW q \in QueueNames, Enqueue(h, q) PROVE OnceInv'
  <2>1. UNCHANGED <<conversation, held, nextSub>>
    BY <1>7 DEF Enqueue, driverVars
  <2>2. CASE HandOver(q) /\ queue' = [queue EXCEPT ![q] = Append(@, Fresh(q))]
    <3>1. Fresh(q) \in Item /\ accepted' = Append(accepted, q)
      BY <2>2, FreshTyped DEF HandOver, SessionInv, TypeOK
    <3>2. Puts(Stores, Stores', QueuePlace(q), Fresh(q))
      BY <1>1, <1>2, <2>1, <2>2, <3>1, QueuePuts
    <3>3. QueuePlace(q) \in Places /\ q \in InputKinds
      BY PlaceCases DEF QueuePlace, InputKinds
    <3>4. AllOnce(Stores', accepted')
      BY <1>1, <1>2, <3>1, <3>2, <3>3, NextInputOnce DEF Fresh, OnceInv
    <3> QED
      BY <2>1, <3>4 DEF OnceInv, AllOnce, Once, Present
  <2>3. CASE HandOver("Blank") /\ UNCHANGED queue
    BY <1>3, <1>4, <2>1, <2>3 DEF HandOver
  <2> QED
    BY <1>7, <2>2, <2>3 DEF Enqueue
<1>8. CASE ContinueCheck(h) \/ ContinueBusy(h) \/ Launch(h) \/ AbortCapture(h)
           \/ AbortAnnounce(h) \/ AbortCancel(h)
  <2>1. UNCHANGED <<conversation, queue, held, accepted, nextSub>>
    BY <1>8 DEF ContinueCheck, ContinueBusy, Launch, AbortCapture, AbortAnnounce, AbortCancel,
       sessionVars, driverVars, historyVars
  <2> QED
    BY <1>3, <1>4, <2>1
<1> QED
  BY <1>5, <1>6, <1>7, <1>8 DEF HostStep

LEMMA OnceDriverStep ==
  ASSUME SessionInv, TypeOK', RoundInv, OnceInv, NEW s \in Subs, DriverStep(s)
  PROVE  OnceInv'
<1>1. /\ IsStores(Stores, conversation, queue, held)
      /\ conversation \in Seq(Item) /\ queue \in [QueueNames -> Seq(Item)]
      /\ held \in Hands /\ accepted \in InputSeqs /\ Stores \in Filled
      /\ dpc \in [Subs -> DriverPC]
  BY StoresTyped DEF SessionInv, TypeOK, TaskTypes
<1>2. IsStores(Stores', conversation', queue', held') /\ Stores' \in Filled
  BY NextStores DEF TypeOK, SessionTypes, TaskTypes, Hands
<1>3. accepted' = accepted
  BY DriverCases DEF LoopStep, EndStep, OpenStream, StreamMessage, StreamToolCall,
     StreamCompleted, Interrupt, RecordToolResult, KernelFinish, historyVars
<1>4. nextSub' = nextSub
  BY DriverEffects DEF SessionInv, Appends, Drains, Records, Moves, Frees
<1>5. ASSUME AllOnce(Stores', accepted), \A r \in Subs \ {s} : held'[r] = held[r],
             s < nextSub
      PROVE  OnceInv'
  <2>1. nextSub \in Nat
    BY DEF SessionInv, TypeOK, SessionTypes
  <2>2. \A r \in Subs : r >= nextSub => r # s
    BY <1>5, <2>1, PlaceCases
  <2>3. \A r \in Subs : r >= nextSub' => held'[r] = << >>
    BY <1>4, <1>5, <2>2 DEF OnceInv
  <2>4. AllOnce(Stores', accepted')
    BY <1>3, <1>5
  <2> QED
    BY <2>3, <2>4 DEF OnceInv, AllOnce, Once, Present
<1>6. dpc[s] # "unborn" => s < nextSub
  BY PlaceCases DEF SessionInv, SlotInv, TypeOK, SessionTypes
<1>7. 3 + s \in Places /\ 1 \in Places /\ 3 + s # 1 /\ \A q \in QueueNames :
         QueuePlace(q) \in Places /\ QueuePlace(q) # 3 + s
  BY PlaceCases DEF QueuePlace
<1>8. CASE Appends(s)
  <2>1. MovesTo(Stores, Stores', 1, 3 + s)
    BY <1>1, <1>2, <1>8, AppendMoves DEF Appends
  <2>2. AllOnce(Stores', accepted)
    BY <1>1, <1>2, <1>7, <2>1, MovedOnce DEF OnceInv
  <2> QED
    BY <1>1, <1>5, <1>6, <1>8, <2>2 DEF Appends, Hands
<1>9. CASE Drains(s)
  <2>1. PICK q \in QueueNames : /\ queue' = [queue EXCEPT ![q] = << >>]
                                /\ held' = [held EXCEPT ![s] = queue[q]]
    BY <1>9 DEF Drains
  <2>2. held[s] = << >> /\ conversation' = conversation /\ dpc[s] # "unborn"
    BY <1>9 DEF Drains, SessionInv, HoldInv, EmptyHanded
  <2>3. MovesTo(Stores, Stores', 3 + s, QueuePlace(q))
    BY <1>1, <1>2, <2>1, <2>2, DrainMoves
  <2>4. AllOnce(Stores', accepted)
    BY <1>1, <1>2, <1>7, <2>3, MovedOnce DEF OnceInv
  <2> QED
    BY <1>1, <1>5, <1>6, <2>1, <2>2, <2>4 DEF Hands
<1>10. CASE Records(s)
  <2>1. PICK y \in Item : conversation' = Append(conversation, y) /\ y.kind \notin InputKinds
    <3>1. StreamMessage(s) \/ StreamToolCall(s) \/ RecordToolResult(s)
      <4>1. conversation' # conversation
        BY <1>1, <1>10, Longer DEF Records
      <4> QED
        BY <1>10, <4>1, RoundEffects DEF SessionInv, Quiet, Appends, Records, EmptyHanded
    <3>2. PICK k \in {"Message", "Call", "Result"}, n \in Ids :
             conversation' = Append(conversation, [kind |-> k, id |-> n])
      <4>1. nextOutput \in Nat \ {0} /\ calls[s] \in Seq(Ids)
        BY DEF SessionInv, TypeOK, TaskTypes, HistoryTypes
      <4>2. RecordToolResult(s) => Head(calls[s]) \in Ids
        BY <4>1 DEF RecordToolResult
      <4>3. StreamMessage(s) \/ StreamToolCall(s) => nextOutput \in Ids
        BY <4>1, BoundsAssumption DEF StreamMessage, StreamToolCall, Ids
      <4> QED
        BY <3>1, <4>2, <4>3 DEF StreamMessage, StreamToolCall, RecordToolResult, Record
    <3>3. [kind |-> k, id |-> n] \in Item
      BY DEF Item
    <3>4. PICK y \in Item : y = [kind |-> k, id |-> n]
      BY <3>3
    <3>5. y.kind \notin InputKinds
      BY <3>4 DEF InputKinds, QueueNames
    <3> QED
      BY <3>2, <3>4, <3>5
  <2>2. UNCHANGED <<queue, held>> /\ dpc[s] # "unborn"
    BY <1>10 DEF Records, EmptyHanded
  <2>3. Puts(Stores, Stores', 1, y)
    BY <1>1, <1>2, <2>1, <2>2, RecordPuts
  <2>4. AllOnce(Stores', accepted)
    BY <1>1, <1>2, <1>7, <2>1, <2>3, OutputOnce DEF OnceInv
  <2> QED
    BY <1>5, <1>6, <2>2, <2>4
<1>11. CASE Moves(s) \/ Frees(s)
  <2>1. Stores' = Stores /\ held' = held /\ dpc[s] # "unborn"
    BY <1>11 DEF Moves, Frees, Stores, EmptyHanded
  <2>2. AllOnce(Stores', accepted)
    BY <2>1 DEF OnceInv
  <2> QED
    BY <1>5, <1>6, <2>1, <2>2
<1> QED
  BY <1>8, <1>9, <1>10, <1>11, DriverEffects DEF SessionInv

(* Every accepted input is in exactly one place: a queue, the hands of a   *)
(* driver, or the conversation.                                            *)
THEOREM InputOnceCorrect == Spec => []InputOnce
<1>1. SessionInv /\ SessionInv' /\ RoundInv /\ OnceInv /\ [Next]_vars => OnceInv'
  <2> SUFFICES ASSUME SessionInv, SessionInv', RoundInv, OnceInv, [Next]_vars PROVE OnceInv'
    OBVIOUS
  <2>1. CASE UNCHANGED vars
    <3>1. Stores' = Stores /\ accepted' = accepted /\ held' = held /\ nextSub' = nextSub
      BY <2>1 DEF Stores, vars, sessionVars, driverVars, historyVars
    <3>2. AllOnce(Stores', accepted')
      BY <3>1 DEF OnceInv
    <3> QED
      BY <3>1, <3>2 DEF OnceInv, AllOnce, Once, Present
  <2>2. ASSUME NEW h \in Hosts, HostStep(h) PROVE OnceInv'
    BY <2>2, OnceHostStep DEF SessionInv
  <2>3. ASSUME NEW s \in Subs, DriverStep(s) PROVE OnceInv'
    BY <2>3, OnceDriverStep DEF SessionInv
  <2> QED
    BY <2>1, <2>2, <2>3 DEF Next, Quiescent
<1>2. SessionInv /\ OnceInv => InputOnce
  BY OnceCounted DEF SessionInv, OnceInv
<1> QED
  BY <1>1, <1>2, OnceInit, RoundHolds, PTL DEF Spec

(***************************************************************************)
(* The order of submissions: who reports a turn event works for the active *)
(* submission, which is the latest one.                                    *)
(***************************************************************************)
TurnsInv ==
    /\ active \in {0, nextSub - 1}
    /\ \A i \in DOMAIN events : events[i].sub < nextSub
    /\ SubmissionsInOrder

LEMMA TurnsFrame ==
  ASSUME TypeOK, TypeOK', TurnsInv, NEW e \in Event, UNCHANGED events \/ Emit(e),
         e.sub = 0 \/ e.sub = nextSub - 1,
         nextSub' \in {nextSub, nextSub + 1}, active' \in {0, nextSub' - 1}
  PROVE  TurnsInv'
<1>1. nextSub \in Nat /\ nextSub > 0 /\ \A i \in DOMAIN events : events[i].sub \in Nat
  <2>1. events \in Seq(Event) /\ nextSub \in 1 .. MaxSub + 1
    BY DEF TypeOK, SessionTypes
  <2>2. \A i \in DOMAIN events : events[i] \in Event
    BY <2>1
  <2> QED
    BY <2>1, <2>2, BoundsAssumption DEF Event
<1>2. CASE UNCHANGED events
  <2>1. \A i \in DOMAIN events : events[i].sub < nextSub'
    BY <1>1 DEF TurnsInv
  <2> QED
    BY <1>2, <2>1 DEF TurnsInv, SubmissionsInOrder
<1>3. CASE Emit(e)
  <2>1. /\ Len(events) \in Nat /\ DOMAIN events = 1 .. Len(events)
        /\ DOMAIN events' = 1 .. Len(events) + 1
        /\ \A i \in DOMAIN events : events'[i] = events[i]
        /\ events'[Len(events) + 1] = e
    BY <1>3, EmitPlaces
  <2>2. \A i \in DOMAIN events' : i \in DOMAIN events \/ i = Len(events) + 1
    BY <2>1
  <2>3. e.sub < nextSub /\ \A i \in DOMAIN events : e.sub # 0 => events[i].sub <= e.sub
    BY <1>1 DEF TurnsInv
  <2>4. \A i \in DOMAIN events' : events'[i].sub < nextSub'
    BY <1>1, <2>1, <2>2, <2>3 DEF TurnsInv
  <2>5. SubmissionsInOrder'
    <3> SUFFICES ASSUME NEW i \in DOMAIN events', NEW j \in DOMAIN events', i < j,
                        events'[i].sub # 0, events'[j].sub # 0
                 PROVE  events'[i].sub <= events'[j].sub
      BY DEF SubmissionsInOrder
    <3>1. i \in DOMAIN events
      BY <2>1, <2>2
    <3>2. CASE j \in DOMAIN events
      BY <2>1, <3>1, <3>2 DEF TurnsInv, SubmissionsInOrder
    <3>3. CASE j = Len(events) + 1
      BY <2>1, <2>3, <3>1, <3>3
    <3> QED
      BY <2>2, <3>2, <3>3
  <2> QED
    BY <2>4, <2>5 DEF TurnsInv
<1> QED
  BY <1>2, <1>3

LEMMA TurnsStep == SessionInv /\ TurnsInv /\ [Next]_vars => TurnsInv'
<1> SUFFICES ASSUME SessionInv, TurnsInv, [Next]_vars PROVE TurnsInv'
  OBVIOUS
<1>0. TypeOK /\ TypeOK' /\ SlotInv
  BY TypeStep DEF SessionInv
<1>1. \A st \in {"Running", "Aborting", "Idle"} :
         StatusEvent(st) \in Event /\ StatusEvent(st).sub = 0
  BY EventsTyped DEF StatusEvent
<1>2. ASSUME NEW st \in {"Running", "Aborting", "Idle"},
             UNCHANGED events \/ Emit(StatusEvent(st)),
             nextSub' \in {nextSub, nextSub + 1}, active' \in {0, nextSub' - 1}
      PROVE  TurnsInv'
  BY <1>0, <1>1, <1>2, TurnsFrame
<1>3. active \in {0, nextSub - 1} /\ nextSub \in Nat
  BY <1>0, BoundsAssumption DEF TurnsInv, TypeOK, SessionTypes
<1>4. CASE UNCHANGED vars
  BY <1>2, <1>3, <1>4 DEF vars, sessionVars
<1>5. ASSUME NEW h \in Hosts, HostStep(h) PROVE TurnsInv'
  <2>1. UNCHANGED events \/ \E st \in {"Running", "Aborting"} : Emit(StatusEvent(st))
    BY <1>5 DEF HostStep, Run, ContinueCheck, ContinueAcquire, ContinueBusy, Launch, Enqueue,
       AbortCapture, AbortAnnounce, AbortCancel
  <2>2. nextSub' \in {nextSub, nextSub + 1} /\ active' \in {0, nextSub' - 1}
    <3>1. Begins(h) \/ Queues(h) \/ Launches(h)
      BY <1>0, <1>5, HostEffects
    <3> QED
      BY <1>3, <3>1 DEF Begins, Queues, Launches
  <2> QED
    BY <1>2, <2>1, <2>2
<1>6. ASSUME NEW s \in Subs, DriverStep(s) PROVE TurnsInv'
  <2>1. nextSub' = nextSub /\ active' \in {0, nextSub' - 1}
    <3>1. Appends(s) \/ Drains(s) \/ Records(s) \/ Moves(s) \/ Frees(s)
      BY <1>0, <1>6, DriverEffects
    <3> QED
      BY <1>3, <3>1 DEF Appends, Drains, Records, Moves, Frees
  <2>2. CASE UNCHANGED events
    BY <1>2, <2>1, <2>2
  <2>3. ASSUME NEW e \in Event, Reports(s, e), e.sub = s, Emit(e) PROVE TurnsInv'
    <3>1. dpc[s] \in InLoop
      BY <2>3 DEF Reports, Between, Inside, InLoop, DriverPC
    <3>2. e.sub = nextSub - 1
      BY <1>0, <1>3, <2>3, <3>1 DEF SlotInv, Subs
    <3> QED
      BY <1>0, <2>1, <2>3, <3>2, TurnsFrame
  <2>4. CASE Emit(StatusEvent("Idle"))
    BY <1>2, <2>1, <2>4
  <2> QED
    BY <1>0, <1>6, <2>2, <2>3, <2>4, GrammarEffects
<1> QED
  BY <1>4, <1>5, <1>6 DEF Next, Quiescent

LEMMA TurnsInit == Init => TurnsInv
  BY DEF Init, TurnsInv, SubmissionsInOrder

(* Events of two submissions never interleave on the channel.              *)
THEOREM SubmissionOrderCorrect == Spec => []SubmissionsInOrder
<1>1. TurnsInv => SubmissionsInOrder
  BY DEF TurnsInv
<1> QED
  BY <1>1, TurnsInit, TurnsStep, SessionHolds, PTL DEF Spec

(***************************************************************************)
(* What a turn drops: it leaves the loop with items in hand only from the  *)
(* head of the loop, before its first round, cancelled.                    *)
(***************************************************************************)
Dropped(s) ==
    /\ held[s][1].kind = "Primary"
    /\ \E i \in DOMAIN asked : asked[i] = s
    /\ \E i \in DOMAIN events : EventsOf(s) = {i} /\ events[i] = TurnEvent("Aborted", s)

DropsWell(s) ==
    held[s] # << >> =>
        /\ dpc[s] \in {"unborn", "top"} => EventsOf(s) = {} /\ held[s][1].kind = "Primary"
        /\ dpc[s] \in Over => Dropped(s)
DropInv == \A s \in Subs : DropsWell(s)

(* A step that adds no event of this submission.                           *)
LEMMA DropFrame ==
  ASSUME TypeOK, NEW s \in Subs, DropsWell(s), NEW e \in Event,
         UNCHANGED events \/ (Emit(e) /\ e.sub # s),
         held'[s] = << >> \/ held'[s] = held[s],
         \/ dpc'[s] = dpc[s]
         \/ dpc[s] \in Over /\ dpc'[s] \in Over
         \/ dpc[s] = "unborn" /\ dpc'[s] = "top"
         \/ dpc'[s] \notin {"unborn", "top"} \cup Over,
         \A i \in DOMAIN asked : i \in DOMAIN asked' /\ asked'[i] = asked[i]
  PROVE  DropsWell(s)'
<1>1. /\ EventsOf(s)' = EventsOf(s)
      /\ \A i \in DOMAIN events : i \in DOMAIN events' /\ events'[i] = events[i]
  <2>1. CASE UNCHANGED events
    BY <2>1 DEF EventsOf
  <2>2. CASE Emit(e) /\ e.sub # s
    <3>1. /\ Len(events) \in Nat /\ DOMAIN events = 1 .. Len(events)
          /\ DOMAIN events' = 1 .. Len(events) + 1
          /\ \A i \in DOMAIN events : events'[i] = events[i]
          /\ EventsOf(s)' = EventsOf(s)
      BY <2>2, EmitPlaces
    <3> QED
      BY <3>1
  <2> QED
    BY <2>1, <2>2
<1>2. Dropped(s) /\ held'[s] = held[s] => Dropped(s)'
  BY <1>1 DEF Dropped, TurnEvent
<1> QED
  BY <1>1, <1>2 DEF DropsWell, Over

LEMMA LeavesTop ==
  ASSUME TypeOK, NEW s \in Subs, DriverStep(s), dpc[s] = "top"
  PROVE  TopCancelled(s) \/ TopInitial(s) \/ TopBootstrap(s)
<1>1. CASE LoopStep(s)
  BY <1>1 DEF LoopStep, TopCancelled, TopInitial, TopBootstrap, BootstrapFollowUp,
     BootstrapAppend, BootstrapCheck, StartTurn, BuildRequest
<1>2. CASE EndStep(s)
  BY <1>2 DEF EndStep, FailTurn, CompleteTurn, AfterCompleted, TailFollowUp, TailAppend,
     Release, Announce
<1>3. CASE \/ OpenStream(s) \/ StreamCompleted(s) \/ KernelFinish(s)
           \/ dpc[s] = "stream" /\ Interrupt(s)
           \/ dpc[s] = "tools" /\ Interrupt(s)
           \/ StreamMessage(s) \/ StreamToolCall(s) \/ RecordToolResult(s)
  BY <1>3 DEF OpenStream, StreamCompleted, KernelFinish, StreamMessage, StreamToolCall,
     RecordToolResult
<1> QED
  BY <1>1, <1>2, <1>3, DriverCases

LEMMA DropStep == SessionInv /\ GrammarInv /\ AbortInv /\ DropInv /\ [Next]_vars => DropInv'
<1> SUFFICES ASSUME SessionInv, GrammarInv, AbortInv, DropInv, [Next]_vars, NEW r \in Subs
             PROVE  DropsWell(r)'
  BY DEF DropInv
<1>0. /\ TypeOK /\ SlotInv /\ HoldInv /\ DropsWell(r)
      /\ dpc \in [Subs -> DriverPC] /\ held \in [Subs -> Seq(Item)]
  BY DEF SessionInv, TypeOK, TaskTypes, DropInv
<1>1. \A st \in {"Running", "Aborting", "Idle"} :
         StatusEvent(st) \in Event /\ StatusEvent(st).sub # r
  <2>1. r # 0
    BY DEF Subs
  <2>2. \A st : StatusEvent(st).sub = 0
    BY DEF StatusEvent
  <2> QED
    BY <2>1, <2>2, EventsTyped
<1>2. CASE UNCHANGED vars
  BY <1>0, <1>1, <1>2, DropFrame DEF vars, driverVars, historyVars
<1>3. ASSUME NEW h \in Hosts, HostStep(h) PROVE DropsWell(r)'
  <2>1. UNCHANGED events \/ \E st \in {"Running", "Aborting"} : Emit(StatusEvent(st))
    BY <1>3 DEF HostStep, Run, ContinueCheck, ContinueAcquire, ContinueBusy, Launch, Enqueue,
       AbortCapture, AbortAnnounce, AbortCancel
  <2>2. \A i \in DOMAIN asked : i \in DOMAIN asked' /\ asked'[i] = asked[i]
    <3>1. CASE AbortCapture(h)
      <4>1. asked \in Seq(Subs) /\ active \in Subs /\ asked' = Append(asked, active)
        BY <1>0, <3>1 DEF AbortCapture, TypeOK, SessionTypes, HistoryTypes, Subs
      <4> QED
        BY <4>1
    <3>2. CASE ~AbortCapture(h)
      BY <1>3, <3>2 DEF HostStep, Run, ContinueCheck, ContinueAcquire, ContinueBusy, Launch,
         Enqueue, AbortAnnounce, AbortCancel, historyVars
    <3> QED
      BY <3>1, <3>2
  <2>3. CASE Run(h) \/ ContinueAcquire(h)
    <3>1. UNCHANGED <<dpc, events>> /\ nextSub \in Subs
      BY <1>0, <2>3 DEF Run, ContinueAcquire, AcquireTurn, TypeOK, SessionTypes, Subs
    <3>2. \/ held' = [held EXCEPT ![nextSub] = << >>]
          \/ held' = [held EXCEPT ![nextSub] = << Fresh("Primary") >>]
      BY <2>3 DEF Run, ContinueAcquire, AcquireTurn
    <3>3. CASE r # nextSub
      <4>1. held'[r] = held[r]
        BY <1>0, <3>2, <3>3
      <4> QED
        BY <1>0, <1>1, <2>2, <3>1, <4>1, DropFrame
    <3>4. CASE r = nextSub
      <4>1. dpc[r] = "unborn"
        BY <1>0, <3>1, <3>4 DEF SlotInv, Subs
      <4>2. EventsOf(r)' = {}
        BY <3>1, <4>1 DEF GrammarInv, Stands, EventsOf
      <4>3. held'[r] = << >> \/ held'[r][1].kind = "Primary"
        <5>1. held'[r] = << >> \/ held'[r] = << Fresh("Primary") >>
          BY <1>0, <3>1, <3>2, <3>4
        <5>2. << Fresh("Primary") >>[1].kind = "Primary"
          BY DEF Fresh
        <5> QED
          BY <5>1, <5>2
      <4> QED
        BY <3>1, <4>1, <4>2, <4>3 DEF DropsWell, Over
    <3> QED
      BY <3>3, <3>4
  <2>4. CASE ~(Run(h) \/ ContinueAcquire(h))
    <3>1. held' = held
      BY <1>3, <2>4 DEF HostStep, ContinueCheck, ContinueBusy, Launch, Enqueue, AbortCapture,
         AbortAnnounce, AbortCancel, driverVars
    <3>2. dpc'[r] = dpc[r] \/ (dpc[r] = "unborn" /\ dpc'[r] = "top")
      <4>1. CASE Launch(h)
        <5>1. dpc' = [dpc EXCEPT ![hsub[h]] = "top"] /\ dpc[hsub[h]] = "unborn"
          BY <1>0, <4>1 DEF Launch, Goto, SlotInv
        <5>2. CASE r = hsub[h]
          BY <1>0, <5>1, <5>2
        <5>3. CASE r # hsub[h]
          BY <1>0, <5>1, <5>3
        <5> QED
          BY <5>2, <5>3
      <4>2. CASE ~Launch(h)
        BY <1>3, <2>4, <4>2 DEF HostStep, ContinueCheck, ContinueBusy, Enqueue, AbortCapture,
           AbortAnnounce, AbortCancel, driverVars
      <4> QED
        BY <4>1, <4>2
    <3> QED
      BY <1>0, <1>1, <2>1, <2>2, <3>1, <3>2, DropFrame
  <2> QED
    BY <2>3, <2>4
<1>4. ASSUME NEW s \in Subs, DriverStep(s) PROVE DropsWell(r)'
  <2>0. \A i \in DOMAIN asked : i \in DOMAIN asked' /\ asked'[i] = asked[i]
    BY <1>0, <1>4, DriverEmits
  <2>1. Appends(s) \/ Drains(s) \/ Records(s) \/ Moves(s) \/ Frees(s)
    BY <1>0, <1>4, DriverEffects
  <2>2. /\ \A t \in Subs \ {s} : dpc'[t] = dpc[t]
        /\ \/ UNCHANGED events
           \/ \E e \in Event : Reports(s, e) /\ e.sub = s /\ Emit(e)
           \/ Emit(StatusEvent("Idle"))
    BY <1>0, <1>4, GrammarEffects
  <2>3. CASE r # s
    <3>1. held'[r] = held[r]
      BY <1>0, <2>1, <2>3 DEF Appends, Drains, Records, Moves, Frees
    <3>2. \E e \in Event : UNCHANGED events \/ (Emit(e) /\ e.sub # r)
      BY <1>1, <2>2, <2>3
    <3> QED
      BY <1>0, <2>0, <2>2, <2>3, <3>1, <3>2, DropFrame
  <2>4. CASE r = s
    <3>1. CASE dpc[s] = "top"
      <4>1. TopCancelled(s) \/ TopInitial(s) \/ TopBootstrap(s)
        BY <1>0, <1>4, <3>1, LeavesTop
      <4>2. CASE TopInitial(s) \/ TopBootstrap(s)
        <5>1. dpc'[s] \notin {"unborn", "top"} \cup Over
          BY <1>0, <4>2 DEF TopInitial, TopBootstrap, AppendItems, DrainInputQueue, Goto, Over
        <5> QED
          BY <2>4, <5>1 DEF DropsWell
      <4>3. CASE TopCancelled(s)
        <5>1. /\ held' = held /\ dpc'[s] = "release" /\ Emit(TurnEvent("Aborted", s))
              /\ cancelled[s]
          BY <1>0, <4>3 DEF TopCancelled, EmitAndGo, Goto
        <5>2. TurnEvent("Aborted", s) \in Event /\ TurnEvent("Aborted", s).sub = s
          BY EventsTyped DEF TurnEvent
        <5>3. ASSUME held[s] # << >> PROVE Dropped(s)'
          <6>1. EventsOf(s) = {} /\ held[s][1].kind = "Primary"
            BY <1>0, <2>4, <3>1, <5>3 DEF DropsWell
          <6>2. PICK n : n = Len(events) + 1
            OBVIOUS
          <6>3. /\ EventsOf(s)' = {n} /\ n \in DOMAIN events'
                /\ events'[n] = TurnEvent("Aborted", s)
            <7>1. /\ Len(events) \in Nat /\ DOMAIN events' = 1 .. Len(events) + 1
                  /\ events'[Len(events) + 1] = TurnEvent("Aborted", s)
                  /\ EventsOf(s)' = EventsOf(s) \cup {Len(events) + 1}
              BY <1>0, <5>1, <5>2, EmitPlaces
            <7> QED
              BY <6>1, <6>2, <7>1
          <6>4. \E i \in DOMAIN asked' : asked'[i] = s
            BY <2>0, <5>1 DEF AbortInv, Asked
          <6> QED
            BY <5>1, <6>1, <6>3, <6>4 DEF Dropped, TurnEvent
        <5> QED
          BY <2>4, <5>1, <5>3 DEF DropsWell
      <4> QED
        BY <4>1, <4>2, <4>3
    <3>2. CASE dpc[s] \in Over
      <4>1. dpc'[s] \in Over /\ held' = held
        BY <1>0, <2>1, <3>2 DEF Appends, Drains, Records, Moves, Frees, Goto, Over, EmptyHanded
      <4>2. \E e \in Event : UNCHANGED events \/ (Emit(e) /\ e.sub # s)
        BY <1>1, <2>2, <2>4, <3>2 DEF Reports, Over, Between, Inside
      <4> QED
        BY <1>0, <2>0, <2>4, <3>2, <4>1, <4>2, DropFrame
    <3>3. CASE dpc[s] \notin {"top"} \cup Over
      <4>1. held'[s] = << >> \/ dpc'[s] \notin {"unborn", "top"} \cup Over
        <5>1. CASE Appends(s)
          BY <1>0, <5>1 DEF Appends
        <5>2. CASE Drains(s)
          BY <1>0, <5>2 DEF Drains, Goto, Over
        <5>3. CASE Records(s) \/ Moves(s)
          <6>1. dpc[s] \in EmptyHanded /\ held'[s] = held[s]
            BY <1>0, <5>3, <3>3 DEF Records, Moves, Over
          <6> QED
            BY <1>0, <6>1 DEF HoldInv
        <5>4. CASE Frees(s)
          BY <3>3, <5>4 DEF Frees, Over
        <5> QED
          BY <2>1, <5>1, <5>2, <5>3, <5>4
      <4> QED
        BY <2>4, <4>1 DEF DropsWell
    <3> QED
      BY <3>1, <3>2, <3>3
  <2> QED
    BY <2>3, <2>4
<1> QED
  BY <1>2, <1>3, <1>4 DEF Next, Quiescent

LEMMA DropInit == Init => DropInv
  BY DEF Init, DropInv, DropsWell

(* A finished turn drops no input but the one it was started with, and     *)
(* that only when an abort came before its first round.                    *)
THEOREM DropCorrect == Spec => []DroppedOnlyBeforeStart
<1>1. DropInv => DroppedOnlyBeforeStart
  BY DEF DropInv, DropsWell, Dropped, DroppedOnlyBeforeStart, Over
<1>2. Init => (AbortInv /\ GrammarInv /\ DropInv)
  BY AbortInit, GrammarInit, DropInit
<1>3. SessionInv /\ AbortInv /\ GrammarInv /\ DropInv /\ [Next]_vars
      => (AbortInv /\ GrammarInv /\ DropInv)'
  BY AbortStep, GrammarStep, DropStep DEF SessionInv
<1> QED
  BY <1>1, <1>2, <1>3, SessionHolds, PTL DEF Spec

(***************************************************************************)
(* The order of input.  The conversation, what the active turn has in hand *)
(* and a queue are, in this order, rising; nobody has a number that was    *)
(* not handed out yet.                                                     *)
(***************************************************************************)
Below(a, b, q) == \A i \in Where(a, q), j \in Where(b, q) : a[i].id < b[j].id

LEMMA JoinInOrder ==
  ASSUME NEW a \in Seq(Item), NEW b \in Seq(Item), NEW q
  PROVE  /\ InOrder(a \o b, q) <=> InOrder(a, q) /\ InOrder(b, q) /\ Below(a, b, q)
         /\ \A c \in Seq(Item) : Below(a \o b, c, q) <=> Below(a, c, q) /\ Below(b, c, q)
<1>1. PICK d, m, n : d = a \o b /\ m = Len(a) /\ n = Len(b)
  OBVIOUS
<1>2. /\ m \in Nat /\ n \in Nat /\ DOMAIN a = 1 .. m /\ DOMAIN b = 1 .. n /\ DOMAIN d = 1 .. m + n
      /\ \A i \in 1 .. m : d[i] = a[i]
      /\ \A i \in 1 .. n : d[m + i] = b[i]
  BY <1>1
<1>3. \A i \in 1 .. m + n : i \in 1 .. m \/ \E k \in 1 .. n : i = m + k
  <2> SUFFICES ASSUME NEW i \in 1 .. m + n, i \notin 1 .. m PROVE \E k \in 1 .. n : i = m + k
    OBVIOUS
  <2>1. i - m \in 1 .. n /\ i = m + (i - m)
    BY <1>2
  <2> QED
    BY <2>1
<1>4. \A i : i \in Where(d, q) <=> i \in Where(a, q) \/ \E k \in Where(b, q) : i = m + k
  <2>1. ASSUME NEW i \in Where(d, q)
        PROVE  i \in Where(a, q) \/ \E k \in Where(b, q) : i = m + k
    <3>1. i \in 1 .. m + n /\ d[i].kind = q
      BY <1>2, <2>1 DEF Where
    <3> QED
      BY <1>2, <1>3, <3>1 DEF Where
  <2>2. ASSUME NEW i \in Where(a, q) PROVE i \in Where(d, q)
    BY <1>2, <2>2 DEF Where
  <2>3. ASSUME NEW k \in Where(b, q) PROVE m + k \in Where(d, q)
    BY <1>2, <2>3 DEF Where
  <2> QED
    BY <2>1, <2>2, <2>3
<1>5. /\ \A i \in Where(a, q) : d[i] = a[i] /\ i \in Nat /\ i <= m /\ i \in Where(d, q)
      /\ \A k \in Where(b, q) : d[m + k] = b[k] /\ k \in Nat /\ k > 0 /\ m + k \in Where(d, q)
  BY <1>2, <1>4 DEF Where
<1>6. ASSUME InOrder(d, q) PROVE InOrder(a, q) /\ InOrder(b, q) /\ Below(a, b, q)
  <2>1. InOrder(a, q)
    BY <1>5, <1>6 DEF InOrder
  <2>2. InOrder(b, q)
    <3> SUFFICES ASSUME NEW i \in Where(b, q), NEW j \in Where(b, q), i < j
                 PROVE  b[i].id < b[j].id
      BY DEF InOrder
    <3>1. m + i < m + j
      BY <1>2, <1>5
    <3> QED
      BY <1>5, <1>6, <3>1 DEF InOrder
  <2>3. Below(a, b, q)
    <3> SUFFICES ASSUME NEW i \in Where(a, q), NEW j \in Where(b, q) PROVE a[i].id < b[j].id
      BY DEF Below
    <3>1. i < m + j
      BY <1>2, <1>5
    <3> QED
      BY <1>5, <1>6, <3>1 DEF InOrder
  <2> QED
    BY <2>1, <2>2, <2>3
<1>7. ASSUME InOrder(a, q), InOrder(b, q), Below(a, b, q) PROVE InOrder(d, q)
  <2> SUFFICES ASSUME NEW i \in Where(d, q), NEW j \in Where(d, q), i < j
               PROVE  d[i].id < d[j].id
    BY DEF InOrder
  <2>1. CASE i \in Where(a, q) /\ j \in Where(a, q)
    BY <1>5, <1>7, <2>1 DEF InOrder
  <2>2. CASE i \in Where(a, q) /\ j \notin Where(a, q)
    BY <1>4, <1>5, <1>7, <2>2 DEF Below
  <2>3. ASSUME NEW k \in Where(b, q), i = m + k PROVE d[i].id < d[j].id
    <3>1. j \notin Where(a, q)
      BY <1>2, <1>5, <2>3
    <3>2. PICK l \in Where(b, q) : j = m + l
      BY <1>4, <3>1
    <3>3. k < l
      BY <1>2, <1>5, <2>3, <3>2
    <3> QED
      BY <1>5, <1>7, <2>3, <3>2, <3>3 DEF InOrder
  <2> QED
    BY <1>4, <2>1, <2>2, <2>3
<1>8. \A c : Below(d, c, q) <=> Below(a, c, q) /\ Below(b, c, q)
  BY <1>4, <1>5 DEF Below
<1> QED
  BY <1>1, <1>6, <1>7, <1>8

(* One item more.                                                          *)
LEMMA OneMore ==
  ASSUME NEW a \in Seq(Item), NEW x \in Item, NEW q
  PROVE  /\ x.kind # q => /\ InOrder(a, q) => InOrder(Append(a, x), q)
                          /\ \A c : Below(a, c, q) => Below(Append(a, x), c, q)
         /\ (\A i \in Where(a, q) : a[i].id < x.id) =>
                (InOrder(a, q) => InOrder(Append(a, x), q))
         /\ \A c : Below(c, a, q) /\ (\A i \in Where(c, q) : c[i].id < x.id)
                      => Below(c, Append(a, x), q)
         /\ \A i \in DOMAIN Append(a, x) :
                Append(a, x)[i] = x \/ \E k \in DOMAIN a : Append(a, x)[i] = a[k]
<1>1. PICK d, m : d = Append(a, x) /\ m = Len(a)
  OBVIOUS
<1>2. /\ m \in Nat /\ DOMAIN a = 1 .. m /\ DOMAIN d = 1 .. m + 1 /\ d[m + 1] = x
      /\ \A i \in 1 .. m : d[i] = a[i]
  BY <1>1
<1>3. \A i \in Where(d, q) : i \in Where(a, q) \/ (i = m + 1 /\ x.kind = q)
  <2> SUFFICES ASSUME NEW i \in Where(d, q), i \notin Where(a, q) PROVE i = m + 1 /\ x.kind = q
    OBVIOUS
  <2>1. i \in 1 .. m + 1 /\ d[i].kind = q
    BY <1>2 DEF Where
  <2>2. i \notin 1 .. m
    BY <1>2, <2>1 DEF Where
  <2>3. i = m + 1
    BY <1>2, <2>1, <2>2
  <2> QED
    BY <1>2, <2>1, <2>3
<1>4. \A i \in Where(a, q) : d[i] = a[i] /\ i \in Nat /\ i <= m
  BY <1>2 DEF Where
<1>5. x.kind # q => /\ InOrder(a, q) => InOrder(d, q)
                    /\ \A c : Below(a, c, q) => Below(d, c, q)
  BY <1>3, <1>4 DEF InOrder, Below
<1>6. ASSUME \A i \in Where(a, q) : a[i].id < x.id, InOrder(a, q) PROVE InOrder(d, q)
  <2> SUFFICES ASSUME NEW i \in Where(d, q), NEW j \in Where(d, q), i < j
               PROVE  d[i].id < d[j].id
    BY DEF InOrder
  <2>1. CASE j \in Where(a, q)
    <3>1. i \in Where(a, q)
      BY <1>2, <1>3, <1>4, <2>1
    <3> QED
      BY <1>4, <1>6, <2>1, <3>1 DEF InOrder
  <2>2. CASE j = m + 1
    <3>1. i \in Where(a, q)
      BY <1>2, <1>3, <2>2
    <3> QED
      BY <1>2, <1>4, <1>6, <2>2, <3>1
  <2> QED
    BY <1>3, <2>1, <2>2
<1>7. \A c : Below(c, a, q) /\ (\A i \in Where(c, q) : c[i].id < x.id) => Below(c, d, q)
  BY <1>2, <1>3, <1>4 DEF Below
<1>8. \A i \in DOMAIN d : d[i] = x \/ \E k \in DOMAIN a : d[i] = a[k]
  BY <1>2
<1> QED
  BY <1>1, <1>5, <1>6, <1>7, <1>8

Taken == IF active = 0 THEN << >> ELSE held[active]

Flows(c, t, u, q) ==
    /\ InOrder(c, q) /\ InOrder(t, q) /\ InOrder(u, q)
    /\ Below(c, t, q) /\ Below(c, u, q) /\ Below(t, u, q)

Numbered(seq, n, kinds) ==
    \A i \in DOMAIN seq : seq[i].kind \in kinds => seq[i].id <= n

FlowInv ==
    /\ \A q \in QueueNames : Flows(conversation, Taken, queue[q], q)
    /\ \A q \in QueueNames : \A n \in DOMAIN queue[q] : queue[q][n].kind = q
    /\ Numbered(conversation, Len(accepted), QueueNames)
    /\ Numbered(Taken, Len(accepted), QueueNames)
    /\ \A q \in QueueNames : Numbered(queue[q], Len(accepted), QueueNames)

LEMMA FlowTyped ==
  ASSUME TypeOK
  PROVE  /\ conversation \in Seq(Item) /\ Taken \in Seq(Item)
         /\ \A q \in QueueNames : queue[q] \in Seq(Item)
         /\ \A s \in Subs : held[s] \in Seq(Item)
         /\ Len(accepted) \in Nat
<1>1. /\ held \in [Subs -> Seq(Item)] /\ active \in 0 .. MaxSub
      /\ queue \in [QueueNames -> Seq(Item)] /\ conversation \in Seq(Item)
      /\ accepted \in Seq(QueueNames \cup {"Primary", "Blank"})
  BY DEF TypeOK, SessionTypes, TaskTypes, HistoryTypes
<1>2. Taken \in Seq(Item)
  <2>1. CASE active = 0
    BY <2>1 DEF Taken
  <2>2. CASE active # 0
    BY <1>1, <2>2 DEF Taken, Subs
  <2> QED
    BY <2>1, <2>2
<1> QED
  BY <1>1, <1>2

LEMMA FlowMeans == TypeOK /\ FlowInv => InputInOrder
<1> SUFFICES ASSUME TypeOK, FlowInv, NEW q \in QueueNames
             PROVE  InOrder(conversation \o Taken \o queue[q], q)
  BY DEF InputInOrder, Taken
<1>1. PICK c \in Seq(Item), t \in Seq(Item), u \in Seq(Item) :
        c = conversation /\ t = Taken /\ u = queue[q]
  BY FlowTyped
<1>2. Flows(c, t, u, q)
  BY <1>1 DEF FlowInv
<1>3. PICK d : d = c \o t
  OBVIOUS
<1>4. d \in Seq(Item)
  BY <1>3
<1>5. InOrder(d, q) /\ Below(d, u, q)
  BY <1>2, <1>3, JoinInOrder DEF Flows
<1>6. InOrder(d \o u, q) <=> InOrder(d, q) /\ InOrder(u, q) /\ Below(d, u, q)
  BY <1>4, JoinInOrder
<1>7. InOrder(d \o u, q)
  BY <1>2, <1>5, <1>6 DEF Flows
<1> QED
  BY <1>1, <1>3, <1>7

LEMMA FlowsMoves ==
  ASSUME NEW c \in Seq(Item), NEW t \in Seq(Item), NEW u \in Seq(Item), NEW q, Flows(c, t, u, q)
  PROVE  /\ Flows(c \o t, << >>, u, q)
         /\ Flows(c, << >>, u, q)
         /\ t = << >> => Flows(c, u, << >>, q)
         /\ \A d : Where(d, q) = {} => Flows(c, d, u, q)
         /\ \A x \in Item : x.kind # q => Flows(Append(c, x), t, u, q)
<1>1. Where(<< >>, q) = {}
  BY DEF Where
<1>2. \A d, e : Where(d, q) = {} => InOrder(d, q) /\ Below(d, e, q) /\ Below(e, d, q)
  BY DEF InOrder, Below
<1>3. Flows(c \o t, << >>, u, q)
  <2>1. InOrder(c \o t, q) /\ Below(c \o t, u, q)
    BY JoinInOrder DEF Flows
  <2> QED
    BY <1>1, <1>2, <2>1 DEF Flows
<1>4. /\ Flows(c, << >>, u, q)
      /\ t = << >> => Flows(c, u, << >>, q)
      /\ \A d : Where(d, q) = {} => Flows(c, d, u, q)
  BY <1>1, <1>2 DEF Flows
<1>5. ASSUME NEW x \in Item, x.kind # q PROVE Flows(Append(c, x), t, u, q)
  BY <1>5, OneMore DEF Flows
<1> QED
  BY <1>3, <1>4, <1>5

(* One more input, with a number above all others.                         *)
LEMMA FlowsQueue ==
  ASSUME NEW c \in Seq(Item), NEW t \in Seq(Item), NEW u \in Seq(Item), NEW q, Flows(c, t, u, q),
         NEW n \in Nat, NEW x \in Item, x.kind = q, x.id = n + 1, q \in QueueNames,
         Numbered(c, n, QueueNames), Numbered(t, n, QueueNames), Numbered(u, n, QueueNames)
  PROVE  Flows(c, t, Append(u, x), q) /\ Numbered(Append(u, x), n + 1, QueueNames)
<1>1. \A d \in Seq(Item) : \A i \in DOMAIN d : d[i].id \in Nat
  <2> SUFFICES ASSUME NEW d \in Seq(Item), NEW i \in DOMAIN d PROVE d[i].id \in Nat
    OBVIOUS
  <2>1. d[i] \in Item
    OBVIOUS
  <2> QED
    BY <2>1 DEF Item, Ids
<1>2. ASSUME NEW d \in Seq(Item), Numbered(d, n, QueueNames)
      PROVE  \A i \in Where(d, q) : d[i].id < x.id
  BY <1>1, <1>2 DEF Where, Numbered
<1>3. Flows(c, t, Append(u, x), q)
  BY <1>2, OneMore DEF Flows
<1>4. Numbered(Append(u, x), n + 1, QueueNames)
  <2> SUFFICES ASSUME NEW i \in DOMAIN Append(u, x), Append(u, x)[i].kind \in QueueNames
               PROVE  Append(u, x)[i].id <= n + 1
    BY DEF Numbered
  <2>1. CASE Append(u, x)[i] = x
    BY <2>1
  <2>2. ASSUME NEW k \in DOMAIN u, Append(u, x)[i] = u[k] PROVE Append(u, x)[i].id <= n + 1
    BY <1>1, <2>2 DEF Numbered
  <2> QED
    BY <2>1, <2>2, OneMore
<1> QED
  BY <1>3, <1>4

LEMMA FlowDriverStep ==
  ASSUME SessionInv, TypeOK', FlowInv, NEW s \in Subs, DriverStep(s)
  PROVE  FlowInv'
<1>0. /\ TypeOK /\ SlotInv /\ HoldInv
      /\ held \in [Subs -> Seq(Item)] /\ queue \in [QueueNames -> Seq(Item)]
      /\ dpc \in [Subs -> DriverPC] /\ s # 0
  BY DEF SessionInv, TypeOK, SessionTypes, TaskTypes, Subs
<1>1. /\ conversation \in Seq(Item) /\ Taken \in Seq(Item) /\ Len(accepted) \in Nat
      /\ \A q \in QueueNames : queue[q] \in Seq(Item) /\ Flows(conversation, Taken, queue[q], q)
      /\ << >> \in Seq(Item)
  BY <1>0, FlowTyped DEF FlowInv
<1>2. accepted' = accepted
  <2>1. CASE LoopStep(s) \/ EndStep(s)
    BY <2>1 DEF LoopStep, EndStep, historyVars
  <2>2. CASE ~(LoopStep(s) \/ EndStep(s))
    BY <2>2, DriverCases DEF OpenStream, StreamMessage, StreamToolCall, StreamCompleted,
       KernelFinish, Interrupt, RecordToolResult, historyVars
  <2> QED
    BY <2>1, <2>2
<1>3. \A n, kinds : Numbered(<< >>, n, kinds)
  BY DEF Numbered
<1>4. dpc[s] \in InLoop => active = s /\ Taken = held[s]
  BY <1>0 DEF SlotInv, Taken
<1>5. CASE Appends(s)
  <2>1. active = s /\ active' = s /\ Taken = held[s] /\ UNCHANGED queue
        /\ conversation' = conversation \o Taken
    BY <1>0, <1>4, <1>5 DEF Appends, InLoop
  <2>2. Taken' = << >>
    BY <1>0, <1>5, <2>1 DEF Appends, Taken
  <2>3. \A q \in QueueNames : Flows(conversation', Taken', queue'[q], q)
    BY <1>1, <2>1, <2>2, FlowsMoves
  <2>4. Numbered(conversation \o Taken, Len(accepted), QueueNames)
    <3> SUFFICES ASSUME NEW i \in DOMAIN (conversation \o Taken),
                        (conversation \o Taken)[i].kind \in QueueNames
                 PROVE  (conversation \o Taken)[i].id <= Len(accepted)
      BY DEF Numbered
    <3>1. \/ i \in DOMAIN conversation /\ (conversation \o Taken)[i] = conversation[i]
          \/ \E n \in DOMAIN Taken : (conversation \o Taken)[i] = Taken[n]
      BY <1>1, OldOrInput
    <3> QED
      BY <3>1 DEF FlowInv, Numbered
  <2> QED
    BY <1>2, <1>3, <2>1, <2>2, <2>3, <2>4 DEF FlowInv
<1>6. CASE Drains(s)
  <2>1. /\ dpc[s] \in InLoop /\ held[s] = << >> /\ UNCHANGED <<active, conversation>>
    BY <1>0, <1>6 DEF Drains, HoldInv, EmptyHanded, InLoop, DriverPC
  <2>2. PICK r \in QueueNames : /\ queue' = [queue EXCEPT ![r] = << >>]
                                /\ held' = [held EXCEPT ![s] = queue[r]]
    BY <1>6 DEF Drains
  <2>3. Taken = << >> /\ Taken' = queue[r] /\ active = s
    BY <1>0, <1>4, <2>1, <2>2 DEF Taken
  <2>4. ASSUME NEW q \in QueueNames
        PROVE  /\ Flows(conversation, queue[r], queue'[q], q)
               /\ \A n \in DOMAIN queue'[q] : queue'[q][n].kind = q
               /\ Numbered(queue'[q], Len(accepted), QueueNames)
    <3>1. CASE q = r
      <4>1. queue'[q] = << >>
        BY <1>0, <2>2, <3>1
      <4>2. Flows(conversation, queue[q], << >>, q)
        BY <1>1, <2>3, FlowsMoves
      <4> QED
        BY <1>3, <3>1, <4>1, <4>2
    <3>2. CASE q # r
      <4>1. queue'[q] = queue[q]
        BY <1>0, <2>2, <3>2
      <4>2. Where(queue[r], q) = {}
        BY <3>2 DEF Where, FlowInv
      <4>3. Flows(conversation, queue[r], queue[q], q)
        BY <1>1, <4>2, FlowsMoves
      <4> QED
        BY <4>1, <4>3 DEF FlowInv
    <3> QED
      BY <3>1, <3>2
  <2> QED
    BY <1>2, <2>1, <2>2, <2>3, <2>4 DEF FlowInv
<1>7. CASE StreamMessage(s) \/ StreamToolCall(s) \/ RecordToolResult(s)
  <2>1. /\ UNCHANGED <<active, held, queue>>
        /\ \E k \in {"Message", "Call", "Result"} : \E n :
              conversation' = Append(conversation, [kind |-> k, id |-> n])
    BY <1>7 DEF StreamMessage, StreamToolCall, RecordToolResult, Record, driverVars
  <2>2. PICK k \in {"Message", "Call", "Result"} : \E n, x :
           x = [kind |-> k, id |-> n] /\ conversation' = Append(conversation, x)
    BY <2>1
  <2>7. PICK x : (\E n : x = [kind |-> k, id |-> n]) /\ conversation' = Append(conversation, x)
    BY <2>2
  <2>3. x \in Item /\ x.kind \notin QueueNames
    <3>1. x.kind = k
      BY <2>7
    <3>2. conversation' \in Seq(Item)
      BY DEF TypeOK, SessionTypes
    <3>3. Len(conversation) + 1 \in DOMAIN conversation'
          /\ conversation'[Len(conversation) + 1] = x
      BY <1>1, <2>7
    <3> QED
      BY <3>1, <3>2, <3>3 DEF QueueNames
  <2>4. Taken' = Taken
    BY <2>1 DEF Taken
  <2>5. \A q \in QueueNames : Flows(Append(conversation, x), Taken, queue[q], q)
    BY <1>1, <2>3, FlowsMoves
  <2>6. Numbered(Append(conversation, x), Len(accepted), QueueNames)
    BY <1>1, <2>3, OneMore DEF FlowInv, Numbered
  <2> QED
    BY <1>2, <2>1, <2>7, <2>4, <2>5, <2>6 DEF FlowInv
<1>8. CASE Moves(s)
  BY <1>2, <1>8 DEF Moves, FlowInv, Taken
<1>9. CASE Frees(s)
  <2>1. Taken' = << >> /\ UNCHANGED <<conversation, queue>>
    BY <1>9 DEF Frees, Taken
  <2>2. \A q \in QueueNames : Flows(conversation, << >>, queue[q], q)
    BY <1>1, FlowsMoves
  <2> QED
    BY <1>2, <1>3, <2>1, <2>2 DEF FlowInv
<1>10. Records(s) => StreamMessage(s) \/ StreamToolCall(s) \/ RecordToolResult(s)
  <2> SUFFICES ASSUME Records(s), Quiet(s) \/ Appends(s) PROVE FALSE
    BY <1>0, RoundEffects
  <2>1. Len(conversation') = Len(conversation) + 1
    BY <1>1 DEF Records
  <2>2. dpc[s] \in EmptyHanded /\ dpc' = dpc
    BY DEF Records
  <2>3. CASE Quiet(s)
    BY <1>1, <2>1, <2>3 DEF Quiet
  <2>4. CASE Appends(s)
    BY <1>0, <2>2, <2>4 DEF Appends, Goto, EmptyHanded
  <2> QED
    BY <2>3, <2>4
<1> QED
  BY <1>0, <1>5, <1>6, <1>7, <1>8, <1>9, <1>10, DriverEffects

LEMMA NumberedGrows ==
  ASSUME NEW d \in Seq(Item), NEW n \in Nat, NEW m \in Nat, n <= m, NEW kinds,
         Numbered(d, n, kinds)
  PROVE  Numbered(d, m, kinds)
<1> SUFFICES ASSUME NEW i \in DOMAIN d, d[i].kind \in kinds PROVE d[i].id <= m
  BY DEF Numbered
<1>1. d[i] \in Item
  OBVIOUS
<1>2. d[i].id \in Nat
  BY <1>1 DEF Item, Ids
<1> QED
  BY <1>2 DEF Numbered

LEMMA FlowHostStep ==
  ASSUME SessionInv, FlowInv, NEW h \in Hosts, HostStep(h)
  PROVE  FlowInv'
<1>0. /\ TypeOK /\ HistoryTypes
      /\ held \in [Subs -> Seq(Item)] /\ queue \in [QueueNames -> Seq(Item)]
      /\ accepted \in Seq(QueueNames \cup {"Primary", "Blank"})
  BY DEF SessionInv, TypeOK, SessionTypes, TaskTypes, HistoryTypes
<1>1. /\ conversation \in Seq(Item) /\ Taken \in Seq(Item) /\ Len(accepted) \in Nat
      /\ \A q \in QueueNames : queue[q] \in Seq(Item) /\ Flows(conversation, Taken, queue[q], q)
  BY <1>0, FlowTyped DEF FlowInv
<1>2. \A k \in QueueNames \cup {"Primary", "Blank"} :
         HandOver(k) => Len(accepted') = Len(accepted) + 1
  BY <1>0 DEF HandOver
<1>3. \A m \in Nat : Len(accepted) <= m =>
         /\ Numbered(conversation, m, QueueNames)
         /\ Numbered(Taken, m, QueueNames)
         /\ \A q \in QueueNames : Numbered(queue[q], m, QueueNames)
  BY <1>1, NumberedGrows DEF FlowInv
<1>4. CASE Run(h) \/ ContinueAcquire(h)
  <2>1. /\ active = 0 /\ active' = nextSub /\ nextSub \in Subs /\ nextSub # 0
        /\ UNCHANGED <<queue, conversation>>
    BY <1>0, <1>4 DEF Run, ContinueAcquire, AcquireTurn, TypeOK, SessionTypes, Subs
  <2>2. Len(accepted') \in Nat /\ Len(accepted) <= Len(accepted')
    BY <1>1, <1>2, <1>4 DEF Run, ContinueAcquire
  <2>3. \/ held' = [held EXCEPT ![nextSub] = << >>]
        \/ held' = [held EXCEPT ![nextSub] = << Fresh("Primary") >>]
    BY <1>4 DEF Run, ContinueAcquire, AcquireTurn
  <2>4. Taken' = << >> \/ Taken' = << Fresh("Primary") >>
    BY <1>0, <2>1, <2>3 DEF Taken
  <2>5. \A i \in DOMAIN Taken' : Taken'[i].kind \notin QueueNames
    BY <2>4 DEF Fresh, QueueNames
  <2>6. \A q \in QueueNames : Where(Taken', q) = {}
    BY <2>5 DEF Where
  <2>7. \A q \in QueueNames : Flows(conversation, Taken', queue[q], q)
    BY <1>1, <2>6, FlowsMoves
  <2>8. Numbered(Taken', Len(accepted'), QueueNames)
    BY <2>5 DEF Numbered
  <2> QED
    BY <1>3, <2>1, <2>2, <2>7, <2>8 DEF FlowInv
<1>5. ASSUME NEW r \in QueueNames, Enqueue(h, r) PROVE FlowInv'
  <2>1. UNCHANGED <<active, held, conversation>> /\ Taken' = Taken
    BY <1>5 DEF Enqueue, driverVars, Taken
  <2>2. Len(accepted') = Len(accepted) + 1
    BY <1>2, <1>5 DEF Enqueue
  <2>3. CASE UNCHANGED queue
    BY <1>1, <1>3, <2>1, <2>2, <2>3 DEF FlowInv
  <2>4. CASE HandOver(r) /\ queue' = [queue EXCEPT ![r] = Append(@, Fresh(r))]
    <3>1. PICK x \in Item : x = Fresh(r)
      BY <1>0, <2>4, FreshTyped DEF HandOver
    <3>2. x.kind = r /\ x.id = Len(accepted) + 1
      BY <3>1 DEF Fresh
    <3>3. queue'[r] = Append(queue[r], x) /\ \A q \in QueueNames \ {r} : queue'[q] = queue[q]
      BY <1>0, <2>4, <3>1
    <3>4. /\ Flows(conversation, Taken, Append(queue[r], x), r)
          /\ Numbered(Append(queue[r], x), Len(accepted) + 1, QueueNames)
      BY <1>1, <3>2, FlowsQueue DEF FlowInv
    <3>5. \A i \in DOMAIN Append(queue[r], x) : Append(queue[r], x)[i].kind = r
      <4>1. \A i \in DOMAIN Append(queue[r], x) : \/ Append(queue[r], x)[i] = x
                                                  \/ \E k \in DOMAIN queue[r] :
                                                        Append(queue[r], x)[i] = queue[r][k]
        BY <1>1, OneMore
      <4> QED
        BY <3>2, <4>1 DEF FlowInv
    <3>6. \A q \in QueueNames : Flows(conversation', Taken', queue'[q], q)
      BY <1>1, <2>1, <3>3, <3>4
    <3>7. \A q \in QueueNames : \A n \in DOMAIN queue'[q] : queue'[q][n].kind = q
      BY <3>3, <3>5 DEF FlowInv
    <3>8. \A q \in QueueNames : Numbered(queue'[q], Len(accepted'), QueueNames)
      <4>1. \A q \in QueueNames : Numbered(queue[q], Len(accepted) + 1, QueueNames)
        BY <1>1, <1>3
      <4> QED
        BY <2>2, <3>3, <3>4, <4>1
    <3>9. /\ Numbered(conversation', Len(accepted'), QueueNames)
          /\ Numbered(Taken', Len(accepted'), QueueNames)
      BY <1>1, <1>3, <2>1, <2>2
    <3> QED
      BY <3>6, <3>7, <3>8, <3>9 DEF FlowInv
  <2> QED
    BY <1>5, <2>3, <2>4 DEF Enqueue
<1>6. CASE ~(Run(h) \/ ContinueAcquire(h) \/ \E q \in QueueNames : Enqueue(h, q))
  <2>1. UNCHANGED <<active, held, conversation, queue, accepted>>
    BY <1>6 DEF HostStep, ContinueCheck, ContinueBusy, Launch, AbortCapture, AbortAnnounce,
       AbortCancel, sessionVars, driverVars, historyVars
  <2> QED
    BY <2>1 DEF FlowInv, Taken
<1> QED
  BY <1>4, <1>5, <1>6

LEMMA FlowInit == Init => FlowInv
<1> SUFFICES ASSUME Init PROVE FlowInv
  OBVIOUS
<1>1. /\ conversation = << >> /\ Taken = << >>
      /\ \A q \in QueueNames : queue[q] = << >>
  BY DEF Init, Taken
<1>2. \A q : Flows(<< >>, << >>, << >>, q)
  BY DEF Flows, InOrder, Below, Where
<1>3. \A n, kinds : Numbered(<< >>, n, kinds)
  BY DEF Numbered
<1> QED
  BY <1>1, <1>2, <1>3 DEF FlowInv

(* Steers and follow-ups reach the conversation in the order in which they *)
(* were handed over, each kind through its own queue.                      *)
THEOREM InputOrderCorrect == Spec => []InputInOrder
<1>1. SessionInv /\ FlowInv /\ [Next]_vars => FlowInv'
  <2> SUFFICES ASSUME SessionInv, FlowInv, [Next]_vars PROVE FlowInv'
    OBVIOUS
  <2>1. TypeOK /\ TypeOK'
    BY TypeStep DEF SessionInv
  <2>2. CASE UNCHANGED vars
    BY <2>2 DEF vars, sessionVars, driverVars, historyVars, FlowInv, Taken
  <2>3. CASE Quiescent
    BY <2>3 DEF Quiescent, vars, sessionVars, driverVars, historyVars, FlowInv, Taken
  <2> QED
    BY <2>1, <2>2, <2>3, FlowHostStep, FlowDriverStep DEF Next
<1>2. SessionInv /\ FlowInv => InputInOrder
  BY FlowMeans DEF SessionInv
<1> QED
  BY <1>1, <1>2, FlowInit, SessionHolds, PTL DEF Spec
====
