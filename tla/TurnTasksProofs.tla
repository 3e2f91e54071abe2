--------------------------- MODULE TurnTasksProofs ---------------------------
(***************************************************************************)
(* Theorems about TurnTasks for any number of turns, inputs and            *)
(* interrupts.                                                             *)
(***************************************************************************)
EXTENDS TurnTasks, SequenceTheorems, TLAPS

(***************************************************************************)
(* The inductive invariant.  Its core is WorkInv: a working task is the    *)
(* active one, or the one the loop is about to kill.  LoopInv supplies     *)
(* that nothing is active between take and spawn, because the loop is the  *)
(* only spawner; OverInv that a turn that left active_turn never returns.  *)
(***************************************************************************)
LoopInv ==
    /\ lpc \notin {"idle", "take"} => active = NoTurn
    /\ active <= spawned /\ victim <= spawned

FreshInv ==
    \A t \in Turns :
        spawned < t => tpc[t] = "none" /\ ~cancelled[t] /\ ~killed[t] /\ told[t] = {}

WorkInv ==
    \A t \in Turns :
        Working(t) => active = t \/ (victim = t /\ lpc \in {"cancel", "grace"})

OverInv ==
    \A t \in Turns :
        \/ cancelled[t] \/ killed[t] \/ told[t] # {}
        \/ tpc[t] \in {"complete", "done", "dead"}
        => active # t

TurnInv == LoopInv /\ FreshInv /\ WorkInv /\ OverInv

(* What the bounded counters need to stay in their types.                  *)
BoundInv ==
    /\ queued <= stops /\ asking <= stops /\ epoch <= sent
    /\ next.op \in {"Regular", "Other"} => spawned < MaxTurn
    /\ lpc = "spawn" => next.op \in {"Regular", "Other"}

-----------------------------------------------------------------------------
(***************************************************************************)
(* Type correctness.                                                       *)
(***************************************************************************)
LEMMA TasksInit == Init => TasksTypeOK /\ BoundInv /\ TurnInv
<1> SUFFICES ASSUME Init PROVE TasksTypeOK /\ BoundInv /\ TurnInv
  OBVIOUS
<1> USE TasksAssumption DEF Init
<1>1. LoopTypes
  <2>1. next \in Nexts
    BY DEF Nexts, Nothing, NoInput
  <2>2. accepting \in BOOLEAN
    OBVIOUS
  <2>3. active \in Turns \cup {NoTurn} /\ victim \in Turns \cup {NoTurn}
    OBVIOUS
  <2>4. /\ epoch \in 0 .. MaxInput /\ spawned \in 0 .. MaxTurn /\ sent \in 0 .. MaxInput
        /\ stops \in 0 .. MaxStop /\ queued \in 0 .. MaxStop /\ asking \in 0 .. MaxStop
    OBVIOUS
  <2>5. /\ reason \in {"Replaced", "Interrupted"}
        /\ lpc \in {"idle", "take", "cancel", "grace", "mark", "report", "spawn", "stopped"}
    OBVIOUS
  <2> QED
    BY <2>1, <2>2, <2>3, <2>4, <2>5 DEF LoopTypes
<1>2. TaskTypes
  BY DEF TaskTypes, TaskPC, EndEvents
<1>3. InputTypes
  BY DEF InputTypes
<1>4. BoundInv
  BY DEF BoundInv, Nothing
<1>5. TurnInv
  BY DEF TurnInv, LoopInv, FreshInv, WorkInv, OverInv, Working, NoTurn, Turns
<1> QED
  BY <1>1, <1>2, <1>3, <1>4, <1>5 DEF TasksTypeOK

(* The loop: what reads and writes its variables only.                     *)
LEMMA LoopTypesLoop ==
  ASSUME TasksTypeOK, BoundInv, Loop
  PROVE  LoopTypes'
<1> USE TasksAssumption DEF TasksTypeOK, LoopTypes, BoundInv, NoTurn
<1>1. Nothing \in Nexts /\ [op |-> "Stop", item |-> NoInput] \in Nexts
      /\ [op |-> "Other", item |-> NoInput] \in Nexts
      /\ [op |-> "Regular", item |-> NoInput] \in Nexts
  BY DEF Nothing, Nexts
<1>2. \A i \in Inputs : [op |-> "Regular", item |-> i] \in Nexts
  BY DEF Nexts
<1>3. CASE Inject
  BY <1>3 DEF Inject, loopVars, askVars
<1>4. CASE InputTurn
  <2>1. sent' \in Inputs
    BY <1>4 DEF InputTurn, Inputs
  <2> QED
    BY <1>2, <1>4, <2>1 DEF InputTurn, AbortThen, turnVars, askVars
<1>5. CASE OtherTurn
  BY <1>1, <1>5 DEF OtherTurn, AbortThen, turnVars, userVars, askVars
<1>6. CASE ContinueGoal
  BY <1>1, <1>6 DEF ContinueGoal, turnVars, userVars, askVars
<1>7. CASE Interrupt
  BY <1>1, <1>7 DEF Interrupt, AbortThen, turnVars, loopVars
<1>8. CASE Shutdown
  BY <1>1, <1>8 DEF Shutdown, AbortThen, turnVars, userVars, askVars
<1>9. CASE Take
  BY <1>9 DEF Take, ClearActive, AbortOver, userVars, askVars
<1>10. CASE Cancel
  BY <1>10 DEF Cancel, turnVars, userVars, askVars
<1>11. CASE Kill
  BY <1>11 DEF Kill, turnVars, userVars, askVars
<1>12. CASE Mark
  BY <1>12 DEF Mark, turnVars, userVars, askVars
<1>13. CASE Report
  BY <1>13 DEF Report, Settle, AbortOver, turnVars
<1>14. CASE Spawn
  <2>1. next.op \in {"Regular", "Other"} /\ spawned < MaxTurn
    BY <1>14 DEF Spawn
  <2>2. spawned + 1 \in Turns /\ spawned + 1 \in 0 .. MaxTurn
    BY <2>1 DEF Turns
  <2> QED
    BY <1>1, <1>14, <2>2 DEF Spawn, askVars
<1> QED
  BY <1>3, <1>4, <1>5, <1>6, <1>7, <1>8, <1>9, <1>10, <1>11, <1>12, <1>13, <1>14
     DEF Loop, Abort

LEMMA BoundLoop ==
  ASSUME TasksTypeOK, BoundInv, Loop
  PROVE  BoundInv'
<1> USE TasksAssumption DEF TasksTypeOK, LoopTypes, BoundInv
<1>3. CASE Inject
  BY <1>3 DEF Inject, loopVars, askVars
<1>4. CASE InputTurn
  BY <1>4 DEF InputTurn, AbortThen, turnVars, askVars
<1>5. CASE OtherTurn
  BY <1>5 DEF OtherTurn, AbortThen, turnVars, userVars, askVars
<1>6. CASE ContinueGoal
  BY <1>6 DEF ContinueGoal, turnVars, userVars, askVars
<1>7. CASE Interrupt
  BY <1>7 DEF Interrupt, AbortThen, turnVars, loopVars, Nothing
<1>8. CASE Shutdown
  BY <1>8 DEF Shutdown, AbortThen, turnVars, userVars, askVars
<1>0. next.op \in {"None", "Stop", "Other", "Regular"}
  BY DEF Nexts
<1>9. CASE Take
  BY <1>0, <1>9 DEF Take, ClearActive, AbortOver, userVars, askVars
<1>10. CASE Cancel
  BY <1>10 DEF Cancel, turnVars, userVars, askVars
<1>11. CASE Kill
  BY <1>11 DEF Kill, turnVars, userVars, askVars
<1>12. CASE Mark
  BY <1>12 DEF Mark, turnVars, userVars, askVars
<1>13. CASE Report
  BY <1>0, <1>13 DEF Report, Settle, AbortOver, turnVars
<1>14. CASE Spawn
  BY <1>14 DEF Spawn, askVars, Nothing
<1> QED
  BY <1>3, <1>4, <1>5, <1>6, <1>7, <1>8, <1>9, <1>10, <1>11, <1>12, <1>13, <1>14
     DEF Loop, Abort

LEMMA TaskTypesLoop ==
  ASSUME TasksTypeOK, BoundInv, Loop
  PROVE  TaskTypes'
<1> USE DEF TasksTypeOK, TaskTypes
<1>1. CASE Inject \/ InputTurn \/ OtherTurn \/ ContinueGoal \/ Interrupt \/ Shutdown
           \/ Take \/ Mark
  BY <1>1 DEF Inject, InputTurn, OtherTurn, ContinueGoal, Interrupt, Shutdown, Take,
              Mark, taskVars, endVars
<1>2. CASE Cancel
  BY <1>2 DEF Cancel, taskVars
<1>3. CASE Kill
  BY <1>3 DEF Kill, taskVars
<1>4. CASE Report
  BY <1>4 DEF Report, Settle, taskVars, EndEvents
<1>5. CASE Spawn
  <2>1. tpc' \in [Turns -> TaskPC]
    BY <1>5 DEF Spawn, TaskPC
  <2>2. kind' \in [Turns -> {"Regular", "Other"}]
    BY <1>5 DEF Spawn, BoundInv
  <2>3. input' \in [Turns -> Inputs \cup {NoInput}]
    BY <1>5 DEF Spawn, LoopTypes, Nexts
  <2> QED
    BY <1>5, <2>1, <2>2, <2>3 DEF Spawn, endVars
<1> QED
  BY <1>1, <1>2, <1>3, <1>4, <1>5 DEF Loop, Abort

LEMMA InputTypesLoop ==
  ASSUME TasksTypeOK, BoundInv, Loop
  PROVE  InputTypes'
<1> USE TasksAssumption DEF TasksTypeOK, InputTypes
<1>1. CASE InputTurn \/ OtherTurn \/ ContinueGoal \/ Interrupt \/ Shutdown
           \/ Cancel \/ Kill \/ Report
  BY <1>1 DEF InputTurn, OtherTurn, ContinueGoal, Interrupt, Shutdown, Cancel, Kill,
              Report, Settle, turnVars, bookVars, userVars
<1>2. CASE Inject
  <2>1. sent' \in Inputs
    BY <1>2 DEF Inject, LoopTypes, Inputs
  <2>2. pending' \in Seq(Inputs)
    BY <1>2, <2>1 DEF Inject
  <2>3. home' \in [Inputs -> Turns \cup {NoTurn}]
    BY <1>2 DEF Inject, LoopTypes
  <2> QED
    BY <1>2, <2>2, <2>3 DEF Inject, bookVars
<1>3. CASE Take
  BY <1>3 DEF Take, ClearActive, bookVars, userVars
<1>4. CASE Mark
  <2>1. history' \in Seq(Inputs \cup {Marker})
    BY <1>4 DEF Mark
  <2> QED
    BY <1>4, <2>1 DEF Mark, turnVars, userVars
<1>5. CASE Spawn
  <2>1. next.op \in {"Regular", "Other"} /\ spawned < MaxTurn
    BY <1>5 DEF Spawn, BoundInv
  <2>2. spawned + 1 \in Turns
    BY <2>1 DEF LoopTypes, Turns
  <2>3. home' \in [Inputs -> Turns \cup {NoTurn}]
    <3>1. home' = home \/ home' = [i \in Inputs |-> IF i = next.item THEN spawned + 1 ELSE home[i]]
      BY <1>5 DEF Spawn
    <3> QED
      BY <2>2, <3>1
  <2>4. pending' \in Seq(Inputs)
    <3>1. pending' = << >> \/ pending' = pending
      BY <1>5 DEF Spawn
    <3>2. << >> \in Seq(Inputs)
      BY EmptySeq
    <3> QED
      BY <3>1, <3>2
  <2> QED
    BY <1>5, <2>3, <2>4 DEF Spawn, bookVars
<1> QED
  BY <1>1, <1>2, <1>3, <1>4, <1>5 DEF Loop, Abort

(* The tasks: the loop's variables change only in the shared turn.         *)
LEMMA LoopTypesTask ==
  ASSUME TasksTypeOK, BoundInv, NEW t \in Turns, Task(t)
  PROVE  LoopTypes' /\ BoundInv'
<1>1. /\ UNCHANGED <<spawned, lpc, victim, reason, next, sent, stops, queued, asking, epoch>>
      /\ active' \in {active, NoTurn} /\ accepting' \in {accepting, FALSE}
  BY DEF Task, Record, Drain, AppendHeld, MendAndRetry, Observe, Fail, Completed,
         LateCheck, ToolsDone, Finish, CloseWindow, Work, Ended, RemoveTask, Complete,
         Die, TaskFrame, turnVars, loopVars, userVars, askVars, ClearActive
<1> QED
  BY <1>1 DEF TasksTypeOK, LoopTypes, BoundInv

(* A step of a task moves that task at most.                               *)
LEMMA TaskGoes ==
  ASSUME NEW t \in Turns, Task(t)
  PROVE  tpc' = tpc \/ \E l \in TaskPC : To(t, l)
<1>1. CASE Record(t) \/ Drain(t) \/ AppendHeld(t) \/ MendAndRetry(t) \/ Observe(t)
  BY <1>1 DEF Record, Drain, AppendHeld, MendAndRetry, Observe, To, TaskPC
<1>2. CASE Fail(t) \/ Completed(t) \/ LateCheck(t) \/ ToolsDone(t) \/ Finish(t)
  BY <1>2 DEF Fail, Completed, LateCheck, ToolsDone, Finish, To, TaskPC
<1>3. CASE CloseWindow(t) \/ Work(t) \/ Ended(t) \/ RemoveTask(t) \/ Complete(t) \/ Die(t)
  BY <1>3 DEF CloseWindow, Work, Answered, Ended, RemoveTask, Complete, Die, To, TaskPC
<1> QED
  BY <1>1, <1>2, <1>3 DEF Task

LEMMA TaskTypesTask ==
  ASSUME TasksTypeOK, NEW t \in Turns, Task(t)
  PROVE  TaskTypes'
<1> USE DEF TasksTypeOK, TaskTypes
<1>1. tpc' \in [Turns -> TaskPC]
  BY TaskGoes DEF To
<1>2. UNCHANGED <<kind, input, cancelled, killed>>
  BY DEF Task, Record, Drain, AppendHeld, MendAndRetry, Observe, Fail, Completed,
         LateCheck, ToolsDone, Finish, CloseWindow, Work, Ended, RemoveTask, Complete,
         Die, TaskFrame
<1>3. seen' \in [Turns -> 0 .. MaxInput] /\ late' \in [Turns -> 0 .. MaxInput]
  <2>1. 0 \in 0 .. MaxInput /\ epoch \in 0 .. MaxInput
    BY TasksAssumption DEF LoopTypes
  <2>2. seen' \in [Turns -> 0 .. MaxInput]
    BY <2>1 DEF Task, Record, Drain, AppendHeld, MendAndRetry, RequestOver, Observe, Fail,
           Completed, LateCheck, ToolsDone, Finish, CloseWindow, Work, Ended, RemoveTask,
           Complete, Die
  <2>3. late' \in [Turns -> 0 .. MaxInput]
    BY <2>1 DEF Task, Record, Drain, AppendHeld, MendAndRetry, Observe, Fail,
           Completed, LateCheck, ToolsDone, Finish, CloseWindow, Work, Ended, RemoveTask,
           Complete, Die
  <2> QED
    BY <2>2, <2>3
<1>4. follow' \in [Turns -> BOOLEAN]
  <2>1. CASE Completed(t)
    <3>1. PICK tool \in BOOLEAN : follow' = [follow EXCEPT ![t] = tool \/ pending # << >>]
      BY <2>1 DEF Completed
    <3>2. (tool \/ pending # << >>) \in BOOLEAN
      OBVIOUS
    <3> QED
      BY <3>1, <3>2
  <2>2. CASE LateCheck(t)
    <3>1. (follow[t] \/ (epoch # late[t] /\ pending # << >>)) \in BOOLEAN
      OBVIOUS
    <3> QED
      BY <2>2, <3>1 DEF LateCheck
  <2>3. CASE ~Completed(t) /\ ~LateCheck(t)
    <3>1. follow' = follow \/ follow' = [follow EXCEPT ![t] = FALSE]
      BY <2>3 DEF Task, Record, Drain, AppendHeld, MendAndRetry, RequestOver, Observe,
             Fail, ToolsDone, Finish, CloseWindow, Work, Ended, RemoveTask, Complete, Die
    <3> QED
      BY <3>1
  <2> QED
    BY <2>1, <2>2, <2>3
<1>5. outcome' \in [Turns -> {"running", "clean", "cut"}]
  BY DEF Task, Record, Drain, AppendHeld, MendAndRetry, Observe, Fail, Completed,
         LateCheck, ToolsDone, Finish, CloseWindow, Answered, Work, Ended, RemoveTask,
         Complete, Die
<1>6. told' \in [Turns -> SUBSET EndEvents]
  <2>1. told' = told \/ told' = [told EXCEPT ![t] = @ \cup {"TurnComplete"}]
    BY DEF Task, Record, Drain, AppendHeld, MendAndRetry, Observe, Fail, Completed,
           LateCheck, ToolsDone, Finish, CloseWindow, Work, Ended, RemoveTask,
           Complete, Die
  <2> QED
    BY <2>1 DEF EndEvents
<1> QED
  BY <1>1, <1>2, <1>3, <1>4, <1>5, <1>6

LEMMA InputTypesTask ==
  ASSUME TasksTypeOK, NEW t \in Turns, Task(t)
  PROVE  InputTypes'
<1> USE DEF TasksTypeOK, InputTypes
<1>1. home' = home
  BY DEF Task, Record, Drain, AppendHeld, MendAndRetry, Observe, Fail, Completed,
         LateCheck, ToolsDone, Finish, CloseWindow, Work, Ended, RemoveTask, Complete,
         Die, TaskFrame, userVars
<1>2. CASE Record(t)
  <2>1. input[t] \in Inputs \cup {NoInput}
    BY DEF TaskTypes
  <2>2. history' \in Seq(Inputs \cup {Marker})
    BY <1>2, <2>1 DEF Record
  <2>3. strays' \subseteq Inputs
    BY <1>2, <2>1 DEF Record, Handle
  <2> QED
    BY <1>1, <1>2, <2>2, <2>3 DEF Record, turnVars
<1>3. CASE Drain(t)
  <2>1. Range(pending) \subseteq Inputs
    BY DEF Range
  <2>2. held' \in [Turns -> Seq(Inputs)] /\ pending' \in Seq(Inputs)
    BY <1>3 DEF Drain
  <2> QED
    BY <1>1, <1>3, <2>1, <2>2 DEF Drain, Handle
<1>4. CASE AppendHeld(t)
  <2>1. held[t] \in Seq(Inputs) /\ held[t] \in Seq(Inputs \cup {Marker})
    OBVIOUS
  <2>2. Range(held[t]) \subseteq Inputs
    BY <2>1 DEF Range
  <2>3. history' \in Seq(Inputs \cup {Marker})
    BY <1>4, <2>1 DEF AppendHeld
  <2>4. held' \in [Turns -> Seq(Inputs)]
    BY <1>4 DEF AppendHeld
  <2> QED
    BY <1>1, <1>4, <2>2, <2>3, <2>4 DEF AppendHeld, Handle, turnVars
<1>5. CASE RemoveTask(t)
  <2>1. pending' = pending \/ pending' = << >>
    BY <1>5 DEF RemoveTask, ClearActive
  <2>2. pending' \in Seq(Inputs)
    <3>1. << >> \in Seq(Inputs)
      BY EmptySeq
    <3> QED
      BY <2>1, <3>1
  <2> QED
    BY <1>1, <1>5, <2>2 DEF RemoveTask, bookVars
<1>6. CASE Die(t)
  BY <1>1, <1>6 DEF Die, turnVars, bookVars
<1>7. CASE ~(Record(t) \/ Drain(t) \/ AppendHeld(t) \/ RemoveTask(t) \/ Die(t))
  BY <1>1, <1>7 DEF Task, MendAndRetry, Observe, Fail, Completed, LateCheck, ToolsDone,
         Finish, CloseWindow, Work, Ended, Complete, turnVars, bookVars
<1> QED
  BY <1>2, <1>3, <1>4, <1>5, <1>6, <1>7

(* The app server counts its request in; no other variable moves.          *)
LEMMA AskTypes ==
  ASSUME TasksTypeOK, BoundInv, AskInterrupt
  PROVE  TasksTypeOK' /\ BoundInv'
<1> USE TasksAssumption
<1>1. LoopTypes' /\ BoundInv'
  BY DEF TasksTypeOK, LoopTypes, BoundInv, AskInterrupt, turnVars, loopVars
<1>2. TaskTypes'
  BY DEF TasksTypeOK, TaskTypes, AskInterrupt, taskVars, endVars
<1>3. InputTypes'
  BY DEF TasksTypeOK, InputTypes, AskInterrupt, turnVars, bookVars
<1> QED
  BY <1>1, <1>2, <1>3 DEF TasksTypeOK

LEMMA TypesStep == TasksTypeOK /\ BoundInv /\ [Next]_vars => TasksTypeOK' /\ BoundInv'
<1> SUFFICES ASSUME TasksTypeOK, BoundInv, [Next]_vars
             PROVE  TasksTypeOK' /\ BoundInv'
  OBVIOUS
<1>1. CASE Loop
  BY <1>1, LoopTypesLoop, BoundLoop, TaskTypesLoop, InputTypesLoop DEF TasksTypeOK
<1>2. CASE AskInterrupt
  BY <1>2, AskTypes
<1>3. ASSUME NEW t \in Turns, Task(t) PROVE TasksTypeOK' /\ BoundInv'
  BY <1>3, LoopTypesTask, TaskTypesTask, InputTypesTask DEF TasksTypeOK
<1>4. CASE UNCHANGED vars
  <2>1. LoopTypes' /\ BoundInv'
    BY <1>4 DEF TasksTypeOK, LoopTypes, BoundInv, vars, turnVars, loopVars, userVars, askVars
  <2>2. TaskTypes'
    BY <1>4 DEF TasksTypeOK, TaskTypes, vars, taskVars, endVars
  <2>3. InputTypes'
    BY <1>4 DEF TasksTypeOK, InputTypes, vars, turnVars, bookVars, userVars
  <2> QED
    BY <2>1, <2>2, <2>3 DEF TasksTypeOK
<1> QED
  BY <1>1, <1>2, <1>3, <1>4 DEF Next

(* Every reachable state is well typed: no counter of the session leaves   *)
(* its range and no turn is spawned past the last.                         *)
THEOREM TasksTypeCorrect == Spec => []TasksTypeOK
<1>1. Init => TasksTypeOK /\ BoundInv
  BY TasksInit
<1> QED
  BY <1>1, TypesStep, PTL DEF Spec

-----------------------------------------------------------------------------
(***************************************************************************)
(* The step of TurnInv.                                                    *)
(***************************************************************************)

(* A step of t in its own locals: it stays a task that works, or it ends   *)
(* out of active_turn.                                                     *)
LEMMA LocalStep ==
  ASSUME TasksTypeOK, TurnInv, NEW t \in Turns, NEW l \in TaskPC \ {"none"},
         UNCHANGED <<active, spawned, lpc, victim, cancelled, killed, told>>,
         tpc' = [tpc EXCEPT ![t] = l],
         tpc[t] \notin {"none", "complete", "done", "dead"},
         l \in {"complete", "done", "dead"} => active # t
  PROVE  TurnInv'
<1> USE DEF TurnInv, TasksTypeOK, LoopTypes, TaskTypes
<1>1. LoopInv'
  BY DEF LoopInv
<1>2. FreshInv'
  BY DEF FreshInv
<1>3. \A u \in Turns : Working(u)' => Working(u)
  BY DEF Working
<1>4. WorkInv'
  BY <1>3 DEF WorkInv
<1>5. OverInv'
  BY DEF OverInv
<1> QED
  BY <1>1, <1>2, <1>4, <1>5

LEMMA TurnInvTask ==
  ASSUME TasksTypeOK, TurnInv, NEW t \in Turns, Task(t)
  PROVE  TurnInv'
<1> USE DEF TasksTypeOK, LoopTypes, TaskTypes
<1>0. UNCHANGED <<spawned, lpc, victim, cancelled, killed>>
  BY DEF Task, Record, Drain, AppendHeld, MendAndRetry, Observe, Fail, Completed,
         LateCheck, ToolsDone, Finish, CloseWindow, Work, Ended, RemoveTask, Complete,
         Die, TaskFrame, loopVars
<1>1. CASE Record(t) \/ Drain(t) \/ AppendHeld(t) \/ MendAndRetry(t) \/ Observe(t)
           \/ Fail(t) \/ Completed(t) \/ LateCheck(t) \/ ToolsDone(t) \/ Finish(t)
           \/ CloseWindow(t) \/ Work(t)
  <2>1. UNCHANGED <<active, told>>
    BY <1>1 DEF Record, Drain, AppendHeld, MendAndRetry, Observe, Fail, Completed,
           LateCheck, ToolsDone, Finish, CloseWindow, Work, turnVars
  <2>2. tpc[t] \notin {"none", "complete", "done", "dead"}
    BY <1>1 DEF Record, Drain, AppendHeld, MendAndRetry, Observe, Fail, Completed,
           LateCheck, ToolsDone, Finish, CloseWindow, Work, At
  <2>3. \E l \in TaskPC \ {"none", "complete", "done", "dead"} :
           tpc' = [tpc EXCEPT ![t] = l]
    BY <1>1 DEF Record, Drain, AppendHeld, MendAndRetry, Observe, Fail, Completed,
           LateCheck, ToolsDone, Finish, CloseWindow, Answered, Work, To, TaskPC
  <2> QED
    BY <1>0, <2>1, <2>2, <2>3, LocalStep
<1>2. CASE Ended(t)
  <2>1. cancelled[t] => active # t
    BY DEF TurnInv, OverInv
  <2>2. CASE cancelled[t]
    BY <1>0, <1>2, <2>1, <2>2, LocalStep DEF Ended, At, To, turnVars, TaskPC
  <2>3. CASE ~cancelled[t]
    BY <1>0, <1>2, <2>3, LocalStep DEF Ended, At, To, turnVars, TaskPC
  <2> QED
    BY <2>2, <2>3
<1>3. CASE RemoveTask(t)
  <2>1. /\ tpc[t] = "remove" /\ tpc' = [tpc EXCEPT ![t] = "complete"] /\ told' = told
        /\ active' = IF active = t THEN NoTurn ELSE active
    BY <1>3 DEF RemoveTask, At, To, ClearActive
  <2>2. LoopInv'
    BY <1>0, <2>1 DEF TurnInv, LoopInv, NoTurn
  <2>3. FreshInv'
    BY <1>0, <2>1 DEF TurnInv, FreshInv
  <2>4. \A u \in Turns : Working(u)' => u # t /\ Working(u)
    BY <1>0, <2>1 DEF Working
  <2>5. WorkInv'
    BY <1>0, <2>1, <2>4 DEF TurnInv, WorkInv
  <2>6. OverInv'
    BY <1>0, <2>1 DEF TurnInv, OverInv, NoTurn, Turns
  <2> QED
    BY <2>2, <2>3, <2>5, <2>6 DEF TurnInv
<1>4. CASE Complete(t) \/ Die(t)
  <2>1. \/ /\ tpc[t] = "complete" /\ tpc' = [tpc EXCEPT ![t] = "done"]
           /\ told' = [told EXCEPT ![t] = @ \cup {"TurnComplete"}]
        \/ /\ killed[t] /\ tpc[t] # "none" /\ tpc' = [tpc EXCEPT ![t] = "dead"]
           /\ told' = told
    BY <1>4 DEF Complete, Die, At, To, InFlight
  <2>2. active' = active
    BY <1>4 DEF Complete, Die, turnVars
  <2>3. active # t
    BY <2>1 DEF TurnInv, OverInv
  <2>4. LoopInv'
    BY <1>0, <2>2 DEF TurnInv, LoopInv
  <2>5. FreshInv'
    BY <1>0, <2>1 DEF TurnInv, FreshInv
  <2>6. \A u \in Turns : Working(u)' => Working(u)
    BY <1>0, <2>1 DEF Working
  <2>7. WorkInv'
    BY <1>0, <2>2, <2>6 DEF TurnInv, WorkInv
  <2>8. OverInv'
    BY <1>0, <2>1, <2>2, <2>3 DEF TurnInv, OverInv
  <2> QED
    BY <2>4, <2>5, <2>7, <2>8 DEF TurnInv
<1> QED
  BY <1>1, <1>2, <1>3, <1>4 DEF Task

(* A step of the loop that lets the turns be.                              *)
LEMMA LoopRests ==
  ASSUME TasksTypeOK, TurnInv,
         UNCHANGED <<active, spawned, victim, tpc, cancelled, killed, told>>,
         \/ lpc' = lpc
         \/ lpc \notin {"cancel", "grace"} /\ (lpc' \in {"idle", "take"} \/ active = NoTurn)
         \/ lpc = "cancel" /\ lpc' = "grace"
  PROVE  TurnInv'
<1> USE DEF TurnInv
<1>1. LoopInv'
  BY DEF LoopInv
<1>2. FreshInv' /\ OverInv'
  BY DEF FreshInv, OverInv
<1>3. WorkInv'
  BY DEF WorkInv, Working
<1> QED
  BY <1>1, <1>2, <1>3

LEMMA TurnInvLoop ==
  ASSUME TasksTypeOK, BoundInv, TurnInv, Loop
  PROVE  TurnInv'
<1> USE DEF TasksTypeOK, LoopTypes, TaskTypes
<1>1. CASE Inject \/ InputTurn \/ OtherTurn \/ ContinueGoal \/ Interrupt \/ Shutdown \/ Mark
  <2>1. UNCHANGED <<active, spawned, victim, tpc, cancelled, killed, told>>
    BY <1>1 DEF Inject, InputTurn, OtherTurn, ContinueGoal, Interrupt, Shutdown, Mark,
           AbortThen, turnVars, loopVars, endVars
  <2>2. \/ lpc' = lpc
        \/ lpc = "idle" /\ (lpc' \in {"idle", "take"} \/ active = NoTurn)
        \/ lpc = "mark"
    BY <1>1 DEF Inject, InputTurn, OtherTurn, ContinueGoal, Interrupt, Shutdown, Mark,
           AbortThen, loopVars
  <2>3. lpc = "mark" => active = NoTurn
    BY DEF TurnInv, LoopInv
  <2> QED
    BY <2>1, <2>2, <2>3, LoopRests
<1>2. CASE Take
  <2>1. /\ lpc = "take" /\ victim' = active /\ active' = NoTurn
        /\ active # NoTurn => lpc' = "cancel"
        /\ UNCHANGED <<spawned, tpc, cancelled, killed, told>>
    BY <1>2 DEF Take, ClearActive, endVars
  <2>2. LoopInv'
    BY <2>1 DEF TurnInv, LoopInv, NoTurn
  <2>3. FreshInv'
    BY <2>1 DEF TurnInv, FreshInv
  <2>4. WorkInv'
    BY <2>1 DEF TurnInv, WorkInv, Working, NoTurn, Turns
  <2>5. OverInv'
    BY <2>1 DEF TurnInv, OverInv, NoTurn, Turns
  <2> QED
    BY <2>2, <2>3, <2>4, <2>5 DEF TurnInv
<1>3. CASE Cancel \/ Kill
  <2>1. /\ \/ lpc = "cancel" /\ lpc' = "grace" /\ killed' = killed
              /\ cancelled' = [cancelled EXCEPT ![victim] = TRUE]
           \/ lpc = "grace" /\ lpc' \in {"mark", "report"} /\ cancelled' = cancelled
              /\ killed' = [killed EXCEPT ![victim] = TRUE]
        /\ UNCHANGED <<active, spawned, victim, tpc, told>>
    BY <1>3 DEF Cancel, Kill, turnVars
  <2>2. active = NoTurn
    BY <2>1 DEF TurnInv, LoopInv
  <2>3. LoopInv'
    BY <2>1, <2>2 DEF TurnInv, LoopInv
  <2>4. FreshInv'
    <3>1. \A t \in Turns : spawned < t => t # victim
      BY TasksAssumption DEF TurnInv, LoopInv, NoTurn, Turns
    <3> QED
      BY <2>1, <3>1 DEF TurnInv, FreshInv
  <2>5. WorkInv'
    BY <2>1, <2>2 DEF TurnInv, WorkInv, Working, NoTurn, Turns
  <2>6. OverInv'
    BY <2>1, <2>2 DEF OverInv, NoTurn, Turns
  <2> QED
    BY <2>3, <2>4, <2>5, <2>6 DEF TurnInv
<1>4. CASE Report
  <2>1. /\ lpc = "report" /\ victim' = NoTurn
        /\ told' = [told EXCEPT ![victim] = @ \cup {"TurnAborted"}]
        /\ UNCHANGED <<active, spawned, tpc, cancelled, killed>>
    BY <1>4 DEF Report, Settle, turnVars
  <2>2. active = NoTurn
    BY <2>1 DEF TurnInv, LoopInv
  <2>3. LoopInv'
    BY <2>1, <2>2 DEF TurnInv, LoopInv, NoTurn
  <2>4. FreshInv'
    <3>1. \A t \in Turns : spawned < t => t # victim
      BY TasksAssumption DEF TurnInv, LoopInv, NoTurn, Turns
    <3> QED
      BY <2>1, <3>1 DEF TurnInv, FreshInv
  <2>5. WorkInv'
    BY <2>1, <2>2 DEF TurnInv, WorkInv, Working, NoTurn, Turns
  <2>6. OverInv'
    BY <2>1, <2>2 DEF OverInv, NoTurn, Turns
  <2> QED
    BY <2>3, <2>4, <2>5, <2>6 DEF TurnInv
<1>5. CASE Spawn
  <2>1. active = NoTurn /\ spawned < MaxTurn
    BY <1>5 DEF Spawn, TurnInv, LoopInv, BoundInv
  <2>2. PICK l \in {"record", "work"} : tpc' = [tpc EXCEPT ![spawned + 1] = l]
    BY <1>5, <2>1 DEF Spawn
  <2>3. /\ spawned' = spawned + 1 /\ active' = spawned + 1 /\ lpc = "spawn" /\ lpc' = "idle"
        /\ UNCHANGED <<victim, cancelled, killed, told>>
    BY <1>5, <2>1 DEF Spawn, endVars
  <2>4. \A t \in Turns : ~Working(t)
    BY <2>1, <2>3 DEF TurnInv, WorkInv, NoTurn, Turns
  <2>5. LoopInv'
    BY <2>3, TasksAssumption DEF TurnInv, LoopInv, NoTurn, Turns
  <2>6. FreshInv'
    <3>1. \A t \in Turns : spawned + 1 < t => t # spawned + 1 /\ spawned < t
      BY TasksAssumption DEF Turns
    <3> QED
      BY <2>2, <2>3, <3>1 DEF TurnInv, FreshInv
  <2>7. WorkInv'
    BY <2>2, <2>3, <2>4 DEF WorkInv, Working
  <2>8. OverInv'
    BY <2>2, <2>3, TasksAssumption DEF TurnInv, OverInv, FreshInv, Turns
  <2> QED
    BY <2>5, <2>6, <2>7, <2>8 DEF TurnInv
<1> QED
  BY <1>1, <1>2, <1>3, <1>4, <1>5 DEF Loop, Abort

THEOREM TurnInvariant == Spec => [](TasksTypeOK /\ BoundInv /\ TurnInv)
<1>1. TasksTypeOK /\ BoundInv /\ TurnInv /\ [Next]_vars => TurnInv'
  <2> SUFFICES ASSUME TasksTypeOK, BoundInv, TurnInv, [Next]_vars PROVE TurnInv'
    OBVIOUS
  <2>1. CASE Loop
    BY <2>1, TurnInvLoop
  <2>2. CASE AskInterrupt
    BY <2>2, LoopRests DEF AskInterrupt, turnVars, loopVars, endVars
  <2>3. ASSUME NEW t \in Turns, Task(t) PROVE TurnInv'
    BY <2>3, TurnInvTask
  <2>4. CASE UNCHANGED vars
    BY <2>4, LoopRests DEF vars, turnVars, loopVars, endVars
  <2> QED
    BY <2>1, <2>2, <2>3, <2>4 DEF Next
<1> QED
  BY <1>1, TasksInit, TypesStep, PTL DEF Spec

(* "A session has at most 1 running task at a time" (codex.rs): for any    *)
(* number of turns and any schedule, two tasks never work at once.         *)
THEOREM OneTaskCorrect == Spec => []OneTask
<1>1. TasksTypeOK /\ TurnInv => OneTask
  BY DEF TurnInv, LoopInv, WorkInv, OneTask, TasksTypeOK, LoopTypes, NoTurn, Turns
<1> QED
  BY <1>1, TurnInvariant, PTL

(* The turn that spawn_task starts after its abort is never refused, so    *)
(* the refusal that spawn_task ignores loses no input.                     *)
THEOREM SpawnCorrect == Spec => []SpawnNeverRefused
<1>1. TurnInv => SpawnNeverRefused
  BY DEF TurnInv, LoopInv, SpawnNeverRefused
<1> QED
  BY <1>1, TurnInvariant, PTL

(* A turn whose TurnComplete or TurnAborted was sent is not in             *)
(* active_turn, and takes no more input.                                   *)
THEOREM ReportedCorrect == Spec => []ReportedTurnIsOver
<1>1. TurnInv => ReportedTurnIsOver
  BY DEF TurnInv, OverInv, ReportedTurnIsOver
<1> QED
  BY <1>1, TurnInvariant, PTL

(* After shutdown no task works on the session any more.                   *)
THEOREM StoppedCorrect == Spec => []StoppedIsQuiet
<1>1. TurnInv => StoppedIsQuiet
  BY DEF TurnInv, LoopInv, WorkInv, StoppedIsQuiet, NoTurn, Turns
<1> QED
  BY <1>1, TurnInvariant, PTL
-----------------------------------------------------------------------------
(***************************************************************************)
(* A turn that ends well keeps its input.                                  *)
(***************************************************************************)

(* Who is aborted: the loop holds a victim only from take to report, and   *)
(* cancels it before it kills it.                                          *)
VictimInv ==
    /\ lpc \in {"idle", "take", "spawn", "stopped"} => victim = NoTurn
    /\ lpc \in {"grace", "mark", "report"} /\ victim # NoTurn => cancelled[victim]
    /\ \A t \in Turns : killed[t] => cancelled[t]

(* How a task's place, its kind, its outcome and its follow-up agree.      *)
Returned == {"ended", "remove", "complete", "done", "dead"}
PlaceInv ==
    \A t \in Turns :
        /\ outcome[t] # "running" => tpc[t] \in Returned
        /\ tpc[t] \in {"ended", "remove"} => outcome[t] # "running"
        /\ tpc[t] = "work" => kind[t] = "Other"
        /\ tpc[t] = "close" => ~follow[t]

(* The epoch tells: a request that saw no need for a follow-up saw no      *)
(* pending input either, and what came since raised the epoch.             *)
Answering == {"late", "tools", "finish", "close"}
EpochInv ==
    \A t \in Turns :
        /\ seen[t] <= epoch
        /\ (active = t /\ tpc[t] \in Answering /\ ~follow[t])
           => pending = << >> \/ seen[t] < epoch

(* A regular turn that answered has closed its window.                     *)
ClosedInv ==
    \A t \in Turns :
        (active = t /\ kind[t] = "Regular" /\ outcome[t] = "clean")
        => ~accepting /\ pending = << >>

(* Where an input of a turn that is not aborted can be.                    *)
Kept(t, i) ==
    \/ i \in Range(history)
    \/ tpc[t] = "record" /\ input[t] = i
    \/ active = t /\ i \in Range(pending)
    \/ tpc[t] = "append" /\ i \in Range(held[t])
    \/ outcome[t] = "cut"

Mine(t, i) ==
    /\ home[i] = t /\ i \notin strays
    /\ kind[t] = "Regular" /\ ~cancelled[t] /\ victim # t

KeptInv == \A t \in Turns, i \in Inputs : Mine(t, i) => Kept(t, i)

HomeInv == \A i \in Inputs : home[i] <= spawned

KeepInv == VictimInv /\ PlaceInv /\ EpochInv /\ ClosedInv /\ HomeInv /\ KeptInv

LEMMA RangeAppend ==
  ASSUME NEW S, NEW s \in Seq(S), NEW x \in S
  PROVE  Range(Append(s, x)) = Range(s) \cup {x}
<1>1. /\ DOMAIN s = 1 .. Len(s) /\ Len(s) \in Nat
      /\ DOMAIN Append(s, x) = 1 .. Len(s) + 1
      /\ \A n \in 1 .. Len(s) : Append(s, x)[n] = s[n]
      /\ Append(s, x)[Len(s) + 1] = x
  OBVIOUS
<1>2. 1 .. Len(s) + 1 = 1 .. Len(s) \cup {Len(s) + 1}
  BY <1>1
<1> QED
  BY <1>1, <1>2 DEF Range

LEMMA RangeConcat ==
  ASSUME NEW S, NEW s \in Seq(S), NEW u \in Seq(S)
  PROVE  Range(s \o u) = Range(s) \cup Range(u)
<1>1. /\ DOMAIN s = 1 .. Len(s) /\ DOMAIN u = 1 .. Len(u)
      /\ Len(s) \in Nat /\ Len(u) \in Nat
      /\ DOMAIN (s \o u) = 1 .. Len(s) + Len(u)
      /\ \A n \in 1 .. Len(s) : (s \o u)[n] = s[n]
      /\ \A n \in 1 .. Len(u) : (s \o u)[Len(s) + n] = u[n]
  OBVIOUS
<1>2. ASSUME NEW n \in 1 .. Len(s) + Len(u)
      PROVE  n \in 1 .. Len(s) \/ (n - Len(s) \in 1 .. Len(u) /\ n = Len(s) + (n - Len(s)))
  BY <1>1
<1>3. Range(s \o u) \subseteq Range(s) \cup Range(u)
  BY <1>1, <1>2 DEF Range
<1>4. \A n \in 1 .. Len(s) : n \in 1 .. Len(s) + Len(u)
  BY <1>1
<1>5. \A n \in 1 .. Len(u) : Len(s) + n \in 1 .. Len(s) + Len(u)
  BY <1>1
<1>6. Range(s) \subseteq Range(s \o u)
  BY <1>1, <1>4 DEF Range
<1>7. Range(u) \subseteq Range(s \o u)
  BY <1>1, <1>5 DEF Range
<1> QED
  BY <1>3, <1>6, <1>7

LEMMA KeepInit == Init => KeepInv
<1> SUFFICES ASSUME Init PROVE KeepInv
  OBVIOUS
<1> USE DEF Init
<1>1. VictimInv /\ PlaceInv /\ ClosedInv
  BY DEF VictimInv, PlaceInv, Returned, ClosedInv
<1>2. EpochInv /\ HomeInv
  BY DEF EpochInv, HomeInv, Answering, NoTurn
<1>3. KeptInv
  BY DEF KeptInv, Mine, NoTurn, Turns
<1> QED
  BY <1>1, <1>2, <1>3 DEF KeepInv

-----------------------------------------------------------------------------
(* The tasks.                                                              *)
LEMMA TaskLeaves ==
  ASSUME NEW t \in Turns, Task(t)
  PROVE  UNCHANGED <<spawned, loopVars, kind, input, userVars, cancelled, killed, epoch>>
BY DEF Task, Record, Drain, AppendHeld, MendAndRetry, Observe, Fail, Completed,
       LateCheck, ToolsDone, Finish, CloseWindow, Work, Ended, RemoveTask, Complete,
       Die, TaskFrame, turnVars

LEMMA VictimTask ==
  ASSUME VictimInv, HomeInv, NEW t \in Turns, Task(t)
  PROVE  VictimInv' /\ HomeInv'
BY TaskLeaves DEF VictimInv, HomeInv, loopVars, userVars

(* What a task does to the turn in active_turn.                            *)
LEMMA TurnTask ==
  ASSUME NEW t \in Turns, Task(t)
  PROVE  /\ accepting' = accepting \/ accepting' = FALSE
         /\ pending' = pending \/ pending' = << >>
         /\ active' = active \/ (active = t /\ active' = NoTurn)
BY DEF Task, Record, Drain, AppendHeld, MendAndRetry, Observe, Fail, Completed,
       LateCheck, ToolsDone, Finish, CloseWindow, Work, Ended, RemoveTask, Complete,
       Die, ClearActive, turnVars

LEMMA OthersRest ==
  ASSUME TasksTypeOK, NEW t \in Turns, Task(t), NEW u \in Turns \ {t}
  PROVE  /\ tpc'[u] = tpc[u] /\ held'[u] = held[u] /\ seen'[u] = seen[u]
         /\ follow'[u] = follow[u] /\ outcome'[u] = outcome[u]
<1> USE DEF TasksTypeOK, TaskTypes, InputTypes
<1>1. tpc'[u] = tpc[u] /\ held'[u] = held[u]
  <2>1. tpc'[u] = tpc[u]
    BY TaskGoes DEF To
  <2>2. held'[u] = held[u]
    BY DEF Task, Record, Drain, AppendHeld, MendAndRetry, Observe, Fail, Completed,
           LateCheck, ToolsDone, Finish, CloseWindow, Work, Ended, RemoveTask, Complete, Die
  <2> QED
    BY <2>1, <2>2
<1>2. seen'[u] = seen[u] /\ outcome'[u] = outcome[u]
  BY DEF Task, Record, Drain, AppendHeld, MendAndRetry, RequestOver, Observe, Fail,
         Completed, LateCheck, ToolsDone, Finish, CloseWindow, Answered, Work, Ended,
         RemoveTask, Complete, Die
<1>3. follow'[u] = follow[u]
  BY DEF Task, Record, Drain, AppendHeld, MendAndRetry, RequestOver, Observe, Fail,
         Completed, LateCheck, ToolsDone, Finish, CloseWindow, Work, Ended,
         RemoveTask, Complete, Die
<1> QED
  BY <1>1, <1>2, <1>3

LEMMA StillActive ==
  ASSUME NEW t \in Turns, Task(t), NEW u \in Turns, active' = u
  PROVE  active = u
<1>1. u # NoTurn
  BY DEF NoTurn, Turns
<1> QED
  BY <1>1, TurnTask

LEMMA PlaceTask ==
  ASSUME TasksTypeOK, PlaceInv, NEW t \in Turns, Task(t)
  PROVE  PlaceInv'
<1> USE DEF TasksTypeOK, TaskTypes, PlaceInv, Returned
<1>1. kind' = kind
  BY TaskLeaves
<1>2. CASE Record(t) \/ Drain(t) \/ AppendHeld(t) \/ Observe(t) \/ MendAndRetry(t)
  BY <1>1, <1>2 DEF Record, Drain, AppendHeld, Observe, MendAndRetry, RequestOver, At, To
<1>3. CASE Fail(t) \/ Work(t)
  BY <1>1, <1>3 DEF Fail, Work, Answered, RequestOver, At, To
<1>4. CASE Completed(t) \/ LateCheck(t)
  <2>1. /\ tpc[t] \in {"stream", "late"} /\ tpc'[t] \in {"late", "tools"}
        /\ outcome' = outcome
    BY <1>4 DEF Completed, LateCheck, At, To
  <2> QED
    BY <1>1, <2>1, OthersRest
<1>5. CASE ToolsDone(t) \/ Finish(t)
  BY <1>1, <1>5 DEF ToolsDone, Finish, RequestOver, At, To
<1>6. CASE CloseWindow(t)
  <2>1. /\ tpc[t] = "close" /\ outcome[t] = "running"
        /\ \/ tpc'[t] = "drain" /\ outcome' = outcome
           \/ tpc'[t] = "ended" /\ outcome'[t] # "running"
    BY <1>6 DEF CloseWindow, Answered, At, To
  <2> QED
    BY <1>1, <2>1, OthersRest
<1>7. CASE Ended(t) \/ RemoveTask(t) \/ Complete(t) \/ Die(t)
  BY <1>1, <1>7 DEF Ended, RemoveTask, Complete, Die, RequestOver, At, To
<1> QED
  BY <1>2, <1>3, <1>4, <1>5, <1>6, <1>7 DEF Task

LEMMA EpochTask ==
  ASSUME TasksTypeOK, EpochInv, NEW t \in Turns, Task(t)
  PROVE  EpochInv'
<1> USE DEF TasksTypeOK, TaskTypes, LoopTypes, EpochInv, Answering
<1>1. epoch' = epoch
  BY TaskLeaves
<1>2. ASSUME NEW u \in Turns \ {t}
      PROVE  /\ seen'[u] <= epoch'
             /\ (active' = u /\ tpc'[u] \in Answering /\ ~follow'[u])
                => pending' = << >> \/ seen'[u] < epoch'
  <2>1. active' = u => active = u
    BY StillActive
  <2> QED
    BY <1>1, <2>1, TurnTask, OthersRest
<1>3. seen'[t] <= epoch'
  <2>1. seen'[t] \in {seen[t], epoch, 0}
    BY DEF Task, Record, Drain, AppendHeld, MendAndRetry, RequestOver, Observe, Fail,
           Completed, LateCheck, ToolsDone, Finish, CloseWindow, Work, Ended,
           RemoveTask, Complete, Die
  <2> QED
    BY <1>1, <2>1
<1>4. ASSUME active' = t, tpc'[t] \in Answering, ~follow'[t]
      PROVE  pending' = << >> \/ seen'[t] < epoch'
  <2>1. active = t
    BY <1>4, StillActive
  <2>2. CASE Completed(t)
    <3>1. PICK tool \in BOOLEAN : follow' = [follow EXCEPT ![t] = tool \/ pending # << >>]
      BY <2>2 DEF Completed
    <3>2. follow'[t] = (tool \/ pending # << >>)
      BY <3>1
    <3> QED
      BY <1>4, <2>2, <3>2 DEF Completed, turnVars
  <2>3. CASE LateCheck(t)
    <3>1. follow'[t] = (follow[t] \/ (epoch # late[t] /\ pending # << >>))
      BY <2>3 DEF LateCheck
    <3> QED
      BY <1>1, <1>4, <2>1, <2>3, <3>1 DEF LateCheck, At, turnVars
  <2>4. CASE ToolsDone(t)
    BY <1>1, <1>4, <2>1, <2>4 DEF ToolsDone, At, turnVars
  <2>5. CASE Finish(t)
    BY <1>1, <1>4, <2>1, <2>5 DEF Finish, RequestOver, At, To, turnVars
  <2>6. CASE ~(Completed(t) \/ LateCheck(t) \/ ToolsDone(t) \/ Finish(t))
    <3>1. tpc'[t] \notin Answering
      BY <2>6 DEF Task, Record, Drain, AppendHeld, MendAndRetry, Observe, Fail,
             CloseWindow, Answered, Work, Ended, RemoveTask, Complete, Die, To
    <3> QED
      BY <1>4, <3>1
  <2> QED
    BY <2>2, <2>3, <2>4, <2>5, <2>6
<1> QED
  BY <1>2, <1>3, <1>4

(* A window is closed over input only when the epoch says that none came.  *)
LEMMA WindowEmpty ==
  ASSUME TasksTypeOK, PlaceInv, EpochInv, NEW t \in Turns, tpc[t] = "close", active = t,
         ~(active # NoTurn /\ epoch # seen[t] /\ pending # << >>)
  PROVE  pending = << >>
<1>1. active # NoTurn
  BY DEF NoTurn, Turns
<1>2. pending = << >> \/ seen[t] < epoch
  BY DEF PlaceInv, EpochInv, Answering
<1> QED
  BY <1>1, <1>2 DEF TasksTypeOK, TaskTypes, LoopTypes

LEMMA ClosedTask ==
  ASSUME TasksTypeOK, PlaceInv, EpochInv, ClosedInv, NEW t \in Turns, Task(t)
  PROVE  ClosedInv'
<1> USE DEF TasksTypeOK, TaskTypes
<1> SUFFICES ASSUME NEW u \in Turns, active' = u, kind'[u] = "Regular", outcome'[u] = "clean"
             PROVE  ~accepting' /\ pending' = << >>
  BY DEF ClosedInv
<1>1. active = u /\ kind[u] = "Regular"
  BY TaskLeaves, StillActive
<1>2. CASE outcome[u] = "clean"
  BY <1>1, <1>2, TurnTask DEF ClosedInv
<1>3. CASE outcome[u] # "clean"
  <2>1. u = t
    BY <1>3, OthersRest
  <2>2. CloseWindow(t) \/ Work(t)
    BY <1>3, <2>1 DEF Task, Record, Drain, AppendHeld, MendAndRetry, Observe, Fail,
           Completed, LateCheck, ToolsDone, Finish, Ended, RemoveTask, Complete, Die
  <2>3. ~Work(t)
    BY <1>1, <2>1 DEF Work, At, PlaceInv
  <2>4. active # NoTurn
    BY <1>1 DEF NoTurn, Turns
  <2>5. /\ tpc[t] = "close" /\ pending' = pending
        /\ IF active # NoTurn /\ epoch # seen[t] /\ pending # << >>
           THEN outcome' = outcome ELSE accepting' = FALSE
    BY <2>2, <2>3, <2>4 DEF CloseWindow, At
  <2> QED
    BY <1>1, <1>3, <2>1, <2>5, WindowEmpty
<1> QED
  BY <1>2, <1>3

-----------------------------------------------------------------------------
(* Where an input is, after a step of a task.                              *)
LEMMA HistoryAppend ==
  ASSUME TasksTypeOK, NEW x \in Inputs \cup {Marker}
  PROVE  Range(Append(history, x)) = Range(history) \cup {x}
<1> DEFINE S == Inputs \cup {Marker}
<1>1. history \in Seq(S)
  BY DEF TasksTypeOK, InputTypes
<1>2. x \in S
  OBVIOUS
<1> HIDE DEF S
<1> QED
  BY <1>1, <1>2, RangeAppend

LEMMA HistoryGrows ==
  ASSUME TasksTypeOK, NEW t \in Turns, Task(t)
  PROVE  Range(history) \subseteq Range(history')
<1> USE DEF TasksTypeOK, InputTypes, TaskTypes
<1>1. CASE Record(t)
  <2>1. CASE history' = Append(history, input[t]) /\ input[t] \in Inputs
    <3>1. input[t] \in Inputs \cup {Marker}
      BY <2>1
    <3>2. Range(history') = Range(history) \cup {input[t]}
      BY <2>1, <3>1, HistoryAppend
    <3> QED
      BY <3>2
  <2>2. CASE history' = history
    BY <2>2
  <2> QED
    BY <1>1, <2>1, <2>2 DEF Record
<1>2. CASE AppendHeld(t)
  <2>1. held[t] \in Seq(Inputs \cup {Marker})
    OBVIOUS
  <2> QED
    BY <1>2, <2>1, RangeConcat DEF AppendHeld
<1>3. CASE ~Record(t) /\ ~AppendHeld(t)
  <2>1. history' = history
    BY <1>3 DEF Task, Drain, MendAndRetry, Observe, Fail, Completed, LateCheck, ToolsDone,
           Finish, CloseWindow, Work, Ended, RemoveTask, Complete, Die, bookVars
  <2> QED
    BY <2>1
<1> QED
  BY <1>1, <1>2, <1>3

LEMMA MineTask ==
  ASSUME NEW t \in Turns, Task(t), NEW u \in Turns, NEW i \in Inputs, Mine(u, i)'
  PROVE  Mine(u, i)
<1>1. strays \subseteq strays'
  BY DEF Task, Record, Drain, AppendHeld, MendAndRetry, Observe, Fail, Completed,
         LateCheck, ToolsDone, Finish, CloseWindow, Work, Ended, RemoveTask, Complete,
         Die, Handle, bookVars
<1> QED
  BY <1>1, TaskLeaves DEF Mine, loopVars, userVars

(* A task that is not in active_turn takes no input of the turn that is,   *)
(* unless it was killed.                                                   *)
LEMMA OthersInput ==
  ASSUME TasksTypeOK, TurnInv, KeptInv,
         NEW t \in Turns, Task(t), NEW u \in Turns \ {t}, NEW i \in Inputs, Mine(u, i)'
  PROVE  Kept(u, i)'
<1>1. Kept(u, i)
  BY MineTask DEF KeptInv
<1>2. input' = input /\ killed' = killed
  BY TaskLeaves
<1>3. ASSUME active = u, i \in Range(pending)
      PROVE  active' = u /\ i \in Range(pending')
  <2>1. u # NoTurn /\ u # t
    BY DEF NoTurn, Turns
  <2>2. CASE Drain(t)
    <3>1. ~killed[t]
      <4>1. strays' = IF killed[t] THEN strays \cup Range(pending) ELSE strays
        BY <2>2 DEF Drain, Handle
      <4> QED
        BY <1>3, <4>1 DEF Mine
    <3>2. Working(t)
      BY <2>2, <3>1 DEF Drain, At, Working
    <3> QED
      BY <1>3, <2>1, <3>2 DEF TurnInv, WorkInv, LoopInv
  <2>3. CASE RemoveTask(t)
    BY <1>3, <2>1, <2>3 DEF RemoveTask
  <2>4. CASE ~Drain(t) /\ ~RemoveTask(t)
    <3>1. pending' = pending /\ active' = active
      BY <2>4 DEF Task, Record, AppendHeld, MendAndRetry, Observe, Fail, Completed,
             LateCheck, ToolsDone, Finish, CloseWindow, Work, Ended, Complete, Die, turnVars
    <3> QED
      BY <1>3, <3>1
  <2> QED
    BY <2>2, <2>3, <2>4
<1> QED
  BY <1>1, <1>2, <1>3, OthersRest, HistoryGrows DEF Kept

(* The input of a turn stays with it from buffer to hand to history.       *)
LEMMA OwnInput ==
  ASSUME TasksTypeOK, VictimInv, PlaceInv, EpochInv, ClosedInv, KeptInv,
         NEW t \in Turns, Task(t), NEW i \in Inputs, Mine(t, i)'
  PROVE  Kept(t, i)'
<1> USE DEF TasksTypeOK, TaskTypes, InputTypes
<1>1. Kept(t, i) /\ Mine(t, i)
  BY MineTask DEF KeptInv
<1>2. CASE i \in Range(history)
  BY <1>2, HistoryGrows DEF Kept
<1>3. CASE outcome[t] = "cut"
  <2>1. tpc[t] \in Returned
    BY <1>3 DEF PlaceInv
  <2>2. outcome'[t] = "cut"
    BY <1>3, <2>1 DEF Returned, Task, Record, Drain, AppendHeld, MendAndRetry, Observe,
           Fail, Completed, LateCheck, ToolsDone, Finish, CloseWindow, Answered, Work,
           Ended, RemoveTask, Complete, Die, At
  <2> QED
    BY <2>2 DEF Kept
<1>4. CASE tpc[t] = "record" /\ input[t] = i
  <2>1. CASE Record(t)
    <3>1. i # NoInput
      BY DEF Inputs, NoInput
    <3>2. history' = Append(history, i)
      BY <1>4, <2>1, <3>1 DEF Record
    <3>3. i \in Inputs \cup {Marker}
      OBVIOUS
    <3>4. Range(history') = Range(history) \cup {i}
      BY <3>2, <3>3, HistoryAppend
    <3> QED
      BY <3>4 DEF Kept
  <2>2. CASE Fail(t) \/ Die(t)
    BY <1>1, <1>4, <2>2 DEF Fail, Die, Mine, VictimInv, At
  <2>3. CASE ~(Record(t) \/ Fail(t) \/ Die(t))
    BY <1>4, <2>3 DEF Task, Drain, AppendHeld, MendAndRetry, Observe, Completed, LateCheck,
           ToolsDone, Finish, CloseWindow, Work, Ended, RemoveTask, Complete, At
  <2> QED
    BY <2>1, <2>2, <2>3
<1>5. CASE tpc[t] = "append" /\ i \in Range(held[t])
  <2>1. CASE AppendHeld(t)
    <3>1. held[t] \in Seq(Inputs \cup {Marker})
      OBVIOUS
    <3>2. i \in Range(history')
      BY <1>5, <2>1, <3>1, RangeConcat DEF AppendHeld
    <3> QED
      BY <3>2 DEF Kept
  <2>2. CASE Die(t)
    BY <1>1, <2>2 DEF Die, Mine, VictimInv
  <2>3. CASE ~(AppendHeld(t) \/ Die(t))
    BY <1>5, <2>3 DEF Task, Record, Drain, MendAndRetry, Observe, Fail, Completed, LateCheck,
           ToolsDone, Finish, CloseWindow, Work, Ended, RemoveTask, Complete, At
  <2> QED
    BY <2>1, <2>2, <2>3
<1>6. CASE active = t /\ i \in Range(pending)
  <2>0. pending # << >>
    BY <1>6 DEF Range
  <2>1. CASE Drain(t)
    BY <1>6, <2>1 DEF Drain, To, Kept
  <2>2. CASE RemoveTask(t)
    <3>1. outcome[t] \in {"clean", "cut"}
      BY <2>2 DEF RemoveTask, At, PlaceInv
    <3>2. outcome[t] # "clean"
      BY <1>1, <1>6, <2>0 DEF ClosedInv, Mine
    <3> QED
      BY <2>2, <3>1, <3>2 DEF RemoveTask, Kept
  <2>3. CASE ~Drain(t) /\ ~RemoveTask(t)
    <3>1. pending' = pending /\ active' = active
      BY <2>3 DEF Task, Record, AppendHeld, MendAndRetry, Observe, Fail, Completed,
             LateCheck, ToolsDone, Finish, CloseWindow, Work, Ended, Complete, Die, turnVars
    <3> QED
      BY <1>6, <3>1 DEF Kept
  <2> QED
    BY <2>1, <2>2, <2>3
<1> QED
  BY <1>1, <1>2, <1>3, <1>4, <1>5, <1>6 DEF Kept

LEMMA KeepTask ==
  ASSUME TasksTypeOK, TurnInv, KeepInv, NEW t \in Turns, Task(t)
  PROVE  KeepInv'
<1> USE DEF KeepInv
<1>1. VictimInv' /\ HomeInv' /\ PlaceInv' /\ EpochInv' /\ ClosedInv'
  BY VictimTask, PlaceTask, EpochTask, ClosedTask
<1>2. KeptInv'
  <2> SUFFICES ASSUME NEW u \in Turns, NEW i \in Inputs, Mine(u, i)' PROVE Kept(u, i)'
    BY DEF KeptInv
  <2> QED
    BY OthersInput, OwnInput
<1> QED
  BY <1>1, <1>2

-----------------------------------------------------------------------------
(* The loop.                                                               *)
LEMMA KeepLoop ==
  ASSUME TasksTypeOK, BoundInv, TurnInv, KeepInv, Loop
  PROVE  KeepInv'
<1> USE DEF KeepInv, TasksTypeOK, LoopTypes, TaskTypes, InputTypes
(* An operation that begins an abort, or asks to continue a goal.          *)
<1>1. CASE InputTurn \/ OtherTurn \/ ContinueGoal \/ Interrupt \/ Shutdown
  <2>1. /\ UNCHANGED <<active, accepting, pending, epoch, spawned, victim, tpc, held, kind,
                      input, seen, follow, outcome, history, strays, home, cancelled, killed>>
        /\ lpc = "idle" /\ lpc' \in {"idle", "take", "spawn"}
    BY <1>1 DEF InputTurn, OtherTurn, ContinueGoal, Interrupt, Shutdown, AbortThen, turnVars,
           loopVars, taskVars, bookVars, userVars, endVars
  <2>2. VictimInv' /\ HomeInv'
    BY <2>1 DEF VictimInv, HomeInv
  <2>3. PlaceInv' /\ EpochInv' /\ ClosedInv'
    BY <2>1 DEF PlaceInv, EpochInv, ClosedInv
  <2>4. KeptInv'
    BY <2>1 DEF KeptInv, Mine, Kept
  <2> QED
    BY <2>2, <2>3, <2>4
<1>2. CASE Inject
  <2>1. /\ UNCHANGED <<active, accepting, spawned, lpc, victim, tpc, held, kind, input, seen,
                      follow, outcome, history, strays, cancelled, killed>>
        /\ accepting /\ active \in Turns /\ epoch' = epoch + 1
        /\ pending' = Append(pending, sent + 1)
        /\ home' = [home EXCEPT ![sent + 1] = active]
    BY <1>2 DEF Inject, Open, loopVars, taskVars, bookVars, endVars
  <2>2. sent + 1 \in Inputs
    BY <1>2, TasksAssumption DEF Inject, Inputs
  <2>3. VictimInv' /\ PlaceInv' /\ ClosedInv'
    BY <2>1 DEF VictimInv, PlaceInv, ClosedInv
  <2>4. EpochInv'
    <3>1. ASSUME NEW t \in Turns PROVE seen[t] < epoch'
      <4>1. seen[t] \in Nat /\ epoch \in Nat
        BY TasksAssumption
      <4>2. seen[t] <= epoch
        BY DEF EpochInv
      <4> QED
        BY <2>1, <4>1, <4>2
    <3>2. \A t \in Turns : seen[t] <= epoch'
      BY <2>1, <3>1, TasksAssumption
    <3> QED
      BY <2>1, <3>1, <3>2 DEF EpochInv
  <2>5. HomeInv'
    BY <2>1, <2>2 DEF HomeInv, TurnInv, LoopInv
  <2>6. Range(pending') = Range(pending) \cup {sent + 1}
    BY <2>1, <2>2, RangeAppend
  <2>7. ASSUME NEW t \in Turns, NEW i \in Inputs, Mine(t, i)' PROVE Kept(t, i)'
    <3>1. CASE i = sent + 1
      <4>1. t = active
        BY <2>1, <2>2, <2>7, <3>1 DEF Mine
      <4> QED
        BY <2>1, <2>6, <3>1, <4>1 DEF Kept
    <3>2. CASE i # sent + 1
      <4>1. Mine(t, i)
        BY <2>1, <2>7, <3>2 DEF Mine
      <4> QED
        BY <2>1, <2>6, <4>1 DEF KeptInv, Kept
    <3> QED
      BY <3>1, <3>2
  <2> QED
    BY <2>3, <2>4, <2>5, <2>7 DEF KeptInv
(* The active turn becomes the victim: its input is no longer its own.     *)
<1>3. CASE Take
  <2>1. /\ UNCHANGED <<epoch, spawned, tpc, held, kind, input, seen, follow, outcome, history,
                      strays, home, cancelled, killed>>
        /\ lpc = "take" /\ victim' = active /\ active' = NoTurn /\ pending' = << >>
        /\ IF active = NoTurn THEN lpc' \in {"idle", "stopped", "spawn"} ELSE lpc' = "cancel"
    BY <1>3 DEF Take, ClearActive, AbortOver, taskVars, bookVars, userVars, endVars
  <2>2. VictimInv' /\ HomeInv'
    BY <2>1 DEF VictimInv, HomeInv
  <2>3. PlaceInv' /\ EpochInv' /\ ClosedInv'
    BY <2>1 DEF PlaceInv, EpochInv, ClosedInv, NoTurn, Turns
  <2>4. ASSUME NEW t \in Turns, NEW i \in Inputs, Mine(t, i)' PROVE Kept(t, i)'
    <3>1. t # active /\ t # victim
      BY <2>1, <2>4 DEF Mine, VictimInv, NoTurn, Turns
    <3>2. Mine(t, i)
      BY <2>1, <2>4, <3>1 DEF Mine
    <3> QED
      BY <2>1, <3>1, <3>2 DEF KeptInv, Kept
  <2> QED
    BY <2>2, <2>3, <2>4 DEF KeptInv
<1>4. CASE Cancel \/ Kill
  <2>1. /\ UNCHANGED <<active, accepting, pending, epoch, spawned, victim, tpc, held, kind, input,
                      seen, follow, outcome, history, strays, home>>
        /\ \/ lpc = "cancel" /\ lpc' = "grace" /\ killed' = killed
              /\ cancelled' = [cancelled EXCEPT ![victim] = TRUE]
           \/ lpc = "grace" /\ lpc' \in {"mark", "report"} /\ cancelled' = cancelled
              /\ killed' = [killed EXCEPT ![victim] = TRUE]
    BY <1>4 DEF Cancel, Kill, turnVars, taskVars, bookVars, userVars
  <2>2. VictimInv'
    <3>1. CASE victim = NoTurn
      <4>1. victim \notin Turns
        BY <3>1 DEF NoTurn, Turns
      <4>2. \A t \in Turns : cancelled'[t] = cancelled[t] /\ killed'[t] = killed[t]
        BY <2>1, <4>1
      <4> QED
        BY <2>1, <3>1, <4>2 DEF VictimInv
    <3>2. CASE victim # NoTurn
      <4>1. victim \in Turns
        BY <3>2
      <4>2. CASE lpc = "cancel"
        BY <2>1, <4>1, <4>2 DEF VictimInv
      <4>3. CASE lpc = "grace"
        <5>1. cancelled[victim]
          BY <3>2, <4>3 DEF VictimInv
        <5> QED
          BY <2>1, <4>1, <4>3, <5>1 DEF VictimInv
      <4> QED
        BY <2>1, <4>2, <4>3
    <3> QED
      BY <3>1, <3>2
  <2>3. HomeInv' /\ PlaceInv' /\ EpochInv' /\ ClosedInv'
    BY <2>1 DEF HomeInv, PlaceInv, EpochInv, ClosedInv
  <2>4. \A t \in Turns : cancelled[t] => cancelled'[t]
    BY <2>1
  <2>5. KeptInv'
    BY <2>1, <2>4 DEF KeptInv, Mine, Kept
  <2> QED
    BY <2>2, <2>3, <2>5
<1>5. CASE Mark
  <2>1. /\ UNCHANGED <<active, accepting, pending, epoch, spawned, victim, tpc, held, kind, input,
                      seen, follow, outcome, strays, home, cancelled, killed>>
        /\ lpc = "mark" /\ lpc' = "report" /\ history' = Append(history, Marker)
    BY <1>5 DEF Mark, turnVars, taskVars, userVars, endVars
  <2>2. Range(history') = Range(history) \cup {Marker}
    BY <2>1, HistoryAppend
  <2>3. VictimInv' /\ HomeInv' /\ PlaceInv' /\ EpochInv' /\ ClosedInv'
    BY <2>1 DEF VictimInv, HomeInv, PlaceInv, EpochInv, ClosedInv
  <2>4. KeptInv'
    BY <2>1, <2>2 DEF KeptInv, Mine, Kept
  <2> QED
    BY <2>3, <2>4
<1>6. CASE Report
  <2>1. /\ UNCHANGED <<active, accepting, pending, epoch, spawned, tpc, held, kind, input, seen,
                      follow, outcome, history, strays, home, cancelled, killed>>
        /\ lpc = "report" /\ lpc' \in {"idle", "stopped", "spawn"} /\ victim' = NoTurn
    BY <1>6 DEF Report, Settle, AbortOver, turnVars, taskVars, bookVars
  <2>2. VictimInv'
    BY <2>1 DEF VictimInv
  <2>3. HomeInv' /\ PlaceInv' /\ EpochInv' /\ ClosedInv'
    BY <2>1 DEF HomeInv, PlaceInv, EpochInv, ClosedInv
  <2>4. ASSUME NEW t \in Turns, NEW i \in Inputs, Mine(t, i)' PROVE Kept(t, i)'
    <3>1. t # victim
      BY <2>1, <2>4 DEF Mine, VictimInv, NoTurn, Turns
    <3> QED
      BY <2>1, <2>4, <3>1 DEF Mine, KeptInv, Kept
  <2> QED
    BY <2>2, <2>3, <2>4 DEF KeptInv
(* A turn that was never seen begins with the input it is spawned with.    *)
<1>7. CASE Spawn
  <2> DEFINE n == spawned + 1
  <2>1. active = NoTurn /\ spawned < MaxTurn /\ next.op \in {"Regular", "Other"}
    BY <1>7 DEF Spawn, TurnInv, LoopInv, BoundInv
  <2>2. /\ UNCHANGED <<epoch, victim, held, seen, follow, outcome, history, strays, cancelled,
                      killed>>
        /\ lpc = "spawn" /\ lpc' = "idle" /\ spawned' = n /\ active' = n /\ pending' = << >>
        /\ tpc' = [tpc EXCEPT ![n] = IF next.op = "Regular" THEN "record" ELSE "work"]
        /\ kind' = [kind EXCEPT ![n] = next.op]
        /\ input' = [input EXCEPT ![n] = next.item]
        /\ home' = [i \in Inputs |-> IF i = next.item THEN n ELSE home[i]]
    BY <1>7, <2>1 DEF Spawn, bookVars, endVars
  <2>3. n \in Turns /\ spawned < n /\ tpc[n] = "none"
    BY <2>1, TasksAssumption DEF TurnInv, FreshInv, Turns
  <2>4. outcome[n] = "running"
    BY <2>3 DEF PlaceInv, Returned
  <2> HIDE DEF n
  <2>5. VictimInv'
    BY <2>2 DEF VictimInv
  <2>6. HomeInv'
    <3>1. \A i \in Inputs : home[i] \in Nat /\ home[i] <= spawned
      BY DEF HomeInv, Turns, NoTurn
    <3>2. n \in Nat /\ spawned \in Nat
      BY <2>3 DEF Turns
    <3>3. \A i \in Inputs : home'[i] = n \/ home'[i] = home[i]
      BY <2>2
    <3> QED
      BY <2>2, <2>3, <3>1, <3>2, <3>3 DEF HomeInv
  <2>7. PlaceInv'
    BY <2>1, <2>2, <2>3, <2>4 DEF PlaceInv, Returned
  <2>8. EpochInv'
    <3>1. pending' = << >> /\ epoch' = epoch /\ seen' = seen
      BY <2>2
    <3>2. \A t \in Turns : seen[t] <= epoch
      BY DEF EpochInv
    <3> QED
      BY <3>1, <3>2 DEF EpochInv
  <2>10. ClosedInv'
    <3>1. outcome' = outcome /\ active' = n
      BY <2>2
    <3> QED
      BY <2>4, <3>1 DEF ClosedInv
  <2>9. ASSUME NEW t \in Turns, NEW i \in Inputs, Mine(t, i)' PROVE Kept(t, i)'
    <3>1. CASE t = n
      <4>1. i = next.item
        BY <2>2, <2>3, <2>9, <3>1 DEF Mine, HomeInv, Turns
      <4>2. next.op = "Regular"
        BY <2>2, <2>3, <2>9, <3>1 DEF Mine
      <4> QED
        BY <2>2, <2>3, <3>1, <4>1, <4>2 DEF Kept
    <3>2. CASE t # n
      <4>1. Mine(t, i)
        BY <2>2, <2>3, <2>9, <3>2 DEF Mine
      <4>2. active # t
        BY <2>1 DEF NoTurn, Turns
      <4> QED
        BY <2>2, <2>3, <3>2, <4>1, <4>2 DEF KeptInv, Kept
    <3> QED
      BY <3>1, <3>2
  <2> QED
    BY <2>5, <2>6, <2>7, <2>8, <2>9, <2>10 DEF KeptInv
<1> QED
  BY <1>1, <1>2, <1>3, <1>4, <1>5, <1>6, <1>7 DEF Loop, Abort

THEOREM KeepInvariant == Spec => []KeepInv
<1>1. TasksTypeOK /\ BoundInv /\ TurnInv /\ KeepInv /\ [Next]_vars => KeepInv'
  <2> SUFFICES ASSUME TasksTypeOK, BoundInv, TurnInv, KeepInv, [Next]_vars PROVE KeepInv'
    OBVIOUS
  <2>1. CASE Loop
    BY <2>1, KeepLoop
  <2>2. ASSUME NEW t \in Turns, Task(t) PROVE KeepInv'
    BY <2>2, KeepTask
  <2>3. CASE AskInterrupt \/ UNCHANGED vars
    <3>1. UNCHANGED <<active, accepting, pending, epoch, spawned, lpc, victim, tpc, held, kind,
                      input, seen, follow, outcome, history, strays, home, cancelled, killed>>
      BY <2>3 DEF AskInterrupt, vars, turnVars, loopVars, taskVars, bookVars, userVars, endVars
    <3>2. VictimInv' /\ HomeInv' /\ PlaceInv' /\ EpochInv' /\ ClosedInv'
      BY <3>1 DEF KeepInv, VictimInv, HomeInv, PlaceInv, EpochInv, ClosedInv
    <3>3. KeptInv'
      BY <3>1 DEF KeepInv, KeptInv, Mine, Kept
    <3> QED
      BY <3>2, <3>3 DEF KeepInv
  <2> QED
    BY <2>1, <2>2, <2>3 DEF Next
<1> QED
  BY <1>1, KeepInit, TurnInvariant, PTL DEF Spec

(* A regular turn that returns its answer, and is not aborted, has         *)
(* recorded every input it was given, however late it was injected: the    *)
(* epoch tells the turn to take another round, or the window is closed     *)
(* under the lock and the input starts a turn of its own.                  *)
THEOREM CleanEndCorrect == Spec => []CleanEndKeepsInput
<1>1. KeepInv => CleanEndKeepsInput
  <2> SUFFICES ASSUME KeepInv, NEW t \in Turns, NEW i \in Inputs,
                      kind[t] = "Regular", outcome[t] = "clean", ~cancelled[t], victim # t,
                      home[i] = t, i \notin strays
               PROVE  i \in Range(history)
    BY DEF CleanEndKeepsInput
  <2>1. Kept(t, i)
    BY DEF KeepInv, KeptInv, Mine
  <2>2. tpc[t] \in Returned
    BY DEF KeepInv, PlaceInv
  <2>3. active = t => pending = << >>
    BY DEF KeepInv, ClosedInv
  <2>4. Range(<< >>) = {}
    BY DEF Range
  <2> QED
    BY <2>1, <2>2, <2>3, <2>4 DEF Kept, Returned
<1> QED
  BY <1>1, KeepInvariant, PTL
-----------------------------------------------------------------------------
(***************************************************************************)
(* Inputs are recorded once and in order.                                  *)
(***************************************************************************)

(* The inputs in the hands of a task, and those in the history.            *)
Hand(t) ==
    IF tpc[t] = "record" THEN {input[t]} \ {NoInput}
    ELSE IF tpc[t] = "append" THEN Range(held[t]) ELSE {}

Recorded == Range(history) \ {Marker}

Somewhere(i) == i \in Recorded \/ i \in Range(pending) \/ \E t \in Turns : i \in Hand(t)

(* What is anywhere was sent, and before the input the loop holds.         *)
SentInv ==
    /\ next.item # NoInput => lpc # "idle" /\ next.op = "Regular" /\ next.item <= sent
    /\ \A i \in Inputs :
          Somewhere(i) => i <= sent /\ (next.item # NoInput => i < next.item)

(* An input is in one place.                                               *)
ApartInv ==
    \A i \in Inputs :
        /\ i \in Recorded => i \notin Range(pending)
        /\ \A t \in Turns :
              i \in Hand(t) => /\ i \notin Recorded \cup Range(pending)
                               /\ \A u \in Turns \ {t} : i \notin Hand(u)

(* The history comes before the hands of a task that was not killed, and   *)
(* both before the buffer.                                                 *)
QueueInv ==
    \A i, j \in Inputs :
        /\ i \in Recorded \ strays /\ j \in Range(pending) => i < j
        /\ \A t \in Turns :
              ~killed[t] => /\ i \in Recorded \ strays /\ j \in Hand(t) => i < j
                            /\ i \in Hand(t) /\ j \in Range(pending) => i < j

Rising(s) == \A j, k \in DOMAIN s : j < k => s[j] < s[k]

RisingInv ==
    /\ Rising(pending)
    /\ \A t \in Turns : tpc[t] = "append" => Rising(held[t])

OrderInv == SentInv /\ ApartInv /\ QueueInv /\ RisingInv /\ InputsInOrder

LEMMA OrderInit == Init => OrderInv
<1> SUFFICES ASSUME Init PROVE OrderInv
  OBVIOUS
<1> USE DEF Init
<1>1. Recorded = {} /\ Range(pending) = {} /\ \A t \in Turns : Hand(t) = {}
  BY DEF Recorded, Range, Hand
<1>2. next.item = NoInput
  BY DEF Nothing
<1>3. SentInv /\ ApartInv /\ QueueInv
  BY <1>1, <1>2 DEF SentInv, Somewhere, ApartInv, QueueInv
<1>4. RisingInv /\ InputsInOrder
  BY DEF RisingInv, Rising, InputsInOrder
<1> QED
  BY <1>3, <1>4 DEF OrderInv

(* Where a step of a task moves inputs to.                                 *)
Moves(t) ==
    \/ /\ Recorded' = Recorded \cup Hand(t) /\ Hand(t)' = {}
       /\ strays' = IF killed[t] THEN strays \cup Hand(t) ELSE strays
       /\ pending' = pending
    \/ /\ Recorded' = Recorded /\ Hand(t) = {} /\ Hand(t)' = Range(pending)
       /\ strays' = IF killed[t] THEN strays \cup Range(pending) ELSE strays
       /\ pending' = << >>
    \/ /\ Recorded' = Recorded /\ Hand(t)' = {}
       /\ strays' = strays
       /\ pending' = pending \/ pending' = << >>

LEMMA NoMarker == Marker \notin Inputs /\ NoInput \notin Inputs
BY DEF Marker, NoInput, Inputs

LEMMA HandOthers ==
  ASSUME TasksTypeOK, NEW t \in Turns, Task(t), NEW u \in Turns \ {t}
  PROVE  Hand(u)' = Hand(u)
BY TaskLeaves, OthersRest DEF Hand

LEMMA TaskMoves ==
  ASSUME TasksTypeOK, NEW t \in Turns, Task(t)
  PROVE  Moves(t)
<1> USE DEF TasksTypeOK, TaskTypes, InputTypes
<1>1. CASE Record(t)
  <2>1. /\ tpc[t] = "record" /\ tpc'[t] = "drain" /\ pending' = pending
        /\ strays' = IF killed[t] THEN strays \cup ({input[t]} \ {NoInput}) ELSE strays
    BY <1>1 DEF Record, At, To, Handle, turnVars
  <2>2. Hand(t) = {input[t]} \ {NoInput} /\ Hand(t)' = {}
    BY <2>1 DEF Hand
  <2>3. Recorded' = Recorded \cup ({input[t]} \ {NoInput})
    <3>1. CASE input[t] = NoInput
      BY <1>1, <3>1 DEF Record, Recorded
    <3>2. CASE input[t] # NoInput
      <4>1. input[t] \in Inputs \cup {Marker}
        BY <3>2
      <4>2. Range(history') = Range(history) \cup {input[t]}
        BY <1>1, <3>2, <4>1, HistoryAppend DEF Record
      <4> QED
        BY <3>2, <4>2 DEF Recorded, Marker, NoInput
    <3> QED
      BY <3>1, <3>2
  <2> QED
    BY <2>1, <2>2, <2>3 DEF Moves
<1>2. CASE AppendHeld(t)
  <2>1. /\ tpc[t] = "append" /\ tpc'[t] = "open" /\ pending' = pending
        /\ strays' = IF killed[t] THEN strays \cup Range(held[t]) ELSE strays
        /\ history' = history \o held[t]
    BY <1>2 DEF AppendHeld, At, To, Handle, turnVars
  <2>2. Hand(t) = Range(held[t]) /\ Hand(t)' = {}
    BY <2>1 DEF Hand
  <2>3. held[t] \in Seq(Inputs) /\ held[t] \in Seq(Inputs \cup {Marker})
    OBVIOUS
  <2>4. Range(held[t]) \subseteq Inputs
    BY <2>3 DEF Range
  <2>5. Range(history') = Range(history) \cup Range(held[t])
    BY <2>1, <2>3, RangeConcat
  <2>6. Recorded' = Recorded \cup Range(held[t])
    BY <2>4, <2>5, NoMarker DEF Recorded
  <2> QED
    BY <2>1, <2>2, <2>6 DEF Moves
<1>3. CASE Drain(t)
  <2>1. /\ tpc[t] = "drain" /\ tpc'[t] = "append" /\ pending' = << >>
        /\ strays' = IF killed[t] THEN strays \cup Range(pending) ELSE strays
        /\ held'[t] = pending /\ history' = history
    BY <1>3 DEF Drain, At, To, Handle
  <2>2. Hand(t) = {} /\ Hand(t)' = Range(pending)
    BY <2>1 DEF Hand
  <2> QED
    BY <2>1, <2>2 DEF Moves, Recorded
<1>4. CASE ~(Record(t) \/ AppendHeld(t) \/ Drain(t))
  <2>1. /\ tpc'[t] \notin {"record", "append"}
        /\ history' = history /\ strays' = strays
    BY <1>4 DEF Task, MendAndRetry, Observe, Fail, Completed, LateCheck, ToolsDone, Finish,
           CloseWindow, Answered, Work, Ended, RemoveTask, Complete, Die, To, bookVars
  <2> QED
    BY <2>1, TurnTask DEF Moves, Recorded, Hand
<1> QED
  BY <1>1, <1>2, <1>3, <1>4

(* Two tasks that were not killed do not both hold input.                  *)
LEMMA OneHand ==
  ASSUME TasksTypeOK, TurnInv, NEW t \in Turns, NEW u \in Turns \ {t},
         ~killed[t], ~killed[u], NEW i \in Hand(t)
  PROVE  Hand(u) = {}
<1>1. OneTask
  BY DEF TurnInv, LoopInv, WorkInv, OneTask, TasksTypeOK, LoopTypes, NoTurn, Turns
<1>2. Working(t)
  BY DEF Hand, Working
<1>3. ~Working(u)
  BY <1>1, <1>2 DEF OneTask
<1> QED
  BY <1>3 DEF Working, Hand

LEMMA EmptyRange == Range(<< >>) = {}
BY DEF Range

LEMMA SetsTask ==
  ASSUME TasksTypeOK, TurnInv, SentInv, ApartInv, QueueInv, NEW t \in Turns, Task(t)
  PROVE  SentInv' /\ ApartInv' /\ QueueInv'
<1> USE TaskMoves, EmptyRange
<1>1. UNCHANGED <<next, lpc, sent, killed>>
  BY TaskLeaves DEF loopVars, userVars
<1>2. \A u \in Turns \ {t} : Hand(u)' = Hand(u)
  BY HandOthers
<1>3. /\ Recorded' \subseteq Recorded \cup Hand(t)
      /\ Range(pending') \subseteq Range(pending)
      /\ Hand(t)' \subseteq Range(pending)
  BY DEF Moves
<1>4. \A i \in Inputs : Somewhere(i)' => Somewhere(i)
  BY <1>2, <1>3 DEF Somewhere
<1>5. SentInv'
  BY <1>1, <1>4 DEF SentInv
<1>6. ApartInv'
  <2>1. ASSUME NEW i \in Inputs, i \in Recorded' PROVE i \notin Range(pending')
    BY <1>3, <2>1 DEF ApartInv
  <2>2. ASSUME NEW i \in Inputs, i \in Hand(t)'
        PROVE  i \notin Recorded' \cup Range(pending') /\ \A u \in Turns \ {t} : i \notin Hand(u)'
    <3>1. i \in Range(pending) /\ pending' = << >> /\ Recorded' = Recorded
      BY <2>2 DEF Moves
    <3> QED
      BY <1>2, <3>1 DEF ApartInv
  <2>3. ASSUME NEW i \in Inputs, NEW u \in Turns \ {t}, i \in Hand(u)'
        PROVE  i \notin Recorded' \cup Range(pending') /\ \A v \in Turns \ {u} : i \notin Hand(v)'
    <3>1. i \in Hand(u)
      BY <1>2, <2>3
    <3>2. i \notin Recorded \cup Range(pending) \cup Hand(t) /\ \A v \in Turns \ {u} : i \notin Hand(v)
      BY <3>1 DEF ApartInv
    <3> QED
      BY <1>2, <1>3, <3>2
  <2> QED
    BY <2>1, <2>2, <2>3 DEF ApartInv
<1>7. QueueInv'
  <2>1. \A i \in Recorded' \ strays' : i \in Recorded \ strays \/ (i \in Hand(t) /\ ~killed[t])
    BY DEF Moves
  <2>2. ASSUME NEW i \in Inputs, NEW j \in Inputs, i \in Recorded' \ strays', j \in Range(pending')
        PROVE  i < j
    BY <1>3, <2>1, <2>2 DEF QueueInv
  <2>3. ASSUME NEW i \in Inputs, NEW j \in Inputs, ~killed[t], i \in Recorded' \ strays',
               j \in Hand(t)'
        PROVE  i < j
    <3>1. j \in Range(pending) /\ Recorded' = Recorded /\ strays' = strays
      BY <2>3 DEF Moves
    <3> QED
      BY <2>3, <3>1 DEF QueueInv
  <2>4. ASSUME NEW i \in Inputs, NEW j \in Inputs, NEW u \in Turns \ {t}, ~killed[u],
               i \in Recorded' \ strays', j \in Hand(u)
        PROVE  i < j
    <3>1. CASE i \in Recorded \ strays
      BY <2>4, <3>1 DEF QueueInv
    <3>2. CASE i \in Hand(t) /\ ~killed[t]
      BY <2>4, <3>2, OneHand
    <3> QED
      BY <2>1, <2>4, <3>1, <3>2
  <2>5. ASSUME NEW i \in Inputs, NEW j \in Inputs, NEW u \in Turns, ~killed[u],
               i \in Hand(u)', j \in Range(pending')
        PROVE  i < j
    <3>1. u # t
      BY <2>5 DEF Moves
    <3> QED
      BY <1>2, <1>3, <2>5, <3>1 DEF QueueInv
  <2> QED
    BY <1>1, <1>2, <2>2, <2>3, <2>4, <2>5 DEF QueueInv
<1> QED
  BY <1>5, <1>6, <1>7

LEMMA RisingTask ==
  ASSUME TasksTypeOK, RisingInv, NEW t \in Turns, Task(t)
  PROVE  RisingInv'
<1> USE DEF TasksTypeOK, TaskTypes, InputTypes
<1>1. Rising(pending')
  <2>1. CASE pending' = pending
    BY <2>1 DEF RisingInv
  <2>2. CASE pending' = << >>
    <3>1. DOMAIN pending' = {}
      BY <2>2
    <3> QED
      BY <3>1 DEF Rising
  <2> QED
    BY <2>1, <2>2, TurnTask
<1>2. ASSUME NEW u \in Turns \ {t}, tpc'[u] = "append" PROVE Rising(held'[u])
  BY <1>2, OthersRest DEF RisingInv, Rising
<1>3. ASSUME tpc'[t] = "append" PROVE Rising(held'[t])
  <2>1. Drain(t)
    BY <1>3 DEF Task, Record, AppendHeld, MendAndRetry, Observe, Fail, Completed, LateCheck,
           ToolsDone, Finish, CloseWindow, Answered, Work, Ended, RemoveTask, Complete, Die, To, At
  <2>2. held'[t] = pending
    BY <2>1 DEF Drain
  <2> QED
    BY <2>2 DEF RisingInv, Rising
<1> QED
  BY <1>1, <1>2, <1>3 DEF RisingInv, Rising

(* The order of the history: what is recorded is new, and later than all   *)
(* that no killed task put there.                                          *)
LEMMA InOrderTask ==
  ASSUME TasksTypeOK, SentInv, ApartInv, QueueInv, RisingInv, InputsInOrder,
         NEW t \in Turns, Task(t)
  PROVE  InputsInOrder'
<1> USE DEF TasksTypeOK, TaskTypes, InputTypes
<1>0. /\ DOMAIN history = 1 .. Len(history) /\ Len(history) \in Nat
      /\ \A k \in DOMAIN history : history[k] \in Range(history)
      /\ \A k \in DOMAIN history : history[k] \in Inputs \cup {Marker}
  BY DEF Range
<1>1. CASE Record(t)
  <2>1. CASE input[t] = NoInput
    BY <1>1, <2>1 DEF Record, Handle, InputsInOrder
  <2>2. CASE input[t] # NoInput
    <3> DEFINE x == input[t]
    <3>1. x \in Inputs
      BY <2>2
    <3>2. /\ history' = Append(history, x)
          /\ strays' = IF killed[t] THEN strays \cup {x} ELSE strays
      BY <1>1, <2>2 DEF Record, Handle
    <3>3. x \in Hand(t)
      BY <1>1, <2>2 DEF Record, At, Hand
    <3> HIDE DEF x
    <3>4. ASSUME NEW j \in DOMAIN history, history[j] # Marker
          PROVE  /\ history[j] # x
                 /\ {history[j], x} \cap strays' = {} => history[j] < x
      <4>1. history[j] \in Recorded /\ history[j] \in Inputs
        BY <1>0, <3>4 DEF Recorded
      <4> QED
        BY <3>1, <3>2, <3>3, <4>1 DEF ApartInv, QueueInv
    <3>5. ASSUME NEW j \in DOMAIN history', NEW k \in DOMAIN history', j < k,
                 history'[j] # Marker, history'[k] # Marker
          PROVE  /\ history'[j] # history'[k]
                 /\ {history'[j], history'[k]} \cap strays' = {} => history'[j] < history'[k]
      <4>1. /\ DOMAIN history' = 1 .. Len(history) + 1
            /\ \A n \in 1 .. Len(history) : history'[n] = history[n]
            /\ history'[Len(history) + 1] = x
        BY <1>0, <3>1, <3>2
      <4>2. j \in DOMAIN history /\ history'[j] = history[j]
        BY <1>0, <3>5, <4>1
      <4>3. CASE k = Len(history) + 1
        BY <3>4, <3>5, <4>1, <4>2, <4>3
      <4>4. CASE k \in DOMAIN history
        <5>1. history'[k] = history[k] /\ strays \subseteq strays'
          BY <1>0, <3>2, <4>1, <4>4
        <5> QED
          BY <3>5, <4>2, <4>4, <5>1 DEF InputsInOrder
      <4> QED
        BY <1>0, <3>5, <4>1, <4>3, <4>4
    <3> QED
      BY <3>5 DEF InputsInOrder
  <2> QED
    BY <2>1, <2>2
<1>2. CASE AppendHeld(t)
  <2> DEFINE s == held[t]
  <2>1. /\ history' = history \o s /\ s \in Seq(Inputs)
        /\ strays' = IF killed[t] THEN strays \cup Range(s) ELSE strays
    BY <1>2 DEF AppendHeld, Handle
  <2>2. Range(s) = Hand(t) /\ Rising(s)
    BY <1>2 DEF AppendHeld, At, Hand, RisingInv
  <2>3. \A n \in DOMAIN s : s[n] \in Inputs /\ s[n] \in Range(s)
    BY <2>1 DEF Range
  <2> HIDE DEF s
  <2>4. ASSUME NEW j \in DOMAIN history, history[j] # Marker, NEW n \in DOMAIN s
        PROVE  /\ history[j] # s[n]
               /\ {history[j], s[n]} \cap strays' = {} => history[j] < s[n]
    <3>1. history[j] \in Recorded /\ history[j] \in Inputs
      BY <1>0, <2>4 DEF Recorded
    <3> QED
      BY <2>1, <2>2, <2>3, <3>1 DEF ApartInv, QueueInv
  <2>5. \A m, n \in DOMAIN s : m < n => s[m] < s[n] /\ s[m] # s[n]
    BY <2>2, <2>3 DEF Rising, Inputs
  <2>6. /\ DOMAIN s = 1 .. Len(s) /\ Len(s) \in Nat
        /\ DOMAIN history' = 1 .. Len(history) + Len(s)
        /\ \A n \in 1 .. Len(history) : history'[n] = history[n]
        /\ \A n \in 1 .. Len(s) : history'[Len(history) + n] = s[n]
    BY <1>0, <2>1
  <2>7. ASSUME NEW k \in DOMAIN history', k \notin DOMAIN history
        PROVE  k - Len(history) \in DOMAIN s /\ history'[k] = s[k - Len(history)]
    <3>1. k - Len(history) \in 1 .. Len(s) /\ k = Len(history) + (k - Len(history))
      BY <1>0, <2>6, <2>7
    <3> QED
      BY <2>6, <3>1
  <2>8. ASSUME NEW j \in DOMAIN history', NEW k \in DOMAIN history', j < k,
               history'[j] # Marker, history'[k] # Marker
        PROVE  /\ history'[j] # history'[k]
               /\ {history'[j], history'[k]} \cap strays' = {} => history'[j] < history'[k]
    <3>1. CASE k \in DOMAIN history
      <4>1. j \in DOMAIN history
        BY <1>0, <2>6, <2>8, <3>1
      <4>2. history'[j] = history[j] /\ history'[k] = history[k] /\ strays \subseteq strays'
        BY <1>0, <2>1, <2>6, <3>1, <4>1
      <4> QED
        BY <2>8, <3>1, <4>1, <4>2 DEF InputsInOrder
    <3>2. CASE k \notin DOMAIN history /\ j \in DOMAIN history
      <4>1. history'[j] = history[j]
        BY <1>0, <2>6, <3>2
      <4> QED
        BY <2>4, <2>7, <2>8, <3>2, <4>1
    <3>3. CASE k \notin DOMAIN history /\ j \notin DOMAIN history
      <4>1. j - Len(history) < k - Len(history)
        BY <1>0, <2>6, <2>8
      <4> QED
        BY <2>5, <2>7, <3>3, <4>1
    <3> QED
      BY <3>1, <3>2, <3>3
  <2> QED
    BY <2>8 DEF InputsInOrder
<1>3. CASE ~Record(t) /\ ~AppendHeld(t)
  <2>1. history' = history /\ strays \subseteq strays'
    BY <1>3 DEF Task, Drain, MendAndRetry, Observe, Fail, Completed, LateCheck, ToolsDone,
           Finish, CloseWindow, Work, Ended, RemoveTask, Complete, Die, Handle, bookVars
  <2> QED
    BY <2>1 DEF InputsInOrder
<1> QED
  BY <1>1, <1>2, <1>3

(* What is appended is last, and the rest is as before.                    *)
LEMMA AppendLast ==
  ASSUME NEW S, NEW s \in Seq(S), NEW x \in S
  PROVE  /\ DOMAIN s = 1 .. Len(s) /\ Len(s) \in Nat
         /\ DOMAIN Append(s, x) = 1 .. Len(s) + 1
         /\ Append(s, x)[Len(s) + 1] = x
         /\ \A k \in DOMAIN s : k \in DOMAIN Append(s, x) /\ Append(s, x)[k] = s[k] /\ k < Len(s) + 1
         /\ \A k \in DOMAIN Append(s, x) : k \in DOMAIN s \/ k = Len(s) + 1
<1>1. /\ DOMAIN s = 1 .. Len(s) /\ Len(s) \in Nat
      /\ DOMAIN Append(s, x) = 1 .. Len(s) + 1
      /\ Append(s, x)[Len(s) + 1] = x
      /\ \A k \in 1 .. Len(s) : Append(s, x)[k] = s[k]
  OBVIOUS
<1>2. ASSUME NEW L \in Nat, NEW k \in 1 .. L + 1
      PROVE  k \in 1 .. L \/ k = L + 1
  OBVIOUS
<1> QED
  BY <1>1, <1>2

(* A marker adds no input.                                                 *)
LEMMA MarkerInOrder ==
  ASSUME InputsInOrder, history \in Seq(Inputs \cup {Marker}),
         history' = Append(history, Marker), strays' = strays
  PROVE  InputsInOrder'
<1>1. ASSUME NEW k \in DOMAIN history', history'[k] # Marker
      PROVE  k \in DOMAIN history /\ history'[k] = history[k]
  <2>1. \/ k \in DOMAIN history /\ history'[k] = history[k]
        \/ k = Len(history) + 1 /\ history'[Len(history) + 1] = Marker
    BY AppendLast, <1>1
  <2> QED
    BY <1>1, <2>1
<1> QED
  BY <1>1 DEF InputsInOrder

LEMMA OrderLoop ==
  ASSUME TasksTypeOK, BoundInv, TurnInv, OrderInv, Loop
  PROVE  OrderInv'
<1>0. /\ sent \in Nat /\ next \in Nexts
      /\ tpc \in [Turns -> TaskPC] /\ input \in [Turns -> Inputs \cup {NoInput}]
      /\ held \in [Turns -> Seq(Inputs)] /\ pending \in Seq(Inputs)
      /\ history \in Seq(Inputs \cup {Marker}) /\ strays \subseteq Inputs
      /\ killed \in [Turns -> BOOLEAN] /\ spawned \in Nat
  BY TasksAssumption DEF TasksTypeOK, LoopTypes, TaskTypes, InputTypes
<1> USE <1>0, NoMarker, EmptyRange DEF OrderInv
(* The input that is injected is the latest.                               *)
<1>1. CASE Inject
  <2>1. /\ UNCHANGED <<tpc, held, input, history, strays, killed, next>>
        /\ lpc = "idle" /\ sent' = sent + 1 /\ pending' = Append(pending, sent + 1)
    BY <1>1 DEF Inject, loopVars, taskVars, bookVars, endVars
  <2>2. sent + 1 \in Inputs
    BY <1>1, TasksAssumption DEF Inject, Inputs
  <2>3. Range(pending') = Range(pending) \cup {sent + 1}
    BY <2>1, <2>2, RangeAppend
  <2>4. Recorded' = Recorded /\ \A t \in Turns : Hand(t)' = Hand(t)
    BY <2>1 DEF Recorded, Hand
  <2>5. next.item = NoInput
    BY <2>1 DEF SentInv
  <2>6. \A i \in Inputs : Somewhere(i) => i <= sent /\ i < sent + 1 /\ i # sent + 1
    BY <1>0 DEF SentInv, Inputs
  <2>7. \A i \in Inputs : Somewhere(i)' => Somewhere(i) \/ i = sent + 1
    BY <2>3, <2>4 DEF Somewhere
  <2>8. SentInv'
    BY <1>0, <2>1, <2>5, <2>6, <2>7 DEF SentInv, Inputs
  <2>9. ApartInv'
    BY <2>3, <2>4, <2>6 DEF ApartInv, Somewhere
  <2>10. QueueInv'
    BY <2>1, <2>3, <2>4, <2>6 DEF QueueInv, Somewhere
  <2>11. RisingInv'
    <3>1. \A k \in DOMAIN pending : pending[k] \in Range(pending) /\ pending[k] \in Inputs
      BY DEF Range
    <3>2. \A k \in DOMAIN pending : pending[k] < sent + 1
      BY <2>6, <3>1 DEF Somewhere
    <3>3. ASSUME NEW k \in DOMAIN pending'
          PROVE  \/ k \in DOMAIN pending /\ pending'[k] = pending[k] /\ k < Len(pending) + 1
                 \/ k = Len(pending) + 1 /\ pending'[k] = sent + 1
      BY <2>1, <2>2, AppendLast
    <3>4. ASSUME NEW j \in DOMAIN pending', NEW k \in DOMAIN pending', j < k
          PROVE  pending'[j] < pending'[k]
      <4>0. DOMAIN pending' \subseteq Nat /\ Len(pending) \in Nat
        BY <2>1, <2>2, AppendLast
      <4>1. j \in DOMAIN pending /\ pending'[j] = pending[j]
        BY <3>3, <3>4, <4>0
      <4>2. CASE k = Len(pending) + 1 /\ pending'[k] = sent + 1
        BY <3>2, <4>1, <4>2
      <4>3. CASE k \in DOMAIN pending /\ pending'[k] = pending[k]
        BY <3>4, <4>1, <4>3 DEF RisingInv, Rising
      <4> QED
        BY <3>3, <4>2, <4>3
    <3> QED
      BY <2>1, <3>4 DEF RisingInv, Rising
  <2>12. InputsInOrder'
    BY <2>1 DEF InputsInOrder
  <2> QED
    BY <2>8, <2>9, <2>10, <2>11, <2>12
(* What else the loop does moves no input, but for Spawn.                  *)
<1>2. ASSUME UNCHANGED <<tpc, held, input, strays>>, Recorded' = Recorded,
             pending' = pending \/ pending' = << >>,
             \A t \in Turns : killed[t] => killed'[t]
      PROVE  /\ ApartInv' /\ QueueInv' /\ RisingInv'
             /\ \A i \in Inputs : Somewhere(i)' => Somewhere(i)
  <2>1. \A t \in Turns : Hand(t)' = Hand(t)
    BY <1>2 DEF Hand
  <2>2. Range(pending') \subseteq Range(pending)
    BY <1>2
  <2>3. ApartInv'
    BY <1>2, <2>1, <2>2 DEF ApartInv
  <2>4. QueueInv'
    BY <1>2, <2>1, <2>2 DEF QueueInv
  <2>5. RisingInv'
    BY <1>2 DEF RisingInv, Rising
  <2>6. \A i \in Inputs : Somewhere(i)' => Somewhere(i)
    BY <1>2, <2>1, <2>2 DEF Somewhere
  <2> QED
    BY <2>3, <2>4, <2>5, <2>6
<1>3. CASE InputTurn
  <2>1. /\ UNCHANGED <<tpc, held, input, history, strays, killed, pending>>
        /\ lpc' = "take" /\ sent' = sent + 1
        /\ next' = [op |-> "Regular", item |-> sent + 1]
    BY <1>3 DEF InputTurn, AbortThen, turnVars, taskVars, bookVars, endVars
  <2>2. ApartInv' /\ QueueInv' /\ RisingInv' /\ \A i \in Inputs : Somewhere(i)' => Somewhere(i)
    BY <1>2, <2>1 DEF Recorded
  <2>3. \A i \in Inputs : Somewhere(i) => i <= sent + 1 /\ i < sent + 1
    BY <1>0 DEF SentInv, Inputs
  <2>4. SentInv'
    BY <2>1, <2>2, <2>3 DEF SentInv
  <2>5. InputsInOrder'
    BY <2>1 DEF InputsInOrder
  <2> QED
    BY <2>2, <2>4, <2>5
<1>4. CASE OtherTurn \/ ContinueGoal \/ Interrupt \/ Shutdown
  <2>1. /\ UNCHANGED <<tpc, held, input, history, strays, killed, pending, sent>>
        /\ next'.item = NoInput \/ (next' = next /\ lpc' = lpc)
    BY <1>4 DEF OtherTurn, ContinueGoal, Interrupt, Shutdown, AbortThen, Nothing, turnVars,
           loopVars, taskVars, bookVars, userVars, endVars
  <2>2. ApartInv' /\ QueueInv' /\ RisingInv' /\ \A i \in Inputs : Somewhere(i)' => Somewhere(i)
    BY <1>2, <2>1 DEF Recorded
  <2>3. SentInv'
    BY <2>1, <2>2 DEF SentInv
  <2>4. InputsInOrder'
    BY <2>1 DEF InputsInOrder
  <2> QED
    BY <2>2, <2>3, <2>4
<1>5. CASE Abort
  <2>1. /\ UNCHANGED <<tpc, held, input, strays, sent, next>>
        /\ pending' = pending \/ pending' = << >>
        /\ \A t \in Turns : killed[t] => killed'[t]
        /\ history' = history \/ history' = Append(history, Marker)
    BY <1>5 DEF Abort, Take, Cancel, Kill, Mark, Report, Settle, AbortOver, ClearActive, turnVars,
           loopVars, taskVars, bookVars, userVars, endVars
  <2>7. lpc' = "idle" => next.op = "None"
    BY <1>5 DEF Abort, Take, Cancel, Kill, Mark, Report, Settle, AbortOver, Nexts, TasksTypeOK,
           LoopTypes
  <2>2. Range(Append(history, Marker)) = Range(history) \cup {Marker}
    BY HistoryAppend
  <2>3. Recorded' = Recorded
    BY <2>1, <2>2 DEF Recorded
  <2>4. ApartInv' /\ QueueInv' /\ RisingInv' /\ \A i \in Inputs : Somewhere(i)' => Somewhere(i)
    BY <1>2, <2>1, <2>3
  <2>5. SentInv'
    BY <2>1, <2>4, <2>7 DEF SentInv
  <2>6. InputsInOrder'
    <3>1. CASE history' = history
      BY <2>1, <3>1 DEF InputsInOrder
    <3>2. CASE history' = Append(history, Marker)
      BY <2>1, <3>2, MarkerInOrder
    <3> QED
      BY <2>1, <3>1, <3>2
  <2> QED
    BY <2>4, <2>5, <2>6
(* The input of the new turn is later than all that is anywhere.           *)
<1>6. CASE Spawn
  <2>1. active = NoTurn /\ spawned < MaxTurn /\ next.op \in {"Regular", "Other"}
    BY <1>6 DEF Spawn, TurnInv, LoopInv, BoundInv
  <2>0. PICK n \in Turns : n = spawned + 1
    BY <2>1, TasksAssumption DEF Turns, TasksTypeOK, LoopTypes
  <2>2. /\ UNCHANGED <<held, history, strays, killed, sent>>
        /\ next' = Nothing /\ pending' = << >>
        /\ tpc' = [tpc EXCEPT ![n] = IF next.op = "Regular" THEN "record" ELSE "work"]
        /\ input' = [input EXCEPT ![n] = next.item]
    BY <1>6, <2>0, <2>1 DEF Spawn, bookVars, endVars
  <2>3. n \in Turns /\ tpc[n] = "none"
    <3>1. spawned < n
      BY <2>0
    <3> QED
      BY <3>1 DEF TurnInv, FreshInv
  <2>4. Recorded' = Recorded /\ \A t \in Turns \ {n} : Hand(t)' = Hand(t)
    BY <2>2, <2>3 DEF Recorded, Hand
  <2>5. Hand(n) = {} /\ Hand(n)' \subseteq {next.item} \ {NoInput}
    <3>1. tpc'[n] = (IF next.op = "Regular" THEN "record" ELSE "work") /\ input'[n] = next.item
      BY <2>2, <2>3
    <3>2. Hand(n) = {}
      BY <2>3 DEF Hand
    <3>3. CASE next.op = "Regular"
      BY <3>1, <3>2, <3>3 DEF Hand
    <3>4. CASE next.op = "Other"
      BY <3>1, <3>2, <3>4 DEF Hand
    <3> QED
      BY <2>1, <3>3, <3>4
  <2>13. Range(pending') = {}
    BY <2>2
  <2>6. \A i \in Hand(n)' : /\ i \in Inputs /\ i = next.item
                            /\ \A j \in Inputs : Somewhere(j) => j < i /\ j # i
    <3>1. next.item \in Inputs \cup {NoInput}
      BY DEF Nexts
    <3> QED
      BY <2>5, <3>1 DEF SentInv, Inputs
  <2>7. next.item # NoInput => next.item <= sent
    BY DEF SentInv
  <2>8. SentInv'
    <3>1. \A i \in Inputs : Somewhere(i)' => Somewhere(i) \/ i \in Hand(n)'
      BY <2>3, <2>4, <2>13 DEF Somewhere
    <3> QED
      BY <2>2, <2>5, <2>7, <3>1 DEF SentInv, Nothing
  <2>9. ApartInv'
    <3>1. ASSUME NEW i \in Inputs, i \in Hand(n)'
          PROVE  i \notin Recorded' \cup Range(pending') /\ \A u \in Turns \ {n} : i \notin Hand(u)'
      BY <2>4, <2>6, <2>13, <3>1 DEF Somewhere
    <3>2. ASSUME NEW i \in Inputs, NEW t \in Turns \ {n}, i \in Hand(t)'
          PROVE  /\ i \notin Recorded' \cup Range(pending')
                 /\ \A u \in Turns \ {t} : i \notin Hand(u)'
      <4>1. i \in Hand(t) /\ Somewhere(i)
        BY <2>4, <3>2 DEF Somewhere
      <4>2. i \notin Hand(n)'
        BY <2>6, <4>1
      <4>3. i \notin Recorded
        BY <4>1 DEF ApartInv
      <4>4. ASSUME NEW u \in Turns \ {t} PROVE i \notin Hand(u)'
        <5>1. CASE u = n
          BY <4>2, <5>1
        <5>2. CASE u # n
          BY <2>4, <4>1, <5>2 DEF ApartInv
        <5> QED
          BY <5>1, <5>2
      <4> QED
        BY <2>4, <2>13, <4>3, <4>4
    <3> QED
      BY <2>13, <3>1, <3>2 DEF ApartInv
  <2>10. QueueInv'
    <3>1. ASSUME NEW i \in Inputs, NEW j \in Inputs, i \in Recorded' \ strays', j \in Hand(n)'
          PROVE  i < j
      BY <2>4, <2>6, <3>1 DEF Somewhere
    <3>2. ASSUME NEW i \in Inputs, NEW j \in Inputs, NEW t \in Turns \ {n}, ~killed[t],
                 i \in Recorded' \ strays', j \in Hand(t)'
          PROVE  i < j
      BY <2>2, <2>4, <3>2 DEF QueueInv
    <3> QED
      BY <2>2, <2>13, <3>1, <3>2 DEF QueueInv
  <2>11. RisingInv'
    BY <2>2, <2>3 DEF RisingInv, Rising
  <2>12. InputsInOrder'
    BY <2>2 DEF InputsInOrder
  <2> QED
    BY <2>8, <2>9, <2>10, <2>11, <2>12
<1> QED
  BY <1>1, <1>3, <1>4, <1>5, <1>6 DEF Loop

THEOREM OrderInvariant == Spec => []OrderInv
<1>1. TasksTypeOK /\ BoundInv /\ TurnInv /\ OrderInv /\ [Next]_vars => OrderInv'
  <2> SUFFICES ASSUME TasksTypeOK, BoundInv, TurnInv, OrderInv, [Next]_vars PROVE OrderInv'
    OBVIOUS
  <2>1. CASE Loop
    BY <2>1, OrderLoop
  <2>2. ASSUME NEW t \in Turns, Task(t) PROVE OrderInv'
    BY <2>2, SetsTask, RisingTask, InOrderTask DEF OrderInv
  <2>3. CASE AskInterrupt \/ UNCHANGED vars
    <3>1. UNCHANGED <<tpc, held, input, history, strays, killed, pending, sent, next, lpc>>
      BY <2>3 DEF AskInterrupt, vars, turnVars, loopVars, taskVars, bookVars, userVars, endVars
    <3>2. Recorded' = Recorded /\ \A t \in Turns : Hand(t)' = Hand(t)
      BY <3>1 DEF Recorded, Hand
    <3>3. SentInv' /\ ApartInv' /\ QueueInv'
      BY <3>1, <3>2 DEF OrderInv, SentInv, Somewhere, ApartInv, QueueInv
    <3>4. RisingInv' /\ InputsInOrder'
      BY <3>1 DEF OrderInv, RisingInv, Rising, InputsInOrder
    <3> QED
      BY <3>3, <3>4 DEF OrderInv
  <2> QED
    BY <2>1, <2>2, <2>3 DEF Next
<1> QED
  BY <1>1, OrderInit, TurnInvariant, PTL DEF Spec

(* The inputs of the user stand in the history once and in the order they  *)
(* were sent, except for what a task that outlived its abort still had:    *)
(* the loop's item, the buffer, the hands and the history form a queue.    *)
THEOREM InputsInOrderCorrect == Spec => []InputsInOrder
<1>1. OrderInv => InputsInOrder
  BY DEF OrderInv
<1> QED
  BY <1>1, OrderInvariant, PTL
=============================================================================
