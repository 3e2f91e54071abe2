------------------------- MODULE ThreadGoalsProofs -------------------------
(***************************************************************************)
(* What holds of ThreadGoals for any number of turns, goals, tokens and    *)
(* requests and any budgets.                                               *)
(*                                                                         *)
(* The row is kept within its budget by each statement alone, whatever was *)
(* read before it; a turn ends what it expects, and expects only what it   *)
(* was told of.                                                            *)
(***************************************************************************)
EXTENDS ThreadGoals, TLAPS

USE BoundsAssumption, EditsAssumption

Goals == [id : {NoId} \cup GoalIds, status : Status \cup {"none"}, used : Nat,
          budget : Nat \cup {NoBudget}]
Contexts == [prog : BOOLEAN, expected : {NoId} \cup GoalIds, account : {NoId} \cup GoalIds,
             start : Nat \cup {NoStart}, told : SUBSET ({NoId} \cup GoalIds)]
Args == [id : {NoId} \cup GoalIds, status : Status, budget : Nat \cup {NoBudget}]

(* The row.                                                                *)
RowInv == goal \in Goals /\ ids \in 0 .. MaxGoal /\ BudgetHeld

(* A turn expects no goal that it was not told of.                         *)
Told(c) == c.expected # NoId => c.expected \in c.told
CtxInv == ctx \in [Turns -> Contexts] /\ \A t \in Turns : Told(ctx[t])

(* Where the actors stand.                                                 *)
PcInv ==
    /\ pc \in [Actors -> LoopAt \cup TaskAt] /\ pc[Loop] \in LoopAt
    /\ next \in [Actors -> LoopNext \cup TaskNext] /\ next[Loop] \in LoopNext

(* What they settle with.                                                  *)
SettleInv ==
    /\ seen \in [Actors -> Nat]
    /\ bills \in [Actors -> {NoId} \cup GoalIds]
    /\ mode \in [Actors -> Status \cup {"none"}]

(* The loop knows the turn it settles or aborts.                           *)
Aimed == {"lock", "bill", "kill", "killed", "pause", "drop"}
AimInv == aim \in {NoTurn} \cup Turns /\ (pc[Loop] \in Aimed => aim \in Turns)

LoopInv ==
    /\ programmer \in BOOLEAN /\ permit \in BOOLEAN /\ rest \in BOOLEAN
    /\ total \in Nat /\ asked \in Nat
    /\ active \in {NoTurn} \cup Turns /\ turns \in Nat
    /\ lock \in [Turns -> Actors \cup {Free}]
    /\ arg \in Args
    /\ strays = {}

(* A turn that the loop is about to start was not started yet.             *)
Starts == {"again", "submit", "drop"}
Settling == {"kill", "killed", "lock", "bill"}
ReadyInv ==
    /\ turns \in 0 .. MaxTurn
    /\ pc[Loop] \in Starts => Ready
    /\ next[Loop] = "drop" => Ready /\ pc[Loop] \in Settling

GoalsInv == RowInv /\ CtxInv /\ PcInv /\ SettleInv /\ AimInv /\ ReadyInv /\ LoopInv

LEMMA Facts ==
    /\ Loop \in Actors /\ Loop \notin Turns /\ NoTurn \notin Turns
    /\ \A t \in Turns : t \in Actors /\ t # Loop
    /\ NoId \notin GoalIds
    /\ Stopped \subseteq Status /\ "active" \in Status
    /\ LoopNext \subseteq LoopAt /\ TaskNext \subseteq TaskAt
BY DEF Loop, Actors, Turns, NoTurn, NoId, GoalIds, Status, Stopped, LoopNext, LoopAt, TaskNext, TaskAt

-----------------------------------------------------------------------------
(* The statements.                                                         *)

LEMMA InsertRow == ASSUME RowInv, ids < MaxGoal, Insert PROVE RowInv'
<1>1. goal' \in Goals /\ ids' \in 0 .. MaxGoal
  BY DEF RowInv, Insert, NewGoal, Goals, GoalIds, NoBudget, Status
<1>2. BudgetHeld'
  BY DEF Insert, NewGoal, BudgetHeld, Spent, NoBudget
<1> QED BY <1>1, <1>2 DEF RowInv

(* Limiting a goal that has used up its budget.                            *)
LEMMA LimitedGoal ==
    ASSUME NEW g \in Goals
    PROVE Limited(g) \in Goals /\ (Limited(g).status = "active" => ~Spent(Limited(g)))
<1>1. CASE g.status = "active" /\ Spent(g)
  <2>1. Limited(g) = [g EXCEPT !.status = "budget_limited"]
    BY <1>1 DEF Limited
  <2> QED BY <2>1 DEF Goals, Status
<1>2. CASE ~(g.status = "active" /\ Spent(g))
  <2>1. Limited(g) = g
    BY <1>2 DEF Limited, Goals
  <2> QED BY <2>1, <1>2
<1> QED BY <1>1, <1>2

LEMMA StatusGoal ==
    ASSUME NEW g \in Goals, NEW s \in Status
    PROVE /\ WithStatus(g, s) \in Goals
          /\ WithStatus(g, s).status = "active" => ~Spent(WithStatus(g, s))
<1>1. CASE g.status = "budget_limited" /\ s \in {"paused", "blocked"}
  BY <1>1 DEF WithStatus
<1>2. CASE ~(g.status = "budget_limited" /\ s \in {"paused", "blocked"})
  <2>1. [g EXCEPT !.status = s] \in Goals
    BY DEF Goals
  <2>2. WithStatus(g, s) = Limited([g EXCEPT !.status = s])
    BY <1>2 DEF WithStatus
  <2> QED BY <2>1, <2>2, LimitedGoal
<1> QED BY <1>1, <1>2

(* A goal that is billed is limited when it is active, whatever its status *)
(* was when it was read.                                                   *)
LEMMA ChargedGoal ==
    ASSUME NEW g \in Goals, NEW m, NEW d \in Nat
    PROVE /\ Charge(g, m, d) \in Goals
          /\ Charge(g, m, d).status = "active" => ~Spent(Charge(g, m, d))
<1> DEFINE paid == [g EXCEPT !.used = @ + d]
<1>1. paid \in Goals
  BY DEF Goals
<1>2. "active" \in Capped(m)
  BY DEF Capped, Billed, Stopped
<1>3. CASE paid.status \in Capped(m) /\ Spent(paid)
  <2>1. Charge(g, m, d) = [paid EXCEPT !.status = "budget_limited"]
    BY <1>3 DEF Charge
  <2> QED BY <2>1, <1>1 DEF Goals, Status
<1>4. CASE ~(paid.status \in Capped(m) /\ Spent(paid))
  <2>1. Charge(g, m, d) = paid
    BY <1>4, <1>1 DEF Charge, Goals
  <2> QED BY <2>1, <1>1, <1>2, <1>4
<1> QED BY <1>3, <1>4

LEMMA OwedNat ==
    ASSUME CtxInv, SettleInv, NEW a \in Actors, Of(a) \in Turns
    PROVE Owed(a) \in Nat
<1>1. ctx[Of(a)].start \in Nat \cup {NoStart} /\ seen[a] \in Nat
  BY DEF CtxInv, Contexts, SettleInv
<1> QED BY <1>1 DEF Owed, NoStart

LEMMA EndRow ==
    ASSUME GoalsInv, NEW t \in Turns, NEW s \in Status, End(t, s), UNCHANGED ids
    PROVE RowInv' /\ UNCHANGED strays
<1>1. CASE Hits(t)
  <2>1. goal' = WithStatus(goal, s)
    BY <1>1 DEF End
  <2>2. goal.id \in ctx[t].told
    BY <1>1 DEF Hits, GoalsInv, CtxInv, Told
  <2>3. UNCHANGED strays
    BY <1>1, <2>2 DEF End
  <2> QED BY <2>1, <2>3, StatusGoal DEF GoalsInv, RowInv, BudgetHeld
<1>2. CASE ~Hits(t)
  BY <1>2 DEF End, GoalsInv, RowInv, BudgetHeld
<1> QED BY <1>1, <1>2

-----------------------------------------------------------------------------
(* Moves of an actor.                                                      *)

LEMMA GotoPc ==
    ASSUME PcInv, NEW a \in Actors, NEW p, Goto(a, p),
           p \in LoopAt \cup TaskAt, a = Loop => p \in LoopAt
    PROVE PcInv'
BY Facts DEF PcInv, Goto

LEMMA GotoAim ==
    ASSUME PcInv, AimInv, NEW a \in Actors, NEW p, Goto(a, p), UNCHANGED aim,
           a = Loop => (p \notin Aimed \/ aim \in Turns)
    PROVE AimInv'
BY Facts DEF PcInv, Goto, AimInv

LEMMA GotoReady ==
    ASSUME PcInv, ReadyInv, NEW a \in Actors, NEW p, Goto(a, p), UNCHANGED turns,
           a = Loop => (p \notin Starts \/ Ready) /\ (pc[Loop] \in Settling => p \in Settling)
    PROVE ReadyInv'
BY Facts DEF PcInv, Goto, ReadyInv, Ready

LEMMA SettlePc ==
    ASSUME PcInv, CtxInv, SettleInv, total \in Nat, NEW a \in Actors, NEW t \in Turns, NEW p,
           Settle(a, t, p), p \in LoopNext \cup TaskNext, a = Loop => p \in LoopNext
    PROVE PcInv' /\ SettleInv'
<1>1. ctx[t].account \in {NoId} \cup GoalIds
  BY DEF CtxInv, Contexts
<1>2. pc' = [pc EXCEPT ![a] = "lock"] \/ pc' = [pc EXCEPT ![a] = p]
  BY DEF Settle
<1>3. next' = [next EXCEPT ![a] = p] \/ next' = [next EXCEPT ![a] = "idle"]
  BY DEF Settle
<1>4. "lock" \in LoopAt /\ "idle" \in LoopNext
  BY DEF LoopAt, LoopNext
<1>5. PcInv'
  BY <1>2, <1>3, <1>4, Facts DEF PcInv
<1>6. seen' = [seen EXCEPT ![a] = total] \/ seen' = [seen EXCEPT ![a] = 0]
  BY DEF Settle
<1>7. SettleInv'
  BY <1>1, <1>6 DEF Settle, SettleInv
<1> QED BY <1>5, <1>7

LEMMA LeavePc ==
    ASSUME PcInv, SettleInv, AimInv, NEW a \in Actors, a = Loop => aim \in Turns, Leave(a)
    PROVE PcInv' /\ SettleInv' /\ AimInv'
<1>1. PcInv'
  BY Facts DEF PcInv, Leave, LoopNext
<1>2. SettleInv'
  BY DEF SettleInv, Leave, Status
<1>3. AimInv'
  <2>1. CASE a = Loop /\ ~IsFinal(a)
    <3>1. aim' = NoTurn /\ pc'[Loop] = next[Loop] /\ next[Loop] \in LoopNext \ {"pause", "drop"}
      BY <2>1, Facts DEF Leave, PcInv, IsFinal
    <3> QED BY <3>1 DEF AimInv, Aimed, LoopNext
  <2>2. CASE a = Loop /\ IsFinal(a)
    BY <2>2 DEF Leave, AimInv
  <2>3. CASE a # Loop
    BY <2>3, Facts DEF Leave, AimInv, PcInv
  <2> QED BY <2>1, <2>2, <2>3
<1> QED BY <1>1, <1>2, <1>3

LEMMA LeaveReady ==
    ASSUME PcInv, ReadyInv, NEW a \in Actors, Leave(a), UNCHANGED turns PROVE ReadyInv'
BY Facts DEF PcInv, Leave, ReadyInv, Ready, Starts, LoopNext

LEMMA ForgetCtx == ASSUME CtxInv, NEW t, Forget(t) PROVE CtxInv'
<1>1. NoContext \in Contexts /\ Told(NoContext)
  BY DEF NoContext, Contexts, Told, NoStart
<1> QED BY <1>1 DEF Forget, CtxInv

LEMMA MadeCtx ==
    ASSUME CtxInv, NEW p \in BOOLEAN, NEW e \in {NoId} \cup GoalIds,
           NEW a \in {NoId} \cup GoalIds, Context(p, e, a)
    PROVE CtxInv'
<1> DEFINE c == [NoContext EXCEPT !.prog = p, !.expected = e, !.account = a, !.told = {e} \ {NoId}]
<1>1. c \in Contexts /\ Told(c)
  BY DEF NoContext, Contexts, Told, NoStart
<1> QED BY <1>1 DEF Context, CtxInv

LEMMA SettleTask ==
    ASSUME GoalsInv, NEW t \in Turns, NEW p \in TaskNext, Settle(t, t, p), UNCHANGED <<aim, turns>>
    PROVE PcInv' /\ SettleInv' /\ AimInv' /\ ReadyInv'
<1>1. PcInv' /\ SettleInv'
  BY SettlePc, Facts DEF GoalsInv, LoopInv
<1>2. pc'[Loop] = pc[Loop] /\ next'[Loop] = next[Loop]
  BY Facts DEF GoalsInv, PcInv, Settle
<1> QED BY <1>1, <1>2 DEF GoalsInv, AimInv, ReadyInv, Ready

-----------------------------------------------------------------------------
(* The task.                                                               *)

LEMMA AnswerStep == ASSUME GoalsInv, NEW t \in Turns, Answer(t) PROVE GoalsInv'
<1>1. RowInv'
  BY Facts DEF GoalsInv, RowInv, BudgetHeld, rowVars, Answer
<1>2. CtxInv'
  BY Facts DEF GoalsInv, CtxInv, turnVars, Answer
<1>3. PcInv'
  BY Facts DEF GoalsInv, PcInv, Answer
<1>4. SettleInv'
  BY Facts DEF GoalsInv, SettleInv, settleVars, Answer
<1>5. AimInv'
  BY Facts DEF GoalsInv, AimInv, loopVars, PcInv, Answer
<1>6. ReadyInv'
  BY Facts DEF GoalsInv, ReadyInv, Ready, PcInv, Starts, Settling, turnVars, Answer
<1>7. LoopInv'
  BY DEF GoalsInv, LoopInv, Answer, loopVars, sessionVars, turnVars
<1> QED BY <1>1, <1>2, <1>3, <1>4, <1>5, <1>6, <1>7 DEF GoalsInv

LEMMA GetStep == ASSUME GoalsInv, NEW t \in Turns, Get(t) PROVE GoalsInv'
<1>1. Goto(t, "run")
  BY DEF Get
<1>2. RowInv'
  BY Facts DEF GoalsInv, RowInv, BudgetHeld, rowVars, Get
<1>3. CtxInv'
  <2>1. CASE UNCHANGED ctx
    BY <2>1 DEF GoalsInv, CtxInv
  <2>2. CASE /\ goal.id # NoId
             /\ ctx' = [ctx EXCEPT ![t].expected = goal.id, ![t].told = @ \cup {goal.id}]
    <3>1. goal.id \in GoalIds
      BY <2>2 DEF GoalsInv, RowInv, Goals
    <3> QED BY <2>2, <3>1 DEF GoalsInv, CtxInv, Contexts, Told
  <2> QED BY <2>1, <2>2 DEF Get
<1>4. PcInv'
  BY <1>1, Facts, GotoPc DEF GoalsInv, LoopAt, LoopNext, TaskAt, TaskNext
<1>5. SettleInv'
  BY Facts DEF GoalsInv, SettleInv, settleVars, Get
<1>6. AimInv'
  BY <1>1, Facts, GotoAim DEF GoalsInv, Aimed, loopVars, Get
<1>7. ReadyInv'
  BY <1>1, Facts, GotoReady DEF GoalsInv, turnVars, Get
<1>8. LoopInv'
  BY Facts DEF GoalsInv, LoopInv, loopVars, sessionVars, turnVars, Get
<1> QED BY <1>2, <1>3, <1>4, <1>5, <1>6, <1>7, <1>8 DEF GoalsInv

LEMMA BindStep == ASSUME GoalsInv, NEW t \in Turns, Bind(t) PROVE GoalsInv'
<1>1. Goto(t, "baseline")
  BY DEF Bind
<1>2. RowInv'
  BY Facts DEF GoalsInv, RowInv, BudgetHeld, rowVars, Bind
<1>3. CtxInv'
  <2>1. bills[t] \in {NoId} \cup GoalIds
    BY Facts DEF GoalsInv, SettleInv
  <2>2. ctx[t] \in Contexts
    BY DEF GoalsInv, CtxInv
  <2> QED BY <2>1, <2>2 DEF GoalsInv, CtxInv, Contexts, Told, Bind
<1>4. PcInv'
  BY <1>1, Facts, GotoPc DEF GoalsInv, LoopAt, LoopNext, TaskAt, TaskNext
<1>5. SettleInv'
  BY Facts DEF GoalsInv, SettleInv, settleVars, Bind
<1>6. AimInv'
  BY <1>1, Facts, GotoAim DEF GoalsInv, Aimed, loopVars, Bind
<1>7. ReadyInv'
  BY <1>1, Facts, GotoReady DEF GoalsInv, turnVars, Bind
<1>8. LoopInv'
  BY Facts DEF GoalsInv, LoopInv, loopVars, sessionVars, turnVars, Bind
<1> QED BY <1>2, <1>3, <1>4, <1>5, <1>6, <1>7, <1>8 DEF GoalsInv

LEMMA CreateStep == ASSUME GoalsInv, NEW t \in Turns, Create(t) PROVE GoalsInv'
<1>1. \E p \in {"bind", "run"} : Goto(t, p)
  BY DEF Create
<1>2. RowInv'
  <2>1. CASE CanInsert /\ Insert
    BY <2>1, InsertRow DEF GoalsInv, CanInsert
  <2>2. CASE UNCHANGED rowVars
    BY <2>2 DEF GoalsInv, RowInv, BudgetHeld, rowVars
  <2> QED BY <2>1, <2>2 DEF Create
<1>3. CtxInv'
  BY Facts DEF GoalsInv, CtxInv, turnVars, Create
<1>4. PcInv'
  BY <1>1, Facts, GotoPc DEF GoalsInv, LoopAt, LoopNext, TaskAt, TaskNext
<1>5. SettleInv'
  <2>1. CASE CanInsert /\ bills' = [bills EXCEPT ![t] = ids + 1]
    <3>1. ids + 1 \in GoalIds
      BY <2>1 DEF GoalsInv, RowInv, CanInsert, GoalIds
    <3> QED BY <2>1, <3>1 DEF GoalsInv, SettleInv, Create
  <2>2. CASE UNCHANGED bills
    BY <2>2 DEF GoalsInv, SettleInv, Create
  <2> QED BY <2>1, <2>2 DEF Create
<1>6. AimInv'
  BY <1>1, Facts, GotoAim DEF GoalsInv, Aimed, loopVars, Create
<1>7. ReadyInv'
  BY <1>1, Facts, GotoReady DEF GoalsInv, turnVars, Create
<1>8. LoopInv'
  BY Facts DEF GoalsInv, LoopInv, loopVars, sessionVars, turnVars, Create
<1> QED BY <1>2, <1>3, <1>4, <1>5, <1>6, <1>7, <1>8 DEF GoalsInv

LEMMA BaselineStep == ASSUME GoalsInv, NEW t \in Turns, Baseline(t) PROVE GoalsInv'
<1>1. Goto(t, "run")
  BY DEF Baseline
<1>2. RowInv'
  BY Facts DEF GoalsInv, RowInv, BudgetHeld, rowVars, Baseline
<1>3. CtxInv'
  BY DEF GoalsInv, CtxInv, Contexts, Told, LoopInv, Baseline
<1>4. PcInv'
  BY <1>1, Facts, GotoPc DEF GoalsInv, LoopAt, LoopNext, TaskAt, TaskNext
<1>5. SettleInv'
  BY Facts DEF GoalsInv, SettleInv, settleVars, Baseline
<1>6. AimInv'
  BY <1>1, Facts, GotoAim DEF GoalsInv, Aimed, loopVars, Baseline
<1>7. ReadyInv'
  BY <1>1, Facts, GotoReady DEF GoalsInv, turnVars, Baseline
<1>8. LoopInv'
  BY Facts DEF GoalsInv, LoopInv, loopVars, sessionVars, turnVars, Baseline
<1> QED BY <1>2, <1>3, <1>4, <1>5, <1>6, <1>7, <1>8 DEF GoalsInv

LEMMA EndGoalStep == ASSUME GoalsInv, NEW t \in Turns, EndGoal(t) PROVE GoalsInv'
<1>1. Goto(t, "run")
  BY DEF EndGoal
<1>2. RowInv' /\ UNCHANGED strays
  <2>1. pc[t] \in Status /\ ids' = ids
    BY DEF EndGoal, Status, Stopped
  <2>2. CASE End(t, pc[t])
    BY <2>1, <2>2, EndRow
  <2>3. CASE UNCHANGED <<goal, strays>>
    BY <2>1, <2>3 DEF GoalsInv, RowInv, BudgetHeld
  <2> QED BY <2>2, <2>3 DEF EndGoal
<1>3. RowInv'
  BY <1>2
<1>4. CtxInv'
  BY Facts DEF GoalsInv, CtxInv, turnVars, EndGoal
<1>5. PcInv'
  BY <1>1, Facts, GotoPc DEF GoalsInv, LoopAt, LoopNext, TaskAt, TaskNext
<1>6. SettleInv'
  BY Facts DEF GoalsInv, SettleInv, settleVars, EndGoal
<1>7. AimInv'
  BY <1>1, Facts, GotoAim DEF GoalsInv, Aimed, loopVars, EndGoal
<1>8. ReadyInv'
  BY <1>1, Facts, GotoReady DEF GoalsInv, turnVars, EndGoal
<1>9. LoopInv'
  BY <1>2 DEF GoalsInv, LoopInv, EndGoal, loopVars, sessionVars, turnVars
<1> QED BY <1>3, <1>4, <1>5, <1>6, <1>7, <1>8, <1>9 DEF GoalsInv

LEMMA OverStep == ASSUME GoalsInv, NEW t \in Turns, Over(t) PROVE GoalsInv'
<1>1. \E p \in {"finish", "done"} : Goto(t, p)
  BY DEF Over
<1>2. RowInv'
  BY Facts DEF GoalsInv, RowInv, BudgetHeld, rowVars, Over
<1>3. CtxInv'
  BY Facts DEF GoalsInv, CtxInv, turnVars, Over
<1>4. PcInv'
  BY <1>1, Facts, GotoPc DEF GoalsInv, LoopAt, LoopNext, TaskAt, TaskNext
<1>5. SettleInv'
  BY Facts DEF GoalsInv, SettleInv, settleVars, Over
<1>6. AimInv'
  BY <1>1, Facts, GotoAim DEF GoalsInv, Aimed, loopVars, Over
<1>7. ReadyInv'
  BY <1>1, Facts, GotoReady DEF GoalsInv, turnVars, Over
<1>8. LoopInv'
  BY Facts DEF GoalsInv, LoopInv, loopVars, sessionVars, turnVars, Over
<1> QED BY <1>2, <1>3, <1>4, <1>5, <1>6, <1>7, <1>8 DEF GoalsInv

LEMMA CallStep == ASSUME GoalsInv, NEW t \in Turns, Call(t) PROVE GoalsInv'
<1>1. PcInv' /\ SettleInv' /\ AimInv' /\ ReadyInv'
  <2>1. UNCHANGED <<aim, turns>>
    BY DEF Call, loopVars, turnVars
  <2>2. CASE Goto(t, "create") /\ UNCHANGED settleVars
    <3>1. SettleInv'
      BY <2>2 DEF GoalsInv, SettleInv, settleVars
    <3>2. "create" \in TaskAt
      BY DEF TaskAt
    <3> QED BY <2>1, <2>2, <3>1, <3>2, Facts, GotoPc, GotoAim, GotoReady DEF GoalsInv
  <2>3. CASE \E tool \in {"get", "complete", "blocked"} : Settle(t, t, tool)
    <3>1. {"get", "complete", "blocked"} \subseteq TaskNext
      BY DEF TaskNext
    <3> QED BY <2>1, <2>3, <3>1, SettleTask
  <2> QED BY <2>2, <2>3 DEF Call
<1>2. RowInv'
  BY Facts DEF GoalsInv, RowInv, BudgetHeld, rowVars, Call
<1>3. CtxInv'
  BY Facts DEF GoalsInv, CtxInv, turnVars, Call
<1>4. PcInv'
  BY <1>1
<1>5. SettleInv'
  BY <1>1
<1>6. AimInv'
  BY <1>1
<1>7. ReadyInv'
  BY <1>1
<1>8. LoopInv'
  BY Facts DEF GoalsInv, LoopInv, loopVars, sessionVars, turnVars, Call
<1> QED BY <1>2, <1>3, <1>4, <1>5, <1>6, <1>7, <1>8 DEF GoalsInv

LEMMA FinishStep == ASSUME GoalsInv, NEW t \in Turns, Finish(t) PROVE GoalsInv'
<1>1. PcInv' /\ SettleInv' /\ AimInv' /\ ReadyInv'
  <2>1. UNCHANGED <<aim, turns>>
    BY DEF Finish, loopVars
  <2>2. CASE Goto(t, "done") /\ UNCHANGED settleVars
    <3>1. SettleInv'
      BY <2>2 DEF GoalsInv, SettleInv, settleVars
    <3>2. "done" \in TaskAt
      BY DEF TaskAt
    <3> QED BY <2>1, <2>2, <3>1, <3>2, Facts, GotoPc, GotoAim, GotoReady DEF GoalsInv
  <2>3. CASE Settle(t, t, "notify")
    <3>1. "notify" \in TaskNext
      BY DEF TaskNext
    <3> QED BY <2>1, <2>3, <3>1, SettleTask
  <2> QED BY <2>2, <2>3 DEF Finish
<1>2. RowInv'
  BY Facts DEF GoalsInv, RowInv, BudgetHeld, rowVars, Finish
<1>3. CtxInv'
  BY Facts DEF GoalsInv, CtxInv, turnVars, Finish
<1>4. PcInv'
  BY <1>1
<1>5. SettleInv'
  BY <1>1
<1>6. AimInv'
  BY <1>1
<1>7. ReadyInv'
  BY <1>1
<1>8. LoopInv'
  <2>1. active' \in {NoTurn, active}
    BY DEF Finish
  <2> QED BY <2>1 DEF GoalsInv, LoopInv, Finish, loopVars, sessionVars
<1> QED BY <1>2, <1>3, <1>4, <1>5, <1>6, <1>7, <1>8 DEF GoalsInv

LEMMA NotifyStep == ASSUME GoalsInv, NEW t \in Turns, Notify(t) PROVE GoalsInv'
<1>1. Goto(t, "done") /\ Forget(t)
  BY DEF Notify
<1>2. RowInv'
  BY Facts DEF GoalsInv, RowInv, BudgetHeld, rowVars, Notify
<1>3. CtxInv'
  BY <1>1, ForgetCtx DEF GoalsInv
<1>4. PcInv'
  BY <1>1, Facts, GotoPc DEF GoalsInv, LoopAt, LoopNext, TaskAt, TaskNext
<1>5. SettleInv'
  BY Facts DEF GoalsInv, SettleInv, settleVars, Notify
<1>6. AimInv'
  BY <1>1, Facts, GotoAim DEF GoalsInv, Aimed, loopVars, Notify
<1>7. ReadyInv'
  BY <1>1, Facts, GotoReady DEF GoalsInv, TaskAt, Forget
<1>8. LoopInv'
  BY <1>1 DEF GoalsInv, LoopInv, Notify, Forget
<1> QED BY <1>2, <1>3, <1>4, <1>5, <1>6, <1>7, <1>8 DEF GoalsInv

-----------------------------------------------------------------------------
(* Settling.                                                               *)

LEMMA LockStep == ASSUME GoalsInv, NEW a \in Actors, Lock(a) PROVE GoalsInv'
<1>1. a = Loop => aim \in Turns
  BY DEF GoalsInv, AimInv, Aimed, Lock
<1>2. UNCHANGED <<rowVars, turnVars, sessionVars, strays, total>>
  BY DEF Lock
<1>3. RowInv' /\ CtxInv'
  BY <1>2 DEF GoalsInv, RowInv, BudgetHeld, CtxInv, rowVars, turnVars
<1>4. CASE Leave(a) /\ UNCHANGED lock
  <2>1. PcInv' /\ SettleInv' /\ AimInv' /\ ReadyInv'
    BY <1>1, <1>2, <1>4, LeavePc, LeaveReady DEF GoalsInv, turnVars
  <2>2. LoopInv'
    BY <1>2, <1>4 DEF GoalsInv, LoopInv, turnVars, sessionVars
  <2> QED BY <1>3, <2>1, <2>2 DEF GoalsInv
<1>5. CASE /\ Goto(a, "bill") /\ lock' = [lock EXCEPT ![Of(a)] = a]
           /\ mode' = [mode EXCEPT ![a] = goal.status] /\ UNCHANGED <<seen, bills, aim>>
  <2>1. PcInv' /\ AimInv' /\ ReadyInv'
    BY <1>1, <1>2, <1>5, GotoPc, GotoAim, GotoReady
       DEF GoalsInv, turnVars, Starts, Settling, LoopAt, Lock
  <2>2. SettleInv'
    <3>1. goal.status \in Status \cup {"none"}
      BY DEF GoalsInv, RowInv, Goals
    <3> QED BY <3>1, <1>5 DEF GoalsInv, SettleInv
  <2>3. LoopInv'
    BY <1>2, <1>5 DEF GoalsInv, LoopInv, turnVars, sessionVars
  <2> QED BY <1>3, <2>1, <2>2, <2>3 DEF GoalsInv
<1> QED BY <1>4, <1>5 DEF Lock

LEMMA BillStep == ASSUME GoalsInv, NEW a \in Actors, Bill(a) PROVE GoalsInv'
<1>1. /\ a = Loop => aim \in Turns
      /\ Of(a) \in Turns
  BY Facts DEF GoalsInv, AimInv, Aimed, Bill, Of, Actors
<1>2. Leave(a) /\ UNCHANGED <<ids, active, turns, sessionVars, strays, total>>
  BY DEF Bill
<1>3. \/ UNCHANGED <<goal, ctx>>
      \/ \E updated \in BOOLEAN :
            /\ goal' = IF updated THEN Charge(goal, mode[a], Owed(a)) ELSE goal
            /\ ctx' = [ctx EXCEPT ![Of(a)].start =
                          IF IsFinal(a) THEN NoStart ELSE IF updated THEN seen[a] ELSE @]
  <2>1. (\A ticked \in BOOLEAN : ((ticked \/ Owed(a) > 0) /\ Matches(a)) \in BOOLEAN)
    OBVIOUS
  <2> QED BY <2>1 DEF Bill
<1>4. RowInv'
  <2>1. goal' = goal \/ goal' = Charge(goal, mode[a], Owed(a))
    BY <1>3
  <2>2. Owed(a) \in Nat
    BY <1>1, OwedNat DEF GoalsInv
  <2> QED BY <1>2, <2>1, <2>2, ChargedGoal DEF GoalsInv, RowInv, BudgetHeld
<1>5. CtxInv'
  <2>1. seen[a] \in Nat
    BY DEF GoalsInv, SettleInv
  <2>2. ctx' = ctx \/ \E s \in Nat \cup {NoStart} : ctx' = [ctx EXCEPT ![Of(a)].start = s]
    BY <1>1, <1>3, <2>1 DEF GoalsInv, CtxInv, Contexts
  <2>3. CASE ctx' = ctx
    BY <2>3 DEF GoalsInv, CtxInv
  <2>4. ASSUME NEW s \in Nat \cup {NoStart}, ctx' = [ctx EXCEPT ![Of(a)].start = s]
        PROVE CtxInv'
    BY <1>1, <2>4 DEF GoalsInv, CtxInv, Contexts, Told
  <2> QED BY <2>2, <2>3, <2>4
<1>6. PcInv' /\ SettleInv' /\ AimInv' /\ ReadyInv'
  BY <1>1, <1>2, LeavePc, LeaveReady DEF GoalsInv
<1>7. LoopInv'
  BY <1>2 DEF GoalsInv, LoopInv, sessionVars, Bill
<1> QED BY <1>4, <1>5, <1>6, <1>7 DEF GoalsInv

-----------------------------------------------------------------------------
(* The submission loop.                                                    *)

LEMMA InsertGoalStep == ASSUME GoalsInv, InsertGoal PROVE GoalsInv'
<1>1. \E p \in {"check", "reread", "idle"} : Goto(Loop, p)
  BY DEF InsertGoal, Applied
<1>2. RowInv'
  <2>1. CASE CanInsert /\ Insert
    BY <2>1, InsertRow DEF GoalsInv, CanInsert
  <2>2. CASE UNCHANGED rowVars
    BY <2>2 DEF GoalsInv, RowInv, BudgetHeld, rowVars
  <2> QED BY <2>1, <2>2 DEF InsertGoal
<1>3. CtxInv'
  BY Facts DEF GoalsInv, CtxInv, turnVars, InsertGoal
<1>4. PcInv'
  BY <1>1, Facts, GotoPc DEF GoalsInv, LoopAt, LoopNext, TaskAt, TaskNext
<1>5. SettleInv'
  BY Facts DEF GoalsInv, SettleInv, settleVars, InsertGoal
<1>6. AimInv'
  BY <1>1, Facts, GotoAim DEF GoalsInv, Aimed, loopVars, InsertGoal
<1>7. ReadyInv'
  BY <1>1, Facts, GotoReady DEF GoalsInv, Starts, Settling, Idle, Ask, turnVars, InsertGoal
<1>8. LoopInv'
  BY DEF GoalsInv, LoopInv, InsertGoal, Applied, turnVars, rowVars
<1> QED BY <1>2, <1>3, <1>4, <1>5, <1>6, <1>7, <1>8 DEF GoalsInv

LEMMA RereadStep == ASSUME GoalsInv, Reread PROVE GoalsInv'
<1>1. \E p \in {"retry", "idle"} : Goto(Loop, p)
  BY DEF Reread, Applied
<1>2. RowInv'
  BY Facts DEF GoalsInv, RowInv, BudgetHeld, rowVars, Reread
<1>3. CtxInv'
  BY Facts DEF GoalsInv, CtxInv, turnVars, Reread
<1>4. PcInv'
  BY <1>1, Facts, GotoPc DEF GoalsInv, LoopAt, LoopNext, TaskAt, TaskNext
<1>5. SettleInv'
  BY Facts DEF GoalsInv, SettleInv, settleVars, Reread
<1>6. AimInv'
  BY <1>1, Facts, GotoAim DEF GoalsInv, Aimed, loopVars, Reread
<1>7. ReadyInv'
  BY <1>1, Facts, GotoReady DEF GoalsInv, Starts, Settling, Idle, Ask, turnVars, Reread
<1>8. LoopInv'
  BY Facts DEF GoalsInv, LoopInv, loopVars, sessionVars, turnVars, Reread
<1> QED BY <1>2, <1>3, <1>4, <1>5, <1>6, <1>7, <1>8 DEF GoalsInv

LEMMA InjectStep == ASSUME GoalsInv, Inject PROVE GoalsInv'
<1>1. \E p \in {"idle"} : Goto(Loop, p)
  BY DEF Inject, Applied
<1>2. RowInv'
  BY Facts DEF GoalsInv, RowInv, BudgetHeld, rowVars, Inject
<1>3. CtxInv'
  BY Facts DEF GoalsInv, CtxInv, turnVars, Inject
<1>4. PcInv'
  BY <1>1, Facts, GotoPc DEF GoalsInv, LoopAt, LoopNext, TaskAt, TaskNext
<1>5. SettleInv'
  BY Facts DEF GoalsInv, SettleInv, settleVars, Inject
<1>6. AimInv'
  BY <1>1, Facts, GotoAim DEF GoalsInv, Aimed, loopVars, Inject
<1>7. ReadyInv'
  BY <1>1, Facts, GotoReady DEF GoalsInv, Starts, Settling, Idle, Ask, turnVars, Inject
<1>8. LoopInv'
  BY Facts DEF GoalsInv, LoopInv, loopVars, sessionVars, turnVars, Inject
<1> QED BY <1>2, <1>3, <1>4, <1>5, <1>6, <1>7, <1>8 DEF GoalsInv

LEMMA ContinueGoalStep == ASSUME GoalsInv, ContinueGoal PROVE GoalsInv'
<1>1. \E p \in {"check"} : Goto(Loop, p)
  BY DEF ContinueGoal, Applied
<1>2. RowInv'
  BY Facts DEF GoalsInv, RowInv, BudgetHeld, rowVars, ContinueGoal
<1>3. CtxInv'
  BY Facts DEF GoalsInv, CtxInv, turnVars, ContinueGoal
<1>4. PcInv'
  BY <1>1, Facts, GotoPc DEF GoalsInv, LoopAt, LoopNext, TaskAt, TaskNext
<1>5. SettleInv'
  BY Facts DEF GoalsInv, SettleInv, settleVars, ContinueGoal
<1>6. AimInv'
  BY <1>1, Facts, GotoAim DEF GoalsInv, Aimed, loopVars, ContinueGoal
<1>7. ReadyInv'
  BY <1>1, Facts, GotoReady DEF GoalsInv, Starts, Settling, Idle, Ask, turnVars,
    ContinueGoal
<1>8. LoopInv'
  BY Facts DEF GoalsInv, LoopInv, loopVars, sessionVars, turnVars, ContinueGoal
<1> QED BY <1>2, <1>3, <1>4, <1>5, <1>6, <1>7, <1>8 DEF GoalsInv

LEMMA WriteGoalStep == ASSUME GoalsInv, WriteGoal PROVE GoalsInv'
<1>1. \E p \in {"check", "idle"} : Goto(Loop, p)
  BY DEF WriteGoal, Applied, Missed
<1>2. RowInv'
  <2>1. CASE CanWrite /\ pc[Loop] \in {"replace", "plan"} /\ Insert
    BY <2>1, InsertRow DEF GoalsInv, CanWrite
  <2>2. CASE /\ goal' = WithStatus([goal EXCEPT !.budget = arg.budget], arg.status)
             /\ UNCHANGED ids
    <3>1. [goal EXCEPT !.budget = arg.budget] \in Goals /\ arg.status \in Status
      BY DEF GoalsInv, RowInv, LoopInv, Goals, Args
    <3> QED BY <2>2, <3>1, StatusGoal DEF GoalsInv, RowInv, BudgetHeld
  <2>3. CASE goal' = WithStatus(goal, arg.status) /\ UNCHANGED ids
    <3>1. arg.status \in Status
      BY DEF GoalsInv, LoopInv, Args
    <3> QED BY <2>3, <3>1, StatusGoal DEF GoalsInv, RowInv, BudgetHeld
  <2>4. CASE UNCHANGED rowVars
    BY <2>4 DEF GoalsInv, RowInv, BudgetHeld, rowVars
  <2> QED BY <2>1, <2>2, <2>3, <2>4 DEF WriteGoal
<1>3. CtxInv'
  BY Facts DEF GoalsInv, CtxInv, turnVars, WriteGoal
<1>4. PcInv'
  BY <1>1, Facts, GotoPc DEF GoalsInv, LoopAt, LoopNext, TaskAt, TaskNext
<1>5. SettleInv'
  BY Facts DEF GoalsInv, SettleInv, settleVars, WriteGoal
<1>6. AimInv'
  BY <1>1, Facts, GotoAim DEF GoalsInv, Aimed, loopVars, WriteGoal
<1>7. ReadyInv'
  BY <1>1, Facts, GotoReady DEF GoalsInv, Starts, Settling, Idle, Ask, turnVars, WriteGoal
<1>8. LoopInv'
  <2>1. NoArg \in Args /\ rest' \in BOOLEAN
    BY Facts DEF GoalsInv, LoopInv, NoArg, Args, NoBudget, WriteGoal, Applied, Missed
  <2> QED BY <2>1 DEF GoalsInv, LoopInv, WriteGoal, turnVars
<1> QED BY <1>2, <1>3, <1>4, <1>5, <1>6, <1>7, <1>8 DEF GoalsInv

LEMMA ClearStep == ASSUME GoalsInv, Clear PROVE GoalsInv'
<1>1. RowInv'
  <2>1. NoGoal \in Goals
    BY DEF NoGoal, Goals, NoBudget
  <2>2. goal' \in {NoGoal, goal} /\ ids' = ids
    BY DEF Clear
  <2> QED BY <2>1, <2>2 DEF GoalsInv, RowInv, BudgetHeld, NoGoal
<1>2. CtxInv'
  BY Facts DEF GoalsInv, CtxInv, turnVars, Clear
<1>3. PcInv'
  BY Facts DEF GoalsInv, PcInv, Clear
<1>4. SettleInv'
  BY Facts DEF GoalsInv, SettleInv, settleVars, Clear
<1>5. AimInv'
  BY Facts DEF GoalsInv, AimInv, loopVars, PcInv, Clear
<1>6. ReadyInv'
  BY Facts DEF GoalsInv, ReadyInv, Ready, PcInv, Starts, Settling, turnVars, Clear
<1>7. LoopInv'
  BY DEF GoalsInv, LoopInv, Clear, Ask, turnVars
<1> QED BY <1>1, <1>2, <1>3, <1>4, <1>5, <1>6, <1>7 DEF GoalsInv

LEMMA AskPlanStep == ASSUME GoalsInv, AskPlan PROVE GoalsInv'
<1>1. \E p \in {"plan", "idle"} : Goto(Loop, p)
  BY DEF AskPlan, Missed
<1>2. RowInv'
  BY Facts DEF GoalsInv, RowInv, BudgetHeld, rowVars, AskPlan
<1>3. CtxInv'
  BY Facts DEF GoalsInv, CtxInv, turnVars, AskPlan
<1>4. PcInv'
  BY <1>1, Facts, GotoPc DEF GoalsInv, LoopAt, LoopNext, TaskAt, TaskNext
<1>5. SettleInv'
  BY Facts DEF GoalsInv, SettleInv, settleVars, AskPlan
<1>6. AimInv'
  BY <1>1, Facts, GotoAim DEF GoalsInv, Aimed, loopVars, AskPlan
<1>7. ReadyInv'
  BY <1>1, Facts, GotoReady DEF GoalsInv, Starts, Settling, Idle, Ask, turnVars, AskPlan
<1>8. LoopInv'
  <2>1. PICK i \in 1 .. ids : arg' = [NoArg EXCEPT !.id = i] \/ arg' = arg
    BY DEF AskPlan
  <2>2. arg' \in Args
    <3>1. i \in GoalIds /\ NoArg \in Args /\ arg \in Args
      BY DEF GoalsInv, LoopInv, RowInv, Args, NoArg, NoBudget, NoId, GoalIds, Status
    <3> QED BY <2>1, <3>1 DEF Args
  <2>3. programmer' \in BOOLEAN /\ rest' \in BOOLEAN
    BY DEF GoalsInv, LoopInv, AskPlan, Missed
  <2> QED BY <2>2, <2>3 DEF GoalsInv, LoopInv, AskPlan, Ask, turnVars
<1> QED BY <1>2, <1>3, <1>4, <1>5, <1>6, <1>7, <1>8 DEF GoalsInv

LEMMA SwitchStep == ASSUME GoalsInv, Switch PROVE GoalsInv'
<1>1. RowInv'
  BY Facts DEF GoalsInv, RowInv, BudgetHeld, rowVars, Switch
<1>2. CtxInv'
  BY Facts DEF GoalsInv, CtxInv, turnVars, Switch
<1>3. PcInv'
  BY Facts DEF GoalsInv, PcInv, Switch
<1>4. SettleInv'
  BY Facts DEF GoalsInv, SettleInv, settleVars, Switch
<1>5. AimInv'
  BY Facts DEF GoalsInv, AimInv, loopVars, PcInv, Switch
<1>6. ReadyInv'
  BY Facts DEF GoalsInv, ReadyInv, Ready, PcInv, Starts, Settling, turnVars, Switch
<1>7. LoopInv'
  <2>1. programmer' \in BOOLEAN /\ permit' \in BOOLEAN /\ rest' \in BOOLEAN
    BY Zenon DEF GoalsInv, LoopInv, Switch
  <2> QED BY <2>1 DEF GoalsInv, LoopInv, Switch, Ask, turnVars
<1> QED BY <1>1, <1>2, <1>3, <1>4, <1>5, <1>6, <1>7 DEF GoalsInv

LEMMA AskTurnStep == ASSUME GoalsInv, AskTurn PROVE GoalsInv'
<1>1. Goto(Loop, "submit") /\ Ready
  BY DEF AskTurn
<1>2. CtxInv' /\ UNCHANGED <<active, turns, strays>>
  <2>1. goal.id \in {NoId} \cup GoalIds
    BY DEF GoalsInv, RowInv, Goals
  <2>2. PICK p \in BOOLEAN, e \in {NoId} \cup GoalIds, c \in {NoId} \cup GoalIds : Context(p, e, c)
    BY <2>1 DEF AskTurn
  <2> QED BY <2>2, MadeCtx DEF GoalsInv, Context
<1>3. RowInv'
  BY Facts DEF GoalsInv, RowInv, BudgetHeld, rowVars, AskTurn
<1>4. CtxInv'
  BY <1>2
<1>5. PcInv'
  BY <1>1, Facts, GotoPc DEF GoalsInv, LoopAt, LoopNext, TaskAt, TaskNext
<1>6. SettleInv'
  BY Facts DEF GoalsInv, SettleInv, settleVars, AskTurn
<1>7. AimInv'
  BY <1>1, Facts, GotoAim DEF GoalsInv, Aimed, AskTurn
<1>8. ReadyInv'
  BY <1>1, <1>2, Facts, GotoReady DEF GoalsInv, Settling, AskTurn, Ask, Idle
<1>9. LoopInv'
  BY <1>2 DEF GoalsInv, LoopInv, AskTurn, Ask
<1> QED BY <1>3, <1>4, <1>5, <1>6, <1>7, <1>8, <1>9 DEF GoalsInv

LEMMA AgainStep == ASSUME GoalsInv, Again PROVE GoalsInv'
<1>1. \E p \in {"submit", "idle"} : Goto(Loop, p)
  BY DEF Again, Missed
<1>2. CtxInv' /\ UNCHANGED <<active, turns, strays>>
  <2>1. CASE Context(TRUE, goal.id, goal.id)
    <3>1. goal.id \in {NoId} \cup GoalIds
      BY DEF GoalsInv, RowInv, Goals
    <3> QED BY <2>1, <3>1, MadeCtx DEF GoalsInv, Context
  <2>2. CASE UNCHANGED <<turnVars, strays>>
    BY <2>2 DEF GoalsInv, CtxInv, turnVars
  <2> QED BY <2>1, <2>2 DEF Again
<1>3. Ready
  BY DEF GoalsInv, ReadyInv, Starts, Settling, Again
<1>4. RowInv'
  BY Facts DEF GoalsInv, RowInv, BudgetHeld, rowVars, Again
<1>5. CtxInv'
  BY <1>2
<1>6. PcInv'
  BY <1>1, Facts, GotoPc DEF GoalsInv, LoopAt, LoopNext, TaskAt, TaskNext
<1>7. SettleInv'
  BY Facts DEF GoalsInv, SettleInv, settleVars, Again
<1>8. AimInv'
  BY <1>1, Facts, GotoAim DEF GoalsInv, Aimed, Again
<1>9. ReadyInv'
  BY <1>1, <1>2, <1>3, Facts, GotoReady DEF GoalsInv, Settling, Again
<1>10. LoopInv'
  BY <1>2 DEF GoalsInv, LoopInv, Again, Missed
<1> QED BY <1>4, <1>5, <1>6, <1>7, <1>8, <1>9, <1>10 DEF GoalsInv

LEMMA CheckStep == ASSUME GoalsInv, Check PROVE GoalsInv'
<1>1. Goto(Loop, "idle") \/ (Goto(Loop, "again") /\ Ready)
  BY DEF Check, Missed
<1>2. RowInv'
  BY Facts DEF GoalsInv, RowInv, BudgetHeld, rowVars, Check
<1>3. CtxInv'
  BY Facts DEF GoalsInv, CtxInv, turnVars, Check
<1>4. PcInv'
  BY <1>1, Facts, GotoPc DEF GoalsInv, LoopAt, LoopNext, TaskAt, TaskNext
<1>5. SettleInv'
  <2>1. goal.id \in {NoId} \cup GoalIds
    BY DEF GoalsInv, RowInv, Goals
  <2> QED BY <2>1 DEF GoalsInv, SettleInv, Check
<1>6. AimInv'
  BY <1>1, Facts, GotoAim DEF GoalsInv, Aimed, Check
<1>7. ReadyInv'
  BY <1>1, Facts, GotoReady DEF GoalsInv, Starts, Settling, Idle, Ask, turnVars, Check
<1>8. LoopInv'
  BY Facts DEF GoalsInv, LoopInv, turnVars, Check, Missed
<1> QED BY <1>2, <1>3, <1>4, <1>5, <1>6, <1>7, <1>8 DEF GoalsInv

LEMMA RequestStep ==
    ASSUME GoalsInv, NEW p \in LoopNext \ {"pause", "drop"}, NEW r \in Args, GoalRequest(p, r)
    PROVE GoalsInv'
<1>1. /\ UNCHANGED <<rowVars, turnVars, strays, total, lock, programmer, permit, rest>>
      /\ arg' = r /\ asked' = asked + 1
  BY DEF GoalRequest, Ask
<1>2. RowInv' /\ CtxInv' /\ LoopInv'
  BY <1>1 DEF GoalsInv, RowInv, BudgetHeld, CtxInv, LoopInv, rowVars, turnVars
<1>3. CASE active = NoTurn
  <2>1. Goto(Loop, p) /\ UNCHANGED <<settleVars, aim>>
    BY <1>3 DEF GoalRequest
  <2>2. PcInv' /\ AimInv' /\ ReadyInv'
    BY <1>1, <2>1, Facts, GotoPc, GotoAim, GotoReady
       DEF GoalsInv, turnVars, Aimed, Starts, Settling, LoopNext, LoopAt, GoalRequest, Ask, Idle
  <2>3. SettleInv'
    BY <2>1 DEF GoalsInv, SettleInv, settleVars
  <2> QED BY <1>2, <2>2, <2>3 DEF GoalsInv
<1>4. CASE active # NoTurn
  <2>1. active \in Turns /\ Settle(Loop, active, p)
    BY <1>4 DEF GoalRequest, GoalsInv, LoopInv
  <2>2. PcInv' /\ SettleInv'
    BY <2>1, Facts, SettlePc DEF GoalsInv, LoopInv
  <2>3. CASE ctx[active].account # NoId
    <3>1. aim' = active /\ pc'[Loop] = "lock" /\ next'[Loop] = p
      BY <1>4, <2>1, <2>3, Facts DEF GoalRequest, Settle, GoalsInv, PcInv
    <3> QED BY <1>1, <1>2, <2>1, <2>2, <3>1 DEF GoalsInv, AimInv, ReadyInv, Starts, Settling, turnVars
  <2>4. CASE ctx[active].account = NoId
    <3>1. aim' = NoTurn /\ pc'[Loop] = p /\ next'[Loop] = "idle"
      BY <1>4, <2>1, <2>4, Facts DEF GoalRequest, Settle, GoalsInv, PcInv
    <3> QED BY <1>1, <1>2, <2>2, <3>1
            DEF GoalsInv, AimInv, ReadyInv, Starts, Settling, Aimed, LoopNext, turnVars
  <2> QED BY <2>3, <2>4
<1> QED BY <1>3, <1>4

LEMMA AskGoalStep ==
    ASSUME GoalsInv, AskGoal \/ AskSet \/ AskReplace \/ AskEdit \/ AskStatus PROVE GoalsInv'
<1>1. NoArg \in Args
  BY DEF NoArg, Args, NoBudget, Status
<1>2. \A i \in 1 .. ids : i \in GoalIds
  BY DEF GoalsInv, RowInv, GoalIds
<1>3. {"idle", "insert", "replace", "edit", "status"} \subseteq LoopNext \ {"pause", "drop"}
  BY DEF LoopNext
<1>4. CASE AskGoal \/ AskSet
  BY <1>1, <1>3, <1>4, RequestStep DEF AskGoal, AskSet
<1>5. CASE AskReplace
  <2>1. PICK i \in 1 .. ids : GoalRequest("replace", [NoArg EXCEPT !.id = i])
    BY <1>5 DEF AskReplace
  <2>2. [NoArg EXCEPT !.id = i] \in Args
    BY <1>1, <1>2 DEF Args
  <2> QED BY <1>3, <2>1, <2>2, RequestStep
<1>6. CASE AskEdit
  <2>1. PICK i \in 1 .. ids, s \in Edits, b \in Budgets \cup {NoBudget} :
            GoalRequest("edit", [id |-> i, status |-> s, budget |-> b])
    BY <1>6 DEF AskEdit
  <2>2. [id |-> i, status |-> s, budget |-> b] \in Args
    <3>1. s \in Status /\ b \in Nat \cup {NoBudget}
      BY DEF Status, Stopped
    <3> QED BY <1>2, <3>1 DEF Args
  <2> QED BY <1>3, <2>1, <2>2, RequestStep
<1>7. CASE AskStatus
  <2>1. PICK s \in Edits : GoalRequest("status", [NoArg EXCEPT !.status = s])
    BY <1>7 DEF AskStatus
  <2>2. [NoArg EXCEPT !.status = s] \in Args
    BY <1>1 DEF Args, Status, Stopped
  <2> QED BY <1>3, <2>1, <2>2, RequestStep
<1> QED BY <1>4, <1>5, <1>6, <1>7

LEMMA TakeStep ==
    ASSUME GoalsInv, NEW p \in {"pause", "drop"}, Take(p), p = "drop" => Ready,
           arg' = arg, asked' \in Nat, rest' \in BOOLEAN
    PROVE GoalsInv'
<1>1. /\ UNCHANGED <<rowVars, turns, ctx, settleVars, strays, total, lock, programmer, permit>>
      /\ active \in Turns /\ aim' = active /\ active' = NoTurn
  BY DEF GoalsInv, LoopInv, Take
<1>2. /\ pc' = [pc EXCEPT ![Loop] = "kill"] /\ next' = [next EXCEPT ![Loop] = p]
  BY DEF Take
<1>3. PcInv' /\ pc'[Loop] = "kill" /\ next'[Loop] = p
  BY <1>2, Facts DEF GoalsInv, PcInv, LoopNext, LoopAt
<1>4. RowInv' /\ CtxInv' /\ SettleInv'
  BY <1>1 DEF GoalsInv, RowInv, BudgetHeld, CtxInv, SettleInv, rowVars, settleVars
<1>5. AimInv' /\ ReadyInv'
  BY <1>1, <1>3 DEF GoalsInv, AimInv, ReadyInv, Ready, Starts, Settling
<1>6. LoopInv'
  BY <1>1 DEF GoalsInv, LoopInv
<1> QED BY <1>3, <1>4, <1>5, <1>6 DEF GoalsInv

LEMMA ReplaceStep == ASSUME GoalsInv, Replace \/ Interrupt PROVE GoalsInv'
<1>1. CASE Replace
  <2>1. Ready /\ Take("drop") /\ UNCHANGED <<arg, asked, rest>>
    BY <1>1 DEF Replace, GoalsInv, ReadyInv, Starts, Settling
  <2> QED BY <2>1, TakeStep DEF GoalsInv, LoopInv
<1>2. CASE Interrupt
  BY <1>2, TakeStep DEF Interrupt, Ask, GoalsInv, LoopInv
<1> QED BY <1>1, <1>2

LEMMA KillStep == ASSUME GoalsInv, Kill PROVE GoalsInv'
<1>1. aim \in Turns /\ aim \in Actors /\ aim # Loop
  BY Facts DEF GoalsInv, AimInv, Aimed, Kill
<1>2. RowInv' /\ UNCHANGED strays
  <2>1. CASE UNCHANGED <<goal, ids, strays>>
    BY <2>1 DEF GoalsInv, RowInv, BudgetHeld
  <2>2. CASE CanInsert /\ Insert /\ UNCHANGED strays
    BY <2>2, InsertRow DEF GoalsInv, CanInsert
  <2>3. CASE pc[aim] \in {"complete", "blocked"} /\ End(aim, pc[aim]) /\ UNCHANGED ids
    <3>1. pc[aim] \in Status
      BY <2>3 DEF Status, Stopped
    <3> QED BY <1>1, <2>3, <3>1, EndRow
  <2>4. CASE goal' = Charge(goal, mode[aim], Owed(aim)) /\ UNCHANGED <<ids, strays>>
    <3>1. Owed(aim) \in Nat
      BY <1>1, OwedNat DEF GoalsInv, Of
    <3> QED BY <2>4, <3>1, ChargedGoal DEF GoalsInv, RowInv, BudgetHeld
  <2> QED BY <2>1, <2>2, <2>3, <2>4 DEF Kill
<1>3. UNCHANGED <<turnVars, loopVars, total>>
  BY DEF Kill
<1>4. PcInv' /\ pc'[Loop] = "killed" /\ next'[Loop] = next[Loop]
  BY <1>1, Facts DEF Kill, GoalsInv, PcInv, LoopAt, TaskAt, TaskNext
<1>5. SettleInv'
  BY DEF Kill, GoalsInv, SettleInv, Status
<1>6. CtxInv' /\ AimInv' /\ ReadyInv'
  BY <1>1, <1>3, <1>4 DEF GoalsInv, CtxInv, AimInv, ReadyInv, Ready, Starts, Settling, turnVars, loopVars
<1>7. LoopInv'
  BY <1>2, <1>3 DEF Kill, GoalsInv, LoopInv, turnVars, loopVars, sessionVars
<1> QED BY <1>2, <1>4, <1>5, <1>6, <1>7 DEF GoalsInv

LEMMA KilledStep == ASSUME GoalsInv, Killed PROVE GoalsInv'
<1>1. aim \in Turns
  BY DEF GoalsInv, AimInv, Aimed, Killed
<1>2. UNCHANGED <<rowVars, turnVars, loopVars, strays, total, lock>> /\ Settle(Loop, aim, next[Loop])
  BY DEF Killed
<1>3. PcInv' /\ SettleInv'
  BY <1>1, <1>2, Facts, SettlePc DEF GoalsInv, LoopInv, PcInv
<1>4. \/ pc'[Loop] = "lock" /\ next'[Loop] = next[Loop]
      \/ pc'[Loop] = next[Loop] /\ next'[Loop] = "idle"
  BY <1>2, Facts DEF GoalsInv, PcInv, Settle
<1>5. RowInv' /\ CtxInv' /\ LoopInv'
  BY <1>2 DEF GoalsInv, RowInv, BudgetHeld, CtxInv, LoopInv, rowVars, turnVars, loopVars, sessionVars
<1>6. AimInv'
  BY <1>1, <1>2 DEF AimInv, loopVars
<1>7. ReadyInv'
  <2>1. turns' = turns /\ turns \in 0 .. MaxTurn
    BY <1>2 DEF GoalsInv, ReadyInv, turnVars
  <2>2. CASE pc'[Loop] = "lock"
    BY <1>4, <2>1, <2>2 DEF GoalsInv, ReadyInv, Ready, Starts, Settling
  <2>3. CASE pc'[Loop] = next[Loop] /\ next'[Loop] = "idle"
    <3>1. next[Loop] \in LoopNext
      BY DEF GoalsInv, PcInv
    <3> QED BY <2>1, <2>3, <3>1 DEF GoalsInv, ReadyInv, Ready, Starts, LoopNext
  <2> QED BY <1>4, <2>2, <2>3
<1> QED BY <1>3, <1>5, <1>6, <1>7 DEF GoalsInv

LEMMA DropStep == ASSUME GoalsInv, Pause \/ Drop PROVE GoalsInv'
<1>1. /\ Forget(aim) /\ aim' = NoTurn
      /\ UNCHANGED <<ids, settleVars, sessionVars, strays, total, lock>>
  BY DEF Pause, Drop, rowVars
<1>2. RowInv'
  <2>1. goal' = goal \/ goal' = [goal EXCEPT !.status = "paused"]
    BY DEF Pause, Drop, rowVars
  <2> QED BY <1>1, <2>1 DEF GoalsInv, RowInv, BudgetHeld, Goals, Status, Stopped
<1>3. CtxInv' /\ LoopInv'
  BY <1>1, ForgetCtx DEF GoalsInv, LoopInv, Forget, sessionVars
<1>4. SettleInv'
  BY <1>1 DEF GoalsInv, SettleInv, settleVars
<1>5. Goto(Loop, "idle") \/ (Goto(Loop, "submit") /\ Ready)
  BY DEF Pause, Drop, GoalsInv, ReadyInv, Starts
<1>6. PcInv' /\ ReadyInv' /\ pc'[Loop] \notin Aimed
  <2>1. pc[Loop] \notin Settling
    BY DEF Pause, Drop, Settling
  <2>2. PcInv' /\ ReadyInv'
    BY <1>1, <1>5, <2>1, Facts, GotoPc, GotoReady
       DEF GoalsInv, Starts, Settling, LoopAt, LoopNext, Forget
  <2>3. pc'[Loop] \in {"idle", "submit"}
    BY <1>5, Facts DEF GoalsInv, PcInv, Goto
  <2> QED BY <2>2, <2>3 DEF Aimed
<1>7. AimInv'
  BY <1>1, <1>6 DEF AimInv
<1> QED BY <1>2, <1>3, <1>4, <1>6, <1>7 DEF GoalsInv

LEMMA SpawnStep == ASSUME GoalsInv, Spawn PROVE GoalsInv'
<1>1. Ready /\ TheTurn \in Turns /\ TheTurn \in Actors /\ TheTurn # Loop
  BY Facts DEF GoalsInv, ReadyInv, Starts, Settling, Ready, Spawn, TheTurn, Turns
<1>2. /\ UNCHANGED <<rowVars, settleVars, strays, total, lock, next, programmer, permit, aim, arg, asked>>
      /\ active' = TheTurn /\ turns' = TheTurn /\ rest' = FALSE
  BY DEF Spawn
<1>3. pc' = [pc EXCEPT ![Loop] = "idle", ![TheTurn] = "run"]
  BY DEF Spawn
<1>4. PcInv' /\ pc'[Loop] = "idle" /\ next'[Loop] = next[Loop]
  BY <1>1, <1>2, <1>3, Facts DEF GoalsInv, PcInv, LoopAt, LoopNext, TaskAt
<1>5. CtxInv'
  <2>1. total \in Nat /\ ctx[TheTurn] \in Contexts
    BY <1>1 DEF GoalsInv, LoopInv, CtxInv
  <2>2. PICK s \in Nat \cup {NoStart} : ctx' = [ctx EXCEPT ![TheTurn].start = s]
    BY <1>1, <2>1 DEF Spawn, Contexts
  <2> QED BY <1>1, <2>2 DEF GoalsInv, CtxInv, Contexts, Told
<1>6. RowInv' /\ SettleInv' /\ AimInv'
  BY <1>2, <1>4 DEF GoalsInv, RowInv, BudgetHeld, SettleInv, AimInv, Aimed, rowVars, settleVars
<1>7. LoopInv'
  <2>1. turns' \in Nat
    BY <1>2 DEF GoalsInv, LoopInv, TheTurn
  <2>2. rest' \in BOOLEAN /\ active' \in Turns
    BY <1>1, <1>2
  <2> QED BY <1>2, <2>1, <2>2 DEF GoalsInv, LoopInv
<1>8. ReadyInv'
  <2>1. next[Loop] # "drop"
    BY DEF GoalsInv, ReadyInv, Settling, Spawn
  <2> QED BY <1>1, <1>2, <1>4, <2>1 DEF ReadyInv, Ready, TheTurn, Turns, Starts, Settling
<1> QED BY <1>4, <1>5, <1>6, <1>7, <1>8 DEF GoalsInv

-----------------------------------------------------------------------------
LEMMA InitInv == Init => GoalsInv
<1> SUFFICES ASSUME Init PROVE GoalsInv
  OBVIOUS
<1>1. RowInv
  <2>1. NoGoal \in Goals /\ NoGoal.status # "active"
    BY DEF NoGoal, Goals, NoBudget
  <2>2. ASSUME NEW g \in Stored PROVE g \in Goals /\ (g.status = "active" => ~Spent(g))
    <3>1. g \in Goals /\ g = Limited(g)
      BY <2>2, StoredAssumption DEF Goals, GoalIds
    <3> QED BY <3>1, LimitedGoal
  <2>3. goal \in {NoGoal} \cup Stored /\ ids \in 0 .. MaxGoal
    BY DEF Init
  <2> QED BY <2>1, <2>2, <2>3 DEF RowInv, BudgetHeld
<1>2. CtxInv
  BY DEF Init, CtxInv, NoContext, Contexts, Told, NoStart
<1>3. PcInv
  BY Facts DEF Init, PcInv, LoopAt, LoopNext, TaskAt
<1>4. SettleInv
  BY DEF Init, SettleInv, Status
<1>5. pc[Loop] = "idle" /\ next[Loop] = "idle"
  BY Facts DEF Init
<1>6. AimInv /\ ReadyInv
  BY <1>5 DEF Init, AimInv, ReadyInv, Aimed, Starts
<1>7. LoopInv
  BY DEF Init, LoopInv, NoArg, Args, NoBudget, Status
<1> QED BY <1>1, <1>2, <1>3, <1>4, <1>6, <1>7 DEF GoalsInv

LEMMA StepInv == GoalsInv /\ [Next]_vars => GoalsInv'
<1> SUFFICES ASSUME GoalsInv, [Next]_vars PROVE GoalsInv'
  OBVIOUS
<1>1. CASE User
  BY <1>1, AskGoalStep, ClearStep, AskPlanStep, SwitchStep, AskTurnStep, ReplaceStep DEF User
<1>2. CASE LoopWork
  BY <1>2, Facts, LockStep, BillStep, InsertGoalStep, RereadStep, WriteGoalStep, InjectStep,
     ReplaceStep, KillStep, KilledStep, DropStep, ContinueGoalStep, CheckStep, AgainStep, SpawnStep
     DEF LoopWork, Settles
<1>3. CASE \E t \in Turns : Work(t) \/ Model(t)
  BY <1>3, Facts, LockStep, BillStep, GetStep, CreateStep, BindStep, BaselineStep, EndGoalStep,
     FinishStep, NotifyStep, AnswerStep, CallStep, OverStep DEF Work, Model, Settles
<1>4. CASE UNCHANGED vars
  BY <1>4 DEF GoalsInv, RowInv, BudgetHeld, CtxInv, PcInv, SettleInv, AimInv, ReadyInv, Ready,
              LoopInv, vars, rowVars, turnVars, settleVars, loopVars, sessionVars
<1> QED BY <1>1, <1>2, <1>3, <1>4 DEF Next

LEMMA SpecInv == Spec => []GoalsInv
BY InitInv, StepInv, PTL DEF Spec

(* Every variable keeps its type: the loop takes and aborts only turns that *)
(* were started, and starts none it was not ready for.                      *)
THEOREM GoalsTypes == Spec => []GoalsTypeOK
<1>1. GoalsInv => GoalsTypeOK
  BY DEF GoalsInv, RowInv, CtxInv, PcInv, SettleInv, AimInv, LoopInv, GoalsTypeOK, Goals, Contexts,
         Args
<1> QED BY <1>1, SpecInv, PTL

(* An active goal has budget left, whatever the statements of the loop and  *)
(* of the tasks read before they ran (runtime.rs:1458, 1702).               *)
THEOREM BudgetKept == Spec => []BudgetHeld
<1>1. GoalsInv => BudgetHeld
  BY DEF GoalsInv, RowInv
<1> QED BY <1>1, SpecInv, PTL

(* A turn ends only a goal it was told of, in whatever order the loop       *)
(* replaces the goal and the tools of the turn run (goal.rs:196).           *)
THEOREM NoStaleEnd == Spec => []StaleTurnEndsNoGoal
<1>1. GoalsInv => StaleTurnEndsNoGoal
  BY DEF GoalsInv, LoopInv, StaleTurnEndsNoGoal
<1> QED BY <1>1, SpecInv, PTL

=============================================================================
