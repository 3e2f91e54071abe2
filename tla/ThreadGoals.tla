---------------------------- MODULE ThreadGoals ----------------------------
(***************************************************************************)
(* The goal of a thread: one row of the table thread_goals, which the      *)
(* submission loop of the session and the tasks of its turns read and      *)
(* write in single statements, each conditional on what an earlier one     *)
(* read.  A turn carries a goal context: the goal it may end (expected),   *)
(* the goal its tokens are billed to (account) and how much of the total   *)
(* was billed already (start), behind a lock that is held from the read of *)
(* the goal to the end of the billing statement (lock).                    *)
(*                                                                         *)
(* A statement may fail: it changes nothing then, and the error is told to *)
(* the user or the model, or only logged.                                  *)
(*                                                                         *)
(* Sources: state/src/runtime.rs, agent_runtime/src/codex.rs,              *)
(* agent_runtime/src/tasks/mod.rs, agent_runtime/src/tools/handlers/goal.rs*)
(***************************************************************************)
EXTENDS Integers

CONSTANTS
    MaxTurn,     \* turns that are started
    MaxGoal,     \* goals that are created
    MaxTokens,   \* answers of the model, one token each
    MaxAsk,      \* requests of the user
    Budgets,     \* the budgets a user may give a goal
    Edits,       \* the statuses a user may give a goal
    Stored       \* what a goal of an earlier life, or of another thread, is like

ASSUME BoundsAssumption ==
    /\ MaxTurn \in Nat \ {0}
    /\ MaxGoal \in Nat \ {0}
    /\ MaxTokens \in Nat
    /\ MaxAsk \in Nat
    /\ Budgets \subseteq Nat

Loop == 0
Turns == 1 .. MaxTurn
Actors == {Loop} \cup Turns
NoTurn == 0
GoalIds == 1 .. MaxGoal
NoId == 0
NoBudget == -1
NoStart == -1
Stopped == {"paused", "blocked", "usage_limited"}
Status == {"active", "budget_limited", "complete"} \cup Stopped

ASSUME EditsAssumption == Edits \subseteq Status

Spent(g) == g.budget # NoBudget /\ g.used >= g.budget

(* An active goal that has used up its budget is limited.                  *)
Limited(g) == [g EXCEPT !.status = IF g.status = "active" /\ Spent(g) THEN "budget_limited" ELSE @]

(* A stored goal has any status, is partly used and may have a budget.     *)
ASSUME StoredAssumption ==
    \A g \in Stored : /\ g \in [id : {1}, status : Status, used : Nat, budget : Nat \cup {NoBudget}]
                     /\ g = Limited(g)

NoGoal == [id |-> NoId, status |-> "none", used |-> 0, budget |-> NoBudget]
NewGoal(i) == [id |-> i, status |-> "active", used |-> 0, budget |-> NoBudget]

VARIABLES
    goal,        \* the row of the thread, or NoGoal
    ids,         \* how many goal ids were drawn; an id is a fresh UUID
    programmer,  \* the session's identity is the programmer
    permit,      \* goal_continuation_notify holds a permit
    total,       \* the tokens the session reports
    active,      \* the turn in active_turn
    turns,       \* how many turns were started
    ctx,         \* turn -> its context
    lock,        \* turn -> who holds the checkpoint in it, or Free
    pc, next,    \* actor -> where it stands, and where it goes once it settled
    seen, bills, \* actor -> the total and the goal id it settles with
    mode,        \* actor -> the status that chose its accounting mode
    aim,         \* the turn the loop settles or aborts
    arg,         \* the operation of the loop
    asked,       \* how many requests the user made
    rest,        \* history: the goal waits for the user, or a read of it failed
    strays       \* history: the turns that ended a goal they were not told of

Free == -1

rowVars == <<goal, ids>>
turnVars == <<active, turns, ctx>>
settleVars == <<seen, bills, mode>>
sessionVars == <<programmer, permit, arg, asked, rest>>
loopVars == <<sessionVars, aim>>
vars == <<rowVars, turnVars, settleVars, loopVars, strays, total, lock, pc, next>>

(* The context of a turn: made for the programmer, expected_goal_id,       *)
(* accounting_goal_id, accounting_usage_checkpoint, and a history of the   *)
(* goals it was told of.                                                   *)
NoContext == [prog |-> FALSE, expected |-> NoId, account |-> NoId, start |-> NoStart, told |-> {}]

NoArg == [id |-> NoId, status |-> "active", budget |-> NoBudget]

(* A session starts without a goal, is forked from a thread with one, and  *)
(* asks for the continuation of an active one, or resumes one and waits.   *)
Init ==
    /\ \/ goal = NoGoal /\ ids = 0 /\ permit = FALSE /\ rest = FALSE
       \/ goal \in Stored /\ ids = 1 /\ permit = (goal.status = "active") /\ rest = FALSE
       \/ goal \in Stored /\ ids = 1 /\ permit = FALSE /\ rest = TRUE
    /\ programmer \in BOOLEAN
    /\ total = 0
    /\ active = NoTurn /\ turns = 0
    /\ ctx = [t \in Turns |-> NoContext]
    /\ lock = [t \in Turns |-> Free]
    /\ pc = [a \in Actors |-> IF a = Loop THEN "idle" ELSE "none"]
    /\ next = [a \in Actors |-> "idle"]
    /\ seen = [a \in Actors |-> 0]
    /\ bills = [a \in Actors |-> NoId]
    /\ mode = [a \in Actors |-> "active"]
    /\ aim = NoTurn /\ arg = NoArg /\ asked = 0
    /\ strays = {}

LoopNext == {"idle", "insert", "replace", "edit", "status", "pause", "drop"}
TaskNext == {"idle", "get", "complete", "blocked", "notify"}
LoopAt == LoopNext \cup {"lock", "bill", "reread", "retry", "plan", "kill", "killed", "check",
                         "again", "submit"}
TaskAt == TaskNext \cup {"none", "run", "lock", "bill", "create", "bind", "baseline", "finish",
                         "done"}

Goto(a, p) == pc' = [pc EXCEPT ![a] = p] /\ UNCHANGED next
-----------------------------------------------------------------------------
(* The statements.                                                         *)

(* A thread takes a new goal when it has none that is unfinished.          *)
CanInsert == goal.status \in {"none", "complete"} /\ ids < MaxGoal
Insert == goal' = NewGoal(ids + 1) /\ ids' = ids + 1

(* A pause or a block does not hide that the budget is used up.            *)
WithStatus(g, s) ==
    IF g.status = "budget_limited" /\ s \in {"paused", "blocked"} THEN g
    ELSE Limited([g EXCEPT !.status = s])

(* Seeded fault: a goal that was stopped when it was read is not limited. *)
MutCapped(m) == IF m \in Stopped THEN {} ELSE {"active"}

(* Which goals a settlement bills and which ones it may limit, by the      *)
(* status that it read before.                                             *)
Billed(m) ==
    CASE m \in {"active", "budget_limited"} -> {"active", "budget_limited"}
      [] m \in Stopped -> {"active", "budget_limited"} \cup Stopped
      [] OTHER -> {"active", "budget_limited", "complete"}

Capped(m) == IF m \in Stopped THEN Billed(m) ELSE {"active"}

Charge(g, m, d) ==
    LET paid == [g EXCEPT !.used = @ + d] IN
    [paid EXCEPT !.status = IF @ \in Capped(m) /\ Spent(paid) THEN "budget_limited" ELSE @]

(* Seeded fault: the statement does not compare the goal id. *)
MutHits(t) == ctx[t].expected # NoId /\ goal.id # NoId

(* The tool update_goal: the goal the turn expects, and no other.          *)
Hits(t) == ctx[t].expected # NoId /\ goal.id = ctx[t].expected

End(t, s) ==
    IF Hits(t)
    THEN /\ goal' = WithStatus(goal, s)
         /\ strays' = IF goal.id \in ctx[t].told THEN strays ELSE strays \cup {t}
    ELSE UNCHANGED <<goal, strays>>
-----------------------------------------------------------------------------
(* Settling the usage of a turn: the loop does it to show the goal or when *)
(* it aborts the turn, the task for its tools and when it ends.  It begins *)
(* with the goal the turn is billed to, if any, and the total.             *)

Settle(a, t, then) ==
    LET due == ctx[t].account # NoId IN
    /\ pc' = [pc EXCEPT ![a] = IF due THEN "lock" ELSE then]
    /\ next' = [next EXCEPT ![a] = IF due THEN then ELSE "idle"]
    /\ seen' = [seen EXCEPT ![a] = IF due THEN total ELSE 0]
    /\ bills' = [bills EXCEPT ![a] = ctx[t].account]
    /\ UNCHANGED mode

Of(a) == IF a = Loop THEN aim ELSE a
IsFinal(a) == next[a] \in {"pause", "drop", "notify"}

(* It goes on, with what it read forgotten.                                *)
Leave(a) ==
    /\ pc' = [pc EXCEPT ![a] = next[a]]
    /\ next' = [next EXCEPT ![a] = "idle"]
    /\ seen' = [seen EXCEPT ![a] = 0]
    /\ bills' = [bills EXCEPT ![a] = NoId]
    /\ mode' = [mode EXCEPT ![a] = "active"]
    /\ aim' = IF a = Loop /\ ~IsFinal(a) THEN NoTurn ELSE aim

(* Nothing is billed without a checkpoint, when the goal is another, or    *)
(* when it cannot be read.                                                 *)
Lock(a) ==
    /\ pc[a] = "lock" /\ lock[Of(a)] = Free
    /\ \/ /\ ctx[Of(a)].start # NoStart /\ goal.id = bills[a]
          /\ Goto(a, "bill")
          /\ lock' = [lock EXCEPT ![Of(a)] = a]
          /\ mode' = [mode EXCEPT ![a] = goal.status]
          /\ UNCHANGED <<seen, bills, aim>>
       \/ Leave(a) /\ UNCHANGED lock
    /\ UNCHANGED <<rowVars, turnVars, sessionVars, strays, total>>

Owed(a) == IF seen[a] > ctx[Of(a)].start THEN seen[a] - ctx[Of(a)].start ELSE 0
Matches(a) == goal.id = bills[a] /\ goal.status \in Billed(mode[a])

(* The statement runs, unless neither a token nor a second (ticked) is     *)
(* owed; then a display moves the checkpoint on if the row was updated,    *)
(* the end of the turn removes it; a statement that fails leaves it.       *)
Bill(a) ==
    /\ pc[a] = "bill"
    /\ \/ \E ticked \in BOOLEAN :
             LET updated == (ticked \/ Owed(a) > 0) /\ Matches(a) IN
             /\ goal' = IF updated THEN Charge(goal, mode[a], Owed(a)) ELSE goal
             /\ ctx' = [ctx EXCEPT ![Of(a)].start =
                           IF IsFinal(a) THEN NoStart ELSE IF updated THEN seen[a] ELSE @]
       \/ UNCHANGED <<goal, ctx>>
    /\ lock' = [lock EXCEPT ![Of(a)] = Free]
    /\ Leave(a)
    /\ UNCHANGED <<ids, active, turns, sessionVars, strays, total>>

Settles(a) == Lock(a) \/ Bill(a)
-----------------------------------------------------------------------------
(* The submission loop: it handles one request at a time, and takes the    *)
(* permit to continue when it is idle.                                     *)

Idle == pc[Loop] = "idle"
Ready == turns < MaxTurn      \* bound: a turn is left
TheTurn == turns + 1          \* the turn whose context the loop makes

(* A request of the user.                                                  *)
Ask == Idle /\ asked < MaxAsk /\ asked' = asked + 1

(* Requests that show or set the goal settle the usage of the running turn *)
(* first; all but the first are for the programmer alone.                  *)
GoalRequest(then, a) ==
    /\ Ask
    /\ arg' = a
    /\ IF active = NoTurn
       THEN Goto(Loop, then) /\ UNCHANGED <<settleVars, aim>>
       ELSE /\ Settle(Loop, active, then)
            /\ aim' = IF ctx[active].account # NoId THEN active ELSE NoTurn
    /\ UNCHANGED <<rowVars, turnVars, strays, total, lock, programmer, permit, rest>>

AskGoal == GoalRequest("idle", NoArg)

AskSet == programmer /\ GoalRequest("insert", NoArg)

AskReplace ==
    programmer /\ \E i \in 1 .. ids : GoalRequest("replace", [NoArg EXCEPT !.id = i])

AskEdit ==
    /\ programmer
    /\ \E i \in 1 .. ids, s \in Edits, b \in Budgets \cup {NoBudget} :
          GoalRequest("edit", [id |-> i, status |-> s, budget |-> b])

AskStatus ==
    /\ programmer
    /\ \E s \in Edits : GoalRequest("status", [NoArg EXCEPT !.status = s])

(* What a request that was applied leaves to do: continue the goal.        *)
Applied == Goto(Loop, "check") /\ rest' = FALSE

(* The goal may be active, and nobody will ask for its continuation.       *)
Missed == Goto(Loop, "idle") /\ rest' = TRUE

(* A new goal, but not in the place of an unfinished one: then the client  *)
(* is asked, unless the goal ended before it was read again; or a          *)
(* statement fails.                                                        *)
InsertGoal ==
    /\ pc[Loop] \in {"insert", "retry"}
    /\ \/ CanInsert /\ Insert /\ Applied
       \/ ~CanInsert /\ pc[Loop] = "insert" /\ Goto(Loop, "reread") /\ UNCHANGED <<rowVars, rest>>
       \/ Goto(Loop, "idle") /\ UNCHANGED <<rowVars, rest>>
    /\ UNCHANGED <<turnVars, settleVars, strays, total, lock, programmer, permit, aim, arg, asked>>

Reread ==
    /\ pc[Loop] = "reread"
    /\ \/ goal.status \in {"none", "complete"} /\ Goto(Loop, "retry")
       \/ Goto(Loop, "idle")
    /\ UNCHANGED <<rowVars, turnVars, settleVars, loopVars, strays, total, lock>>

(* The statement of a request that names the goal the client saw; a change *)
(* of the status alone names none.                                         *)
CanWrite ==
    CASE pc[Loop] = "replace" -> goal.id = arg.id /\ ids < MaxGoal
      [] pc[Loop] = "plan" -> goal.id = arg.id /\ ids < MaxGoal /\ goal.status # "complete"
      [] pc[Loop] = "edit" -> goal.id = arg.id
      [] OTHER -> goal.id # NoId

(* An edit reads the row again, and is not applied when that fails, though *)
(* it was written.                                                         *)
WriteGoal ==
    /\ pc[Loop] \in {"replace", "plan", "edit", "status"}
    /\ \/ /\ CanWrite /\ pc[Loop] \in {"replace", "plan"}
          /\ Insert /\ Applied
       \/ /\ CanWrite /\ pc[Loop] = "edit"
          /\ goal' = WithStatus([goal EXCEPT !.budget = arg.budget], arg.status)
          /\ (Applied \/ Missed) /\ UNCHANGED ids
       \/ /\ CanWrite /\ pc[Loop] = "status"
          /\ goal' = WithStatus(goal, arg.status)
          /\ (Applied \/ Missed) /\ UNCHANGED ids
       \/ /\ Goto(Loop, "idle") /\ rest' = (rest \/ pc[Loop] = "plan")
          /\ UNCHANGED rowVars
    /\ arg' = NoArg
    /\ UNCHANGED <<turnVars, settleVars, strays, total, lock, programmer, permit, aim, asked>>

Clear ==
    /\ Ask /\ programmer
    /\ goal' \in {NoGoal, goal}
    /\ UNCHANGED <<ids, turnVars, settleVars, strays, total, lock, pc, next, programmer,
                   permit, aim, arg, rest>>

(* A plan that the client accepted takes the place of an unfinished goal.  *)
(* It makes the programmer the identity, and does not ask to continue: not *)
(* when the goal is another by now, nor when its read or its file fails.   *)
AskPlan ==
    \E i \in 1 .. ids :
        LET kept == goal.id = i /\ goal.status # "complete" IN
        /\ Ask
        /\ programmer' = TRUE
        /\ \/ kept /\ Goto(Loop, "plan") /\ arg' = [NoArg EXCEPT !.id = i] /\ UNCHANGED rest
           \/ Missed /\ UNCHANGED arg
        /\ UNCHANGED <<rowVars, turnVars, settleVars, strays, total, lock, permit, aim>>

(* The user changes the identity: back to the programmer, goals continue.  *)
Switch ==
    /\ Ask
    /\ programmer' \in BOOLEAN
    /\ IF programmer' /\ ~programmer
       THEN permit' = TRUE /\ rest' = FALSE
       ELSE UNCHANGED <<permit, rest>>
    /\ UNCHANGED <<rowVars, turnVars, settleVars, strays, total, lock, pc, next, aim, arg>>
-----------------------------------------------------------------------------
(* Turns: started by the user, or by the loop to go on with a goal; ended  *)
(* by their task, or aborted by the loop.                                  *)

(* The goal context of the next turn: the goal it may end, the one it is   *)
(* billed to.                                                              *)
Context(p, e, a) ==
    /\ ctx' = [ctx EXCEPT ![TheTurn] = [NoContext EXCEPT !.prog = p, !.expected = e,
                                           !.account = a, !.told = {e} \ {NoId}]]
    /\ UNCHANGED <<active, turns, strays>>

(* Nobody holds the context of a turn that was reported.                   *)
Forget(t) == ctx' = [ctx EXCEPT ![t] = NoContext] /\ UNCHANGED <<active, turns>>

(* Input or another task, with the identity it asks for; it is told of no  *)
(* goal when that cannot be read.                                          *)
AskTurn ==
    /\ Ask /\ Ready
    /\ programmer' \in BOOLEAN
    /\ IF programmer'
       THEN \/ Context(TRUE, goal.id, IF goal.status = "active" THEN goal.id ELSE NoId)
            \/ Context(TRUE, NoId, NoId)
       ELSE Context(FALSE, NoId, NoId)
    /\ Goto(Loop, "submit")
    /\ UNCHANGED <<rowVars, settleVars, total, lock, permit, aim, arg, rest>>

(* Input goes to the running turn, if that still takes input.              *)
Inject ==
    /\ pc[Loop] = "submit" /\ active # NoTurn
    /\ Goto(Loop, "idle")
    /\ UNCHANGED <<rowVars, turnVars, settleVars, loopVars, strays, total, lock>>

(* The loop takes the task of the running turn and cancels it.             *)
Take(then) ==
    /\ active # NoTurn
    /\ aim' = active /\ active' = NoTurn
    /\ pc' = [pc EXCEPT ![Loop] = "kill"]
    /\ next' = [next EXCEPT ![Loop] = then]
    /\ UNCHANGED <<rowVars, turns, ctx, settleVars, strays, total, lock, programmer, permit>>

Replace == pc[Loop] = "submit" /\ Take("drop") /\ UNCHANGED <<arg, asked, rest>>

Interrupt == Ask /\ Take("pause") /\ rest' = TRUE /\ UNCHANGED arg

(* The task is dropped where it stands and gives its lock back.  A         *)
(* statement that it was waiting for has run, or never will.               *)
Kill ==
    /\ pc[Loop] = "kill"
    /\ \/ UNCHANGED <<goal, ids, strays>>
       \/ pc[aim] = "create" /\ CanInsert /\ Insert /\ UNCHANGED strays
       \/ pc[aim] \in {"complete", "blocked"} /\ End(aim, pc[aim]) /\ UNCHANGED ids
       \/ /\ pc[aim] = "bill" /\ Matches(aim)
          /\ goal' = Charge(goal, mode[aim], Owed(aim)) /\ UNCHANGED <<ids, strays>>
    /\ lock' = [lock EXCEPT ![aim] = Free]
    /\ pc' = [pc EXCEPT ![aim] = "done", ![Loop] = "killed"]
    /\ next' = [next EXCEPT ![aim] = "idle"]
    /\ seen' = [seen EXCEPT ![aim] = 0]
    /\ bills' = [bills EXCEPT ![aim] = NoId]
    /\ mode' = [mode EXCEPT ![aim] = "active"]
    /\ UNCHANGED <<turnVars, loopVars, total>>

(* The usage of the aborted turn is settled for good.                      *)
Killed ==
    /\ pc[Loop] = "killed"
    /\ Settle(Loop, aim, next[Loop])
    /\ UNCHANGED <<rowVars, turnVars, loopVars, strays, total, lock>>

(* An interrupt pauses the goal of the turn, or any if it knew of none.    *)
Interrupted == IF ctx[aim].expected # NoId THEN ctx[aim].expected ELSE ctx[aim].account
Pause ==
    /\ pc[Loop] = "pause"
    /\ \/ /\ ctx[aim].prog /\ goal.status = "active" /\ Interrupted \in {NoId, goal.id}
          /\ goal' = [goal EXCEPT !.status = "paused"]
       \/ UNCHANGED goal
    /\ Goto(Loop, "idle") /\ Forget(aim) /\ aim' = NoTurn
    /\ UNCHANGED <<ids, settleVars, sessionVars, strays, total, lock>>

(* A turn that another one replaces is reported aborted.                   *)
Drop ==
    /\ pc[Loop] = "drop"
    /\ Goto(Loop, "submit") /\ Forget(aim) /\ aim' = NoTurn
    /\ UNCHANGED <<rowVars, settleVars, sessionVars, strays, total, lock>>

ContinueGoal ==
    /\ Idle /\ permit
    /\ permit' = FALSE
    /\ Goto(Loop, "check")
    /\ UNCHANGED <<rowVars, turnVars, settleVars, strays, total, lock, programmer, aim,
                   arg, asked, rest>>

(* An active goal goes on when the session is idle, with the programmer;   *)
(* it is read twice, since making a context takes time.  A read that fails *)
(* is logged, and the permit is gone.                                      *)
Check ==
    LET idle == programmer /\ active = NoTurn
        due == idle /\ goal.status = "active" /\ Ready
    IN  /\ pc[Loop] = "check"
        /\ \/ /\ due /\ Goto(Loop, "again")
              /\ bills' = [bills EXCEPT ![Loop] = goal.id] /\ UNCHANGED rest
           \/ ~due /\ Goto(Loop, "idle") /\ UNCHANGED <<bills, rest>>
           \/ idle /\ Missed /\ UNCHANGED bills
        /\ UNCHANGED <<rowVars, turnVars, seen, mode, programmer, permit, aim, arg, asked, strays,
                       total, lock>>

Again ==
    LET same == goal.id = bills[Loop] /\ goal.status = "active"
    IN  /\ pc[Loop] = "again"
        /\ \/ same /\ Context(TRUE, goal.id, goal.id) /\ Goto(Loop, "submit") /\ UNCHANGED rest
           \/ ~same /\ Goto(Loop, "idle") /\ UNCHANGED <<turnVars, strays, rest>>
           \/ Missed /\ UNCHANGED <<turnVars, strays>>
        /\ bills' = [bills EXCEPT ![Loop] = NoId]
        /\ UNCHANGED <<rowVars, seen, mode, programmer, permit, aim, arg, asked, total, lock>>

(* The turn is billed from here on.                                        *)
Spawn ==
    /\ pc[Loop] = "submit" /\ active = NoTurn
    /\ active' = TheTurn /\ turns' = TheTurn
    /\ ctx' = [ctx EXCEPT ![TheTurn].start = IF ctx[TheTurn].account # NoId THEN total ELSE @]
    /\ pc' = [pc EXCEPT ![Loop] = "idle", ![TheTurn] = "run"]
    /\ rest' = FALSE
    /\ UNCHANGED <<rowVars, settleVars, strays, total, lock, next, programmer, permit, aim, arg, asked>>
-----------------------------------------------------------------------------
(* The task of turn t.                                                     *)

Answer(t) ==
    /\ pc[t] = "run" /\ total < MaxTokens
    /\ total' = total + 1
    /\ UNCHANGED <<rowVars, turnVars, settleVars, loopVars, strays, lock, pc, next>>

(* The model calls a goal tool.                                            *)
Call(t) ==
    /\ pc[t] = "run" /\ ctx[t].prog
    /\ \/ Goto(t, "create") /\ UNCHANGED settleVars
       \/ \E tool \in {"get", "complete", "blocked"} : Settle(t, t, tool)
    /\ UNCHANGED <<rowVars, turnVars, loopVars, strays, total, lock>>

Get(t) ==
    /\ pc[t] = "get"
    /\ \/ /\ goal.id # NoId
          /\ ctx' = [ctx EXCEPT ![t].expected = goal.id, ![t].told = @ \cup {goal.id}]
       \/ UNCHANGED ctx
    /\ Goto(t, "run")
    /\ UNCHANGED <<rowVars, active, turns, settleVars, loopVars, strays, total, lock>>

Create(t) ==
    /\ pc[t] = "create"
    /\ \/ CanInsert /\ Insert /\ bills' = [bills EXCEPT ![t] = ids + 1] /\ Goto(t, "bind")
       \/ UNCHANGED <<rowVars, bills>> /\ Goto(t, "run")
    /\ UNCHANGED <<turnVars, seen, mode, loopVars, strays, total, lock>>

(* The turn works for the goal it created, and is billed from now on.      *)
Bind(t) ==
    /\ pc[t] = "bind"
    /\ ctx' = [ctx EXCEPT ![t].expected = bills[t], ![t].account = bills[t],
                          ![t].told = @ \cup {bills[t]}]
    /\ bills' = [bills EXCEPT ![t] = NoId]
    /\ Goto(t, "baseline")
    /\ UNCHANGED <<rowVars, active, turns, seen, mode, loopVars, strays, total, lock>>

Baseline(t) ==
    /\ pc[t] = "baseline" /\ lock[t] = Free
    /\ ctx' = [ctx EXCEPT ![t].start = total]
    /\ Goto(t, "run")
    /\ UNCHANGED <<rowVars, active, turns, settleVars, loopVars, strays, total, lock>>

EndGoal(t) ==
    /\ pc[t] \in {"complete", "blocked"}
    /\ End(t, pc[t]) \/ UNCHANGED <<goal, strays>>
    /\ Goto(t, "run")
    /\ UNCHANGED <<ids, turnVars, settleVars, loopVars, total, lock>>

(* The task is done: it looks at its token, takes itself out of            *)
(* active_turn, settles and asks to continue.                              *)
Over(t) ==
    /\ pc[t] = "run"
    /\ Goto(t, IF active = t THEN "finish" ELSE "done")
    /\ UNCHANGED <<rowVars, turnVars, settleVars, loopVars, strays, total, lock>>

Finish(t) ==
    /\ pc[t] = "finish"
    /\ IF active = t
       THEN active' = NoTurn /\ Settle(t, t, "notify")
       ELSE Goto(t, "done") /\ UNCHANGED <<active, settleVars>>
    /\ UNCHANGED <<rowVars, turns, ctx, loopVars, strays, total, lock>>

(* Seeded fault: only a turn that was billed to a goal asks to continue. *)
MutNotify(t) ==
    /\ pc[t] = "notify"
    /\ permit' = (permit \/ ctx[t].account # NoId)
    /\ Goto(t, "done") /\ Forget(t)
    /\ UNCHANGED <<rowVars, settleVars, strays, total, lock, programmer, aim, arg, asked, rest>>

Notify(t) ==
    /\ pc[t] = "notify"
    /\ permit' = TRUE
    /\ Goto(t, "done") /\ Forget(t)
    /\ UNCHANGED <<rowVars, settleVars, strays, total, lock, programmer, aim, arg, asked, rest>>
-----------------------------------------------------------------------------
User ==
    \/ AskGoal \/ AskSet \/ AskReplace \/ AskEdit \/ AskStatus \/ Clear \/ AskPlan
    \/ Switch \/ AskTurn \/ Interrupt

LoopWork ==
    \/ Settles(Loop) \/ InsertGoal \/ Reread \/ WriteGoal
    \/ Inject \/ Replace \/ Kill \/ Killed \/ Pause \/ Drop \/ ContinueGoal \/ Check \/ Again \/ Spawn

Work(t) ==
    \/ Settles(t) \/ Get(t) \/ Create(t) \/ Bind(t) \/ Baseline(t) \/ EndGoal(t)
    \/ Finish(t) \/ Notify(t)

Model(t) == Answer(t) \/ Call(t) \/ Over(t)

Next == User \/ LoopWork \/ \E t \in Turns : Work(t) \/ Model(t)

Spec == Init /\ [][Next]_vars

(* The loop does what it has begun and takes its permit; of the tasks that *)
(* can be polled some is.  Nothing is assumed of the user, nor that a      *)
(* model ever ends its turn.                                               *)
Fairness == WF_vars(LoopWork) /\ WF_vars(\E t \in Turns : Work(t))

FairSpec == Spec /\ Fairness
-----------------------------------------------------------------------------
(* Properties.                                                             *)

(* The shape of the state.                                                 *)
GoalsTypeOK ==
    /\ goal \in [id : {NoId} \cup GoalIds, status : Status \cup {"none"}, used : Nat,
                 budget : Nat \cup {NoBudget}]
    /\ ids \in 0 .. MaxGoal
    /\ {programmer, permit, rest} \subseteq BOOLEAN
    /\ total \in Nat /\ asked \in Nat
    /\ active \in {NoTurn} \cup Turns /\ turns \in Nat
    /\ ctx \in [Turns -> [prog : BOOLEAN, expected : {NoId} \cup GoalIds,
                          account : {NoId} \cup GoalIds, start : Nat \cup {NoStart},
                          told : SUBSET ({NoId} \cup GoalIds)]]
    /\ lock \in [Turns -> Actors \cup {Free}]
    /\ pc \in [Actors -> LoopAt \cup TaskAt] /\ pc[Loop] \in LoopAt
    /\ next \in [Actors -> LoopNext \cup TaskNext] /\ next[Loop] \in LoopNext
    /\ seen \in [Actors -> Nat]
    /\ bills \in [Actors -> {NoId} \cup GoalIds]
    /\ mode \in [Actors -> Status \cup {"none"}]
    /\ aim \in {NoTurn} \cup Turns
    /\ arg \in [id : {NoId} \cup GoalIds, status : Status, budget : Nat \cup {NoBudget}]
    /\ strays \subseteq Turns

(* No active goal has used up its budget (runtime.rs:1458, 1702): whatever *)
(* was read before a statement ran, a goal that is continued has budget.   *)
BudgetHeld == goal.status = "active" => ~Spent(goal)

(* A turn completes or blocks only a goal it was told of, be it replaced   *)
(* while the tool was called (goal.rs:196).                                *)
StaleTurnEndsNoGoal == strays = {}

(* An active goal of an idle session, with the programmer, goes on         *)
(* (codex.rs:2690, docs/identities.md:61), unless it was left to the user  *)
(* since: by an interrupt, by a plan that was refused, by a resume or by a *)
(* read of the goal that failed (codex.rs:2704, 2722).                     *)
Due == goal.status = "active" /\ programmer /\ active = NoTurn /\ ~rest /\ Ready
GoalGoesOn == []<>~Due
=============================================================================
