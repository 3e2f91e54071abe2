------------------------- MODULE ReadinessFlagProofs -------------------------
(***************************************************************************)
(* Theorems about ReadinessFlag for any set of tasks and tokens.           *)
(***************************************************************************)
EXTENDS ReadinessFlag, TLAPS

(***************************************************************************)
(* NoTokenOnceReady and ReadyOnce are not inductive: that a second call    *)
(* cannot turn the flag ready needs mutual exclusion of the locked parts,  *)
(* that a poller about to swap still sees the empty set it locked, and     *)
(* that the flag tells whether some call won.                              *)
(***************************************************************************)
Locked == {"subInsert", "markBody", "swap", "unlock"}

FlagInv ==
    /\ pc \in [Tasks -> FlagPC]
    /\ \A t \in Tasks : pc[t] \in Locked => holder = t
    /\ \A t \in Tasks : pc[t] = "swap" => tokens = {}
    /\ ready \in BOOLEAN
    /\ NoTokenOnceReady
    /\ ready => Len(wins) = 1
    /\ ~ready => wins = << >>

LEMMA FlagInit == Init => FlagInv
  BY FlagAssumption DEF Init, FlagInv, FlagPC, Locked, NoTokenOnceReady

(* The locked part of a call is over, or the call never took the lock.     *)
LEMMA FlagStep == FlagInv /\ [Next]_vars => FlagInv'
<1> SUFFICES ASSUME FlagInv, [Next]_vars PROVE FlagInv'
  OBVIOUS
<1> USE FlagAssumption DEF FlagInv, NoTokenOnceReady
<1>1. CASE UNCHANGED vars
  BY <1>1 DEF vars, flagVars, watchVars
<1>2. ASSUME NEW t \in Tasks, Start(t) PROVE FlagInv'
  <2>1. UNCHANGED <<ready, tokens, holder, wins>>
    BY <1>2 DEF Start, flagVars
  <2>2. \E l \in {"subLock", "markLock", "try"} : pc' = [pc EXCEPT ![t] = l]
    BY <1>2 DEF Start, Call
  <2> QED
    BY <2>1, <2>2 DEF Locked, FlagPC
<1>3. ASSUME NEW t \in Tasks, NEW from \in {"subLock", "markLock"},
             NEW to \in {"subInsert", "markBody"}, LockTokens(t, from, to)
      PROVE  FlagInv'
  BY <1>3 DEF LockTokens, Goto, Return, Locked, FlagPC
<1>4. ASSUME NEW t \in Tasks, SubscribeInsert(t) PROVE FlagInv'
  <2>1. holder = t /\ ~(\E r \in Tasks : pc[r] = "swap")
    BY <1>4 DEF SubscribeInsert, Locked
  <2> QED
    BY <1>4, <2>1 DEF SubscribeInsert, Return, Locked, FlagPC
<1>5. ASSUME NEW t \in Tasks, MarkBody(t) PROVE FlagInv'
  <2>1. CASE token[t] \in tokens
    <3>1. ~ready /\ wins = << >> /\ holder = t
      BY <1>5, <2>1 DEF MarkBody, Locked
    <3>2. wins' = << "mark" >> /\ ready' /\ tokens' = {}
      BY <1>5, <2>1, <3>1 DEF MarkBody
    <3>3. Len(wins') = 1
      BY <3>2
    <3> QED
      BY <1>5, <2>1, <3>2, <3>3 DEF MarkBody, Goto, Locked, FlagPC
  <2>2. CASE token[t] \notin tokens
    BY <1>5, <2>2 DEF MarkBody, Return, Locked, FlagPC
  <2> QED
    BY <2>1, <2>2
<1>6. ASSUME NEW t \in Tasks, TryTokens(t) PROVE FlagInv'
  BY <1>6 DEF TryTokens, Goto, Locked, FlagPC
<1>7. ASSUME NEW t \in Tasks, Swap(t) PROVE FlagInv'
  <2>1. CASE ready
    BY <1>7, <2>1 DEF Swap, Return, Locked, FlagPC
  <2>2. CASE ~ready
    <3>1. wins' = << "poll" >> /\ ready' /\ tokens' = {}
      BY <1>7, <2>2 DEF Swap
    <3>2. Len(wins') = 1
      BY <3>1
    <3> QED
      BY <1>7, <2>2, <3>1, <3>2 DEF Swap, Goto, Locked, FlagPC
  <2> QED
    BY <2>1, <2>2
<1>8. ASSUME NEW t \in Tasks, Unlock(t) PROVE FlagInv'
  BY <1>8 DEF Unlock, Goto, Locked, FlagPC
<1>9. ASSUME NEW t \in Tasks,
             Send(t) \/ Reload(t) \/ Watch(t) \/ Borrow(t) \/ Wake(t) \/ Dropped(t)
      PROVE  FlagInv'
  <2>1. UNCHANGED <<ready, tokens, holder, wins>>
    BY <1>9 DEF Send, Reload, Watch, Borrow, Wake, Dropped, flagVars
  <2>2. Return(t) \/ \E l \in {"watch", "borrow", "parked"} : Goto(t, l)
    BY <1>9 DEF Send, Reload, Watch, Borrow, Wake, Dropped, Leave
  <2> QED
    BY <2>1, <2>2 DEF Return, Goto, Locked, FlagPC
<1> QED
  BY <1>1, <1>2, <1>3, <1>4, <1>5, <1>6, <1>7, <1>8, <1>9 DEF Next, OwnStep, Rest

LEMMA FlagHolds == Spec => []FlagInv
  BY FlagInit, FlagStep, PTL DEF Spec

(* One call turns the flag ready, however many tasks mark and poll it.     *)
THEOREM ReadyOnceCorrect == Spec => []ReadyOnce
<1>1. FlagInv => ReadyOnce
  <2> SUFFICES ASSUME FlagInv PROVE Len(wins) <= 1
    BY DEF ReadyOnce
  <2>1. CASE ready
    <3>1. Len(wins) = 1
      BY <2>1 DEF FlagInv
    <3> QED
      BY <3>1
  <2>2. CASE ~ready
    BY <2>2, Len(<< >>) = 0 DEF FlagInv
  <2> QED
    BY <2>1, <2>2
<1> QED
  BY <1>1, FlagHolds, PTL

(* A ready flag holds no token, and hands none out.                        *)
THEOREM NoTokenCorrect == Spec => []NoTokenOnceReady
<1>1. FlagInv => NoTokenOnceReady
  BY DEF FlagInv
<1> QED
  BY <1>1, FlagHolds, PTL

(***************************************************************************)
(* Until the flag is ready every token handed out is still in the set.     *)
(***************************************************************************)
TokenInv ==
    /\ nextId \in Nat \ {0}
    /\ token \in [Tasks -> Nat]
    /\ ~ready => tokens = 1 .. nextId - 1
    /\ \A t \in Tasks : pc[t] \in {"markLock", "markBody"} => token[t] \in 1 .. nextId - 1

LEMMA TokenInit == Init => TokenInv
  BY DEF Init, TokenInv

LEMMA TokenStep == FlagInv /\ TokenInv /\ [Next]_vars => TokenInv'
<1> SUFFICES ASSUME FlagInv, TokenInv, [Next]_vars PROVE TokenInv'
  OBVIOUS
<1> USE FlagAssumption DEF TokenInv
<1>1. CASE UNCHANGED vars
  BY <1>1 DEF vars, flagVars
<1>2. ASSUME NEW t \in Tasks, Start(t) PROVE TokenInv'
  <2>1. UNCHANGED <<ready, tokens, nextId>>
    BY <1>2 DEF Start, flagVars
  <2>2. CASE \E k \in 1 .. nextId - 1 : Call(t, "mark", "markLock", k)
    BY <2>1, <2>2 DEF Call, FlagInv
  <2>3. CASE \/ Call(t, "subscribe", "subLock", 0)
             \/ \E o \in {"poll", "wait"} : Call(t, o, "try", 0)
    BY <2>1, <2>3 DEF Call, FlagInv
  <2> QED
    BY <1>2, <2>2, <2>3 DEF Start
<1>3. ASSUME NEW t \in Tasks, SubscribeInsert(t) PROVE TokenInv'
  <2>1. nextId' \in {nextId, nextId + 1} /\ ready' = ready
    BY <1>3 DEF SubscribeInsert
  <2>2. ~ready' => tokens' = 1 .. nextId' - 1
    <3>1. CASE UNCHANGED <<tokens, nextId>>
      BY <2>1, <3>1
    <3>2. CASE ~ready /\ tokens' = tokens \cup {nextId} /\ nextId' = nextId + 1
      <4>1. (1 .. nextId - 1) \cup {nextId} = 1 .. nextId' - 1
        BY <3>2
      <4> QED
        BY <3>2, <4>1
    <3> QED
      BY <1>3, <3>1, <3>2 DEF SubscribeInsert
  <2>3. /\ token' \in [Tasks -> Nat]
        /\ \A r \in Tasks : pc'[r] \in {"markLock", "markBody"}
               => token'[r] \in 1 .. nextId - 1
    BY <1>3 DEF SubscribeInsert, Return, FlagInv
  <2> QED
    BY <2>1, <2>2, <2>3
<1>4. ASSUME NEW t \in Tasks,
             \/ LockTokens(t, "subLock", "subInsert") \/ TryTokens(t) \/ Unlock(t)
             \/ LockTokens(t, "markLock", "markBody")
             \/ MarkBody(t) \/ Swap(t) \/ Send(t) \/ Reload(t) \/ Watch(t)
             \/ Borrow(t) \/ Wake(t) \/ Dropped(t)
      PROVE  TokenInv'
  <2>1. nextId' = nextId /\ (ready' \/ UNCHANGED <<ready, tokens>>)
    BY <1>4 DEF LockTokens, TryTokens, Unlock, MarkBody, Swap, Send, Reload, Watch,
       Borrow, Wake, Dropped, flagVars
  <2>2. \/ Return(t)
        \/ pc[t] = "markLock" /\ Goto(t, "markBody")
        \/ \E l \in {"subInsert", "swap", "unlock", "send", "reload", "watch",
                     "borrow", "parked"} : Goto(t, l)
    BY <1>4 DEF LockTokens, TryTokens, Unlock, MarkBody, Swap, Send, Reload, Watch,
       Borrow, Wake, Dropped, Leave
  <2> QED
    BY <2>1, <2>2 DEF Return, Goto, FlagInv
<1> QED
  BY <1>1, <1>2, <1>3, <1>4 DEF Next, OwnStep, Rest

(* A subscriber that still holds its token is refused by mark_ready only   *)
(* because the flag is ready already.                                      *)
THEOREM RefusedCorrect == Spec => RefusedOnlyWhenReady
<1>1. Init => FlagInv /\ TokenInv
  BY FlagInit, TokenInit
<1>2. FlagInv /\ TokenInv /\ [Next]_vars => (FlagInv /\ TokenInv)'
  BY FlagStep, TokenStep
<1>3. FlagInv /\ TokenInv /\ [Next]_vars =>
        [\A t \in Tasks : pc[t] = "markBody" /\ pc'[t] = "idle" => ready]_vars
  <2> SUFFICES ASSUME FlagInv, TokenInv, Next, NEW t \in Tasks,
                      pc[t] = "markBody", pc'[t] = "idle", ~ready
               PROVE  FALSE
    OBVIOUS
  <2>1. token[t] \in tokens
    BY DEF TokenInv
  <2>2. MarkBody(t)
    BY DEF Next, Start, Call, OwnStep, LockTokens, SubscribeInsert, MarkBody, TryTokens,
       Swap, Unlock, Send, Reload, Watch, Borrow, Wake, Dropped, Leave, Goto, Return,
       Rest, vars, FlagInv
  <2> QED
    BY <2>1, <2>2 DEF MarkBody, Goto, FlagInv
<1> QED
  BY <1>1, <1>2, <1>3, PTL DEF Spec, RefusedOnlyWhenReady

(***************************************************************************)
(* A waiter is at a step of wait_ready, and whoever is about to broadcast, *)
(* or has, did so for a ready flag.                                        *)
(***************************************************************************)
WaitPC == {"try", "swap", "unlock", "send", "reload", "watch", "borrow", "parked"}

WaitInv ==
    /\ op \in [Tasks -> {"none", "subscribe", "mark", "poll", "wait"}]
    /\ \A t \in Tasks : op[t] = "wait" => pc[t] \in WaitPC
    /\ \A t \in Tasks : pc[t] \in {"unlock", "send"} => ready
    /\ watched => ready

LEMMA WaitInit == Init => WaitInv
  BY DEF Init, WaitInv

LEMMA ReadyStays == FlagInv /\ [Next]_vars /\ ready => ready'
  BY DEF FlagInv, Next, Start, OwnStep, LockTokens, SubscribeInsert, MarkBody, TryTokens,
     Swap, Unlock, Send, Reload, Watch, Borrow, Wake, Dropped, Rest, vars, flagVars

LEMMA WaitStep == FlagInv /\ WaitInv /\ [Next]_vars => WaitInv'
<1> SUFFICES ASSUME FlagInv, WaitInv, [Next]_vars PROVE WaitInv'
  OBVIOUS
<1> USE DEF WaitInv
<1>0. pc \in [Tasks -> FlagPC] /\ (ready => ready')
  BY ReadyStays DEF FlagInv
<1>1. CASE UNCHANGED vars
  BY <1>1 DEF vars, flagVars, watchVars
<1>2. ASSUME NEW t \in Tasks, Start(t) PROVE WaitInv'
  BY <1>0, <1>2 DEF Start, Call, WaitPC, flagVars, watchVars
<1>3. ASSUME NEW t \in Tasks, OwnStep(t) \/ Dropped(t) PROVE WaitInv'
  <2>1. \/ Return(t)
        \/ /\ UNCHANGED op
           /\ \/ \E l \in WaitPC \ {"unlock", "send"} : pc' = [pc EXCEPT ![t] = l]
              \/ \E l \in {"unlock", "send"} : pc' = [pc EXCEPT ![t] = l] /\ ready'
              \/ \E l \in FlagPC : pc' = [pc EXCEPT ![t] = l] /\ pc[t] \notin WaitPC
    BY <1>0, <1>3 DEF OwnStep, LockTokens, SubscribeInsert, MarkBody, TryTokens, Swap, Unlock,
       Send, Reload, Watch, Borrow, Wake, Dropped, Leave, Goto, WaitPC, FlagPC
  <2>2. watched' => ready'
    BY <1>0, <1>3 DEF OwnStep, LockTokens, SubscribeInsert, MarkBody, TryTokens, Swap, Unlock,
       Send, Reload, Watch, Borrow, Wake, Dropped, watchVars
  <2>3. op' \in [Tasks -> {"none", "subscribe", "mark", "poll", "wait"}]
    BY <2>1 DEF Return
  <2>4. \A r \in Tasks : op'[r] = "wait" => pc'[r] \in WaitPC
    <3>1. CASE Return(t)
      BY <1>0, <3>1 DEF Return
    <3>2. ASSUME NEW l \in FlagPC, UNCHANGED op, pc' = [pc EXCEPT ![t] = l],
                 l \in WaitPC \/ pc[t] \notin WaitPC
          PROVE  \A r \in Tasks : op'[r] = "wait" => pc'[r] \in WaitPC
      BY <1>0, <3>2
    <3> QED
      BY <2>1, <3>1, <3>2 DEF WaitPC, FlagPC
  <2>5. \A r \in Tasks : pc'[r] \in {"unlock", "send"} => ready'
    <3>1. CASE Return(t)
      BY <1>0, <3>1 DEF Return
    <3>2. ASSUME NEW l \in FlagPC, pc' = [pc EXCEPT ![t] = l],
                 l \notin {"unlock", "send"} \/ ready'
          PROVE  \A r \in Tasks : pc'[r] \in {"unlock", "send"} => ready'
      BY <1>0, <3>2
    <3>3. \/ Return(t)
          \/ \E l \in FlagPC : pc' = [pc EXCEPT ![t] = l]
                             /\ (l \notin {"unlock", "send"} \/ ready')
      BY <1>0, <1>3 DEF OwnStep, LockTokens, SubscribeInsert, MarkBody, TryTokens, Swap, Unlock,
         Send, Reload, Watch, Borrow, Wake, Dropped, Leave, Goto, FlagPC, WaitInv
    <3> QED
      BY <3>1, <3>2, <3>3
  <2> QED
    BY <2>2, <2>3, <2>4, <2>5
<1> QED
  BY <1>1, <1>2, <1>3 DEF Next, Rest

(* wait_ready does not return before the flag is ready, unless its task is *)
(* dropped.                                                                *)
THEOREM WaitCorrect == Spec => WaitMeansReady
<1>1. Init => FlagInv /\ WaitInv
  BY FlagInit, WaitInit
<1>2. FlagInv /\ WaitInv /\ [Next]_vars => (FlagInv /\ WaitInv)'
  BY FlagStep, WaitStep
<1>3. FlagInv /\ WaitInv /\ [Next]_vars =>
        [\A t \in Tasks :
             op[t] = "wait" /\ op'[t] = "none" => ready' \/ Dropped(t)]_vars
  <2> SUFFICES ASSUME FlagInv, WaitInv, Next, NEW t \in Tasks,
                      op[t] = "wait", op'[t] = "none", ~Dropped(t)
               PROVE  ready'
    OBVIOUS
  <2>1. pc[t] \in WaitPC
    BY DEF WaitInv
  <2>2. OwnStep(t)
    <3>1. ASSUME NEW r \in Tasks, r # t, Start(r) \/ OwnStep(r) \/ Dropped(r)
          PROVE  FALSE
      <4>1. op' = op \/ \E o \in {"none", "subscribe", "mark", "poll", "wait"} : op' = [op EXCEPT ![r] = o]
        BY <3>1 DEF Start, Call, OwnStep, LockTokens, SubscribeInsert, MarkBody, TryTokens,
           Swap, Unlock, Send, Reload, Watch, Borrow, Wake, Dropped, Leave, Goto, Return
      <4> QED
        BY <3>1, <4>1 DEF WaitInv
    <3>2. ~Start(t) /\ ~Rest
      BY <2>1 DEF Start, Call, WaitPC, Rest, vars
    <3> QED
      BY <3>1, <3>2 DEF Next
  <2>3. ~(op' = op)
    OBVIOUS
  <2>4. CASE Swap(t) \/ Reload(t)
    BY <2>3, <2>4 DEF Swap, Reload, Goto, flagVars
  <2>5. CASE Send(t) \/ Borrow(t) \/ Wake(t)
    BY <2>3, <2>5 DEF Send, Borrow, Wake, Goto, WaitInv, flagVars
  <2>6. ~(Swap(t) \/ Reload(t) \/ Send(t) \/ Borrow(t) \/ Wake(t)) => FALSE
    BY <2>1, <2>2, <2>3 DEF OwnStep, LockTokens, SubscribeInsert, MarkBody, TryTokens, Unlock,
       Watch, Goto, WaitPC
  <2> QED
    BY <2>4, <2>5, <2>6
<1> QED
  BY <1>1, <1>2, <1>3, PTL DEF Spec, WaitMeansReady
=============================================================================
