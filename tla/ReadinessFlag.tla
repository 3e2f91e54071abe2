---------------------------- MODULE ReadinessFlag ----------------------------
(***************************************************************************)
(* The readiness flag that gates tool calls until the snapshot of a turn   *)
(* is taken (product/utils_readiness/src/lib.rs): an atomic boolean, a set *)
(* of authorization tokens under an async mutex, and a watch channel.      *)
(*                                                                         *)
(* Tasks call subscribe, mark_ready, is_ready and wait_ready.  A step is   *)
(* one access to the atomic, one acquisition or release of the mutex, or   *)
(* one access to the channel.  The code's i32 ids wrap, but a token leaves *)
(* the set only when the flag becomes ready, so 2^32 live tokens would be  *)
(* needed to meet an id again: ids are a plain counter here.               *)
(***************************************************************************)
EXTENDS Naturals, Sequences

CONSTANTS
    Tasks,
    Nobody,      \* the holder of a free mutex
    MaxTokens    \* bound: tokens handed out

ASSUME FlagAssumption == Nobody \notin Tasks /\ MaxTokens \in Nat

VARIABLES
    ready, tokens, nextId,
    holder,       \* who has the mutex around tokens
    watched,      \* the value in the watch channel
    receivers,    \* tasks that hold a receiver of it
    pc, op,       \* where each task stands, and in which call
    token,        \* the token it is marking
    wins          \* the calls that turned the flag ready, in order

flagVars == <<ready, tokens, nextId, holder, wins>>
watchVars == <<watched, receivers>>
vars == <<flagVars, watchVars, pc, op, token>>

TokenIds == 1 .. MaxTokens
FlagPC == {"idle", "subLock", "subInsert", "markLock", "markBody", "try", "swap",
           "unlock", "send", "reload", "watch", "borrow", "parked"}

FlagTypeOK ==
    /\ ready \in BOOLEAN
    /\ tokens \subseteq TokenIds
    /\ nextId \in 1 .. MaxTokens + 1
    /\ holder \in Tasks \cup {Nobody}
    /\ watched \in BOOLEAN
    /\ receivers \subseteq Tasks
    /\ pc \in [Tasks -> FlagPC]
    /\ op \in [Tasks -> {"none", "subscribe", "mark", "poll", "wait"}]
    /\ token \in [Tasks -> 0 .. MaxTokens]
    /\ wins \in Seq({"mark", "poll"})

Init ==
    /\ ready = FALSE
    /\ tokens = {}
    /\ nextId = 1
    /\ holder = Nobody
    /\ watched = FALSE
    /\ receivers = {}
    /\ pc = [t \in Tasks |-> "idle"]
    /\ op = [t \in Tasks |-> "none"]
    /\ token = [t \in Tasks |-> 0]
    /\ wins = << >>

Goto(t, l) == pc' = [pc EXCEPT ![t] = l] /\ UNCHANGED <<op, token>>
Call(t, o, l, k) ==
    /\ pc[t] = "idle"
    /\ pc' = [pc EXCEPT ![t] = l]
    /\ op' = [op EXCEPT ![t] = o]
    /\ token' = [token EXCEPT ![t] = k]
Return(t) ==
    /\ pc' = [pc EXCEPT ![t] = "idle"]
    /\ op' = [op EXCEPT ![t] = "none"]
    /\ token' = [token EXCEPT ![t] = 0]

(* Every call begins with an unlocked load; on a ready flag it is over.    *)
Start(t) ==
    /\ ~ready
    /\ \/ nextId <= MaxTokens /\ Call(t, "subscribe", "subLock", 0)
       \/ \E k \in 1 .. nextId - 1 : Call(t, "mark", "markLock", k)
       \/ \E o \in {"poll", "wait"} : Call(t, o, "try", 0)
    /\ UNCHANGED <<flagVars, watchVars>>

(* with_tokens: lock the set, or give up after LOCK_TIMEOUT of contention. *)
LockTokens(t, from, to) ==
    /\ pc[t] = from
    /\ \/ /\ holder = Nobody
          /\ holder' = t
          /\ Goto(t, to)
       \/ /\ holder # Nobody
          /\ Return(t)
          /\ UNCHANGED holder
    /\ UNCHANGED <<ready, tokens, nextId, wins, watchVars>>

(* Seeded fault: the flag is not loaded again under the lock.              *)
MutSubscribeInsert(t) ==
    /\ pc[t] = "subInsert"
    /\ IF nextId > MaxTokens
       THEN UNCHANGED <<tokens, nextId>>
       ELSE tokens' = tokens \cup {nextId} /\ nextId' = nextId + 1
    /\ holder' = Nobody
    /\ Return(t)
    /\ UNCHANGED <<ready, wins, watchVars>>

(* subscribe, locked: no token once the flag is ready.                     *)
SubscribeInsert(t) ==
    /\ pc[t] = "subInsert"
    /\ \/ /\ ready \/ nextId > MaxTokens
          /\ UNCHANGED <<tokens, nextId>>
       \/ /\ ~ready
          /\ nextId <= MaxTokens
          /\ tokens' = tokens \cup {nextId}
          /\ nextId' = nextId + 1
    /\ holder' = Nobody
    /\ Return(t)
    /\ UNCHANGED <<ready, wins, watchVars>>

(* mark_ready, locked: a subscribed token makes the flag ready and empties *)
(* the set; any other token is refused.                                    *)
MarkBody(t) ==
    /\ pc[t] = "markBody"
    /\ \/ /\ token[t] \in tokens
          /\ tokens' = {}
          /\ ready' = TRUE
          /\ wins' = Append(wins, "mark")
          /\ Goto(t, "unlock")
          /\ UNCHANGED holder
       \/ /\ token[t] \notin tokens
          /\ holder' = Nobody
          /\ Return(t)
          /\ UNCHANGED <<ready, tokens, wins>>
    /\ UNCHANGED <<nextId, watchVars>>

(* is_ready: try_lock; an empty set makes the flag ready.  A busy mutex or *)
(* a token in the set leads to a second load.                              *)
TryTokens(t) ==
    /\ pc[t] = "try"
    /\ \/ /\ holder = Nobody
          /\ tokens = {}
          /\ holder' = t
          /\ Goto(t, "swap")
       \/ /\ holder # Nobody \/ tokens # {}
          /\ Goto(t, "reload")
          /\ UNCHANGED holder
    /\ UNCHANGED <<ready, tokens, nextId, wins, watchVars>>

(* Seeded fault: the swap's result is ignored and the channel sent again.  *)
MutSwap(t) ==
    /\ pc[t] = "swap"
    /\ ready' = TRUE
    /\ wins' = Append(wins, "poll")
    /\ Goto(t, "unlock")
    /\ UNCHANGED <<holder, tokens, nextId, watchVars>>

Swap(t) ==
    /\ pc[t] = "swap"
    /\ \/ /\ ready
          /\ holder' = Nobody
          /\ Return(t)
          /\ UNCHANGED <<ready, wins>>
       \/ /\ ~ready
          /\ ready' = TRUE
          /\ wins' = Append(wins, "poll")
          /\ Goto(t, "unlock")
          /\ UNCHANGED holder
    /\ UNCHANGED <<tokens, nextId, watchVars>>

Unlock(t) ==
    /\ pc[t] = "unlock"
    /\ holder' = Nobody
    /\ Goto(t, "send")
    /\ UNCHANGED <<ready, tokens, nextId, wins, watchVars>>

(* Seeded fault: the broadcast is forgotten.                               *)
MutSend(t) ==
    /\ pc[t] = "send"
    /\ Return(t)
    /\ UNCHANGED <<flagVars, watchVars>>

(* watch::Sender::send fails, and stores nothing, without a receiver.      *)
Send(t) ==
    /\ pc[t] = "send"
    /\ watched' = (watched \/ receivers # {})
    /\ Return(t)
    /\ UNCHANGED <<flagVars, receivers>>

Reload(t) ==
    /\ pc[t] = "reload"
    /\ \/ (ready \/ op[t] = "poll") /\ Return(t)
       \/ ~ready /\ op[t] = "wait" /\ Goto(t, "watch")
    /\ UNCHANGED <<flagVars, watchVars>>

(* wait_ready after a negative answer: take a receiver, look at its value, *)
(* then sleep until it changes.                                            *)
Watch(t) ==
    /\ pc[t] = "watch"
    /\ receivers' = receivers \cup {t}
    /\ Goto(t, "borrow")
    /\ UNCHANGED <<flagVars, watched>>

Leave(t) == Return(t) /\ receivers' = receivers \ {t}

Borrow(t) ==
    /\ pc[t] = "borrow"
    /\ \/ watched /\ Leave(t)
       \/ ~watched /\ Goto(t, "parked") /\ UNCHANGED receivers
    /\ UNCHANGED <<flagVars, watched>>

Wake(t) ==
    /\ pc[t] = "parked"
    /\ watched
    /\ Leave(t)
    /\ UNCHANGED <<flagVars, watched>>

(* The task that waits is aborted with its turn and drops its receiver.    *)
Dropped(t) ==
    /\ pc[t] = "parked"
    /\ Leave(t)
    /\ UNCHANGED <<flagVars, watched>>

OwnStep(t) ==
    \/ LockTokens(t, "subLock", "subInsert") \/ SubscribeInsert(t)
    \/ LockTokens(t, "markLock", "markBody") \/ MarkBody(t)
    \/ TryTokens(t) \/ Swap(t) \/ Unlock(t) \/ Send(t) \/ Reload(t)
    \/ Watch(t) \/ Borrow(t) \/ Wake(t)

(* Nothing is left to do but to wait: every task is idle or asleep.        *)
Rest ==
    /\ ready
    /\ \A t \in Tasks : pc[t] \in {"idle", "parked"}
    /\ UNCHANGED vars

Next == (\E t \in Tasks : Start(t) \/ OwnStep(t) \/ Dropped(t)) \/ Rest

Spec == Init /\ [][Next]_vars

(* A task that is scheduled takes its next step.                           *)
FairSpec == Spec /\ \A t \in Tasks : WF_vars(OwnStep(t))

(***************************************************************************)
(* Properties.                                                             *)
(***************************************************************************)
(* The flag is turned ready by one call only, though markers with several  *)
(* tokens race each other and the pollers that find the set empty: the     *)
(* broadcast is attempted once and mark_ready says true at most once.      *)
ReadyOnce == Len(wins) <= 1

(* Once the flag is ready no token is left or handed out: a subscriber     *)
(* that loaded "not ready" before the mark is turned away under the lock.  *)
NoTokenOnceReady == ready => tokens = {}

(* A task that holds a token is refused only because the flag is ready     *)
(* already: no interleaving takes its token away otherwise.                *)
RefusedOnlyWhenReady ==
    [][\A t \in Tasks : pc[t] = "markBody" /\ pc'[t] = "idle" => ready]_vars

(* wait_ready does not return before the flag is ready, unless its task is *)
(* dropped.                                                                *)
WaitMeansReady ==
    [][\A t \in Tasks :
           op[t] = "wait" /\ op'[t] = "none" => ready' \/ Dropped(t)]_vars

(* A waiter that sleeps when the broadcast goes out is woken by it.        *)
BroadcastWakes ==
    \A t \in Tasks :
        (pc[t] = "parked" /\ \E m \in Tasks : pc[m] = "send") ~> pc[t] # "parked"

(* What the documentation of wait_ready says: the call waits until the     *)
(* flag becomes ready, not longer.                                         *)
WaiterWakes == \A t \in Tasks : (pc[t] = "parked" /\ ready) ~> pc[t] # "parked"
=============================================================================
