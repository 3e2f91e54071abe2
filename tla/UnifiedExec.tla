---------------------------- MODULE UnifiedExec ----------------------------
(***************************************************************************)
(* The unified-exec processes of a product session                         *)
(* (product/agent_runtime/src/unified_exec/, handlers/unified_exec.rs):    *)
(* the table of background terminals, the tool calls that open and poll    *)
(* them, the task that reports the end of each one, and                    *)
(* terminate_all_processes, which a finished turn, the clean operation and *)
(* the shutdown call from outside any tool call.                           *)
(*                                                                         *)
(* The tools do not support parallel calls, so that one call at a time is  *)
(* in flight; it may be dropped at any await.  The n-th exec_command is    *)
(* exec n, and so is the process it opens.  A step is what one task does   *)
(* under one acquisition of the store's lock, or between two awaits.       *)
(* Output, sandboxing, approval and deadlines are left out: a poll ends    *)
(* whenever it may.                                                        *)
(***************************************************************************)
EXTENDS Naturals, FiniteSets

CONSTANTS
    Ids,            \* process ids, 1000 .. 99999 in the code
    MaxProcesses,   \* MAX_UNIFIED_EXEC_PROCESSES, 64
    Protected,      \* how many of the most recently used prune spares, 8
    WarnAt,         \* WARNING_UNIFIED_EXEC_PROCESSES, 60
    MaxExec,        \* bound: exec_command calls
    MaxClose        \* bound: calls of terminate_all_processes

ASSUME ExecAssumption ==
    /\ MaxProcesses \in Nat /\ Protected \in Nat /\ WarnAt \in Nat
    /\ Protected < MaxProcesses
    /\ MaxExec \in Nat /\ MaxClose \in Nat

Execs == 1 .. MaxExec
None == 0

VARIABLES
    reserved,   \* reserved_process_ids
    stored,     \* the execs with an entry in processes
    since,      \* last_used, as an order: the entries used after this one was
    id,         \* the id each exec drew
    os,         \* its process: its cancellation_token follows from its end
    watcher,    \* its exit watcher, which holds the process while it waits
    begun,      \* ExecCommandBegin went out
    ends,       \* how many ExecCommandEnd went out
    stage, at,  \* the tool call in flight, and the exec it is about
    drawn,      \* how many exec_command calls there were
    closing,    \* entries terminate_all_processes drained, to be terminated
    closes,     \* how often it ran
    loose,      \* execs stored, or to be stored, under an id not reserved
    dropped     \* execs whose call was dropped before its End had an owner

storeVars == <<reserved, stored, since>>
eventVars == <<watcher, begun, ends>>
closeVars == <<closing, closes>>
ghostVars == <<loose, dropped>>
vars == <<storeVars, id, os, eventVars, stage, at, drawn, closeVars, ghostVars>>

Stages == {"idle", "reserved", "open", "begin", "store", "warn", "poll", "short", "release", "write"}

(* The shape of the state.                                                 *)
ExecTypeOK ==
    /\ reserved \subseteq Ids
    /\ stored \subseteq Execs
    /\ since \in [Execs -> SUBSET Execs]
    /\ id \in [Execs -> Ids \cup {None}]
    /\ os \in [Execs -> {"none", "live", "exited", "killed"}]
    /\ watcher \in [Execs -> {"none", "waiting", "done"}]
    /\ begun \subseteq Execs
    /\ ends \in [Execs -> 0 .. 2]
    /\ stage \in Stages
    /\ at \in Execs \cup {None}
    /\ drawn \in 0 .. MaxExec
    /\ closing \subseteq Execs
    /\ closes \in 0 .. MaxClose
    /\ loose \subseteq Execs /\ dropped \subseteq Execs

Init ==
    /\ reserved = {} /\ stored = {} /\ since = [e \in Execs |-> {}]
    /\ id = [e \in Execs |-> None]
    /\ os = [e \in Execs |-> "none"]
    /\ watcher = [e \in Execs |-> "none"] /\ begun = {} /\ ends = [e \in Execs |-> 0]
    /\ stage = "idle" /\ at = None /\ drawn = 0
    /\ closing = {} /\ closes = 0
    /\ loose = {} /\ dropped = {}
-----------------------------------------------------------------------------
(* The store.                                                              *)

Dead(e) == os[e] \in {"exited", "killed"}

(* The entry under an id: HashMap keys are unique.                         *)
Under(i) == {e \in stored : id[e] = i}

(* last_used = Instant::now(): e is now the latest of the entries s.       *)
Touched(s, e) ==
    [f \in Execs |-> IF f \in s \ {e} THEN (since[f] \cap s) \cup {e} ELSE {}]

(* The entries s remain.                                                   *)
Left(s) == [f \in Execs |-> IF f \in s THEN since[f] \cap s ELSE {}]

(* terminate: the child is killed.                                         *)
Terminated(s) == [e \in Execs |-> IF e \in s /\ os[e] = "live" THEN "killed" ELSE os[e]]

(* The last Arc of a process goes with its entry, and Drop terminates it,  *)
(* unless its exit watcher still waits.                                    *)
Freed(s) == {e \in s : watcher[e] # "waiting"}

(* process_id_to_prune_from_meta: the least recently used of those not     *)
(* protected, an exited one before any other.                              *)
Oldest(s) == {e \in s : s \subseteq since[e] \cup {e}}
Prunable == {e \in stored : Cardinality(since[e]) >= Protected}

(* Seeded fault: the least recently used goes, exited or not.              *)
MutToPrune == Oldest(stored)

ToPrune ==
    LET exited == {e \in Prunable : os[e] = "exited"}
    IN  Oldest(IF exited # {} THEN exited ELSE Prunable)

(* Seeded fault: one too many.                                             *)
MutPruned == IF Cardinality(stored) <= MaxProcesses THEN {} ELSE ToPrune

(* prune_processes_if_needed.                                              *)
Pruned == IF Cardinality(stored) < MaxProcesses THEN {} ELSE ToPrune

(* ProcessStore::remove, wherever nothing terminates what it returns.      *)
RemoveId(i) ==
    /\ reserved' = reserved \ {i}
    /\ stored' = stored \ Under(i)
    /\ since' = Left(stored \ Under(i))
    /\ os' = Terminated(Freed(Under(i)))
-----------------------------------------------------------------------------
(* exec_command.                                                           *)

In(s) == stage = s
Go(s) == stage' = s /\ UNCHANGED at
Return == stage' = "idle" /\ at' = None

(* Seeded fault: an id is drawn whether or not it is reserved.             *)
MutAllocate(i) ==
    /\ In("idle") /\ drawn < MaxExec
    /\ reserved' = reserved \cup {i}
    /\ drawn' = drawn + 1
    /\ id' = [id EXCEPT ![drawn + 1] = i]
    /\ stage' = "reserved" /\ at' = drawn + 1
    /\ UNCHANGED <<stored, since, os, eventVars, closeVars, ghostVars>>

(* allocate_process_id: an id that is not reserved.                        *)
Allocate(i) ==
    /\ In("idle") /\ drawn < MaxExec
    /\ i \notin reserved
    /\ reserved' = reserved \cup {i}
    /\ drawn' = drawn + 1
    /\ id' = [id EXCEPT ![drawn + 1] = i]
    /\ stage' = "reserved" /\ at' = drawn + 1
    /\ UNCHANGED <<stored, since, os, eventVars, closeVars, ghostVars>>

(* The handler: the command is run; or is refused, or is a patch, and the  *)
(* id is released; or is a patch that fails, and the id is not.            *)
Handle ==
    /\ In("reserved")
    /\ \/ Go("open") /\ UNCHANGED <<storeVars, os>>
       \/ Return /\ RemoveId(id[at])
       \/ Return /\ UNCHANGED <<storeVars, os>>
    /\ UNCHANGED <<id, eventVars, drawn, closeVars, ghostVars>>

(* open_session_with_sandbox: it fails, or the process runs, or has exited *)
(* within its first moments.                                               *)
OpenFails ==
    /\ In("open")
    /\ RemoveId(id[at])
    /\ Return
    /\ UNCHANGED <<id, eventVars, drawn, closeVars, ghostVars>>

Open ==
    /\ In("open")
    /\ \E s \in {"live", "exited"} : os' = [os EXCEPT ![at] = s]
    /\ Go("begin")
    /\ UNCHANGED <<storeVars, id, eventVars, drawn, closeVars, ghostVars>>

(* Begin goes out and the output is streamed; a process that is no longer  *)
(* alive is never stored.                                                  *)
Begin ==
    /\ In("begin")
    /\ begun' = begun \cup {at}
    /\ Go(IF os[at] = "live" THEN "store" ELSE "short")
    /\ UNCHANGED <<storeVars, id, os, watcher, ends, drawn, closeVars, ghostVars>>

(* store_process: prune, insert (an entry under the same id is replaced),  *)
(* and spawn the exit watcher, after the warning if there is one.          *)
Store ==
    LET unreserved == {id[e] : e \in Pruned}
        gone == Pruned \cup Under(id[at])
        kept == (stored \ gone) \cup {at}
        killed == Pruned \cup Freed(gone)
    IN  /\ In("store")
        /\ reserved' = reserved \ unreserved
        /\ loose' = IF id[at] \in unreserved THEN loose \cup {at} ELSE loose
        /\ stored' = kept
        /\ since' = Touched(kept, at)
        /\ os' = Terminated(killed)
        /\ IF Cardinality(kept) >= WarnAt
           THEN Go("warn") /\ UNCHANGED watcher
           ELSE Go("poll") /\ watcher' = [watcher EXCEPT ![at] = "waiting"]
        /\ UNCHANGED <<id, begun, ends, drawn, closeVars, dropped>>

(* Seeded fault: the watcher is only spawned when there is no warning.     *)
MutWarn ==
    /\ In("warn")
    /\ Go("poll")
    /\ UNCHANGED <<storeVars, id, os, eventVars, drawn, closeVars, ghostVars>>

Warn ==
    /\ In("warn")
    /\ watcher' = [watcher EXCEPT ![at] = "waiting"]
    /\ Go("poll")
    /\ UNCHANGED <<storeVars, id, os, begun, ends, drawn, closeVars, ghostVars>>

(* refresh_process_state, by id, at the end of a poll: an exited process   *)
(* leaves the store.                                                       *)
Refresh ==
    /\ stage \in {"poll", "write"}
    /\ IF \E e \in Under(id[at]) : os[e] = "exited"
       THEN RemoveId(id[at])
       ELSE UNCHANGED <<storeVars, os>>
    /\ Return
    /\ UNCHANGED <<id, eventVars, drawn, closeVars, ghostVars>>

(* A short-lived command: the call itself sends End, then releases the id. *)
EndShort ==
    /\ In("short")
    /\ ends' = [ends EXCEPT ![at] = @ + 1]
    /\ Go("release")
    /\ UNCHANGED <<storeVars, id, os, watcher, begun, drawn, closeVars, ghostVars>>

Release ==
    /\ In("release")
    /\ RemoveId(id[at])
    /\ Return
    /\ UNCHANGED <<id, eventVars, drawn, closeVars, ghostVars>>

(* write_stdin: prepare_process_handles takes the entry and marks it used; *)
(* without a terminal, or when its input is closed, the call ends here.    *)
Write(e) ==
    /\ In("idle") /\ e \in stored
    /\ since' = Touched(stored, e)
    /\ \/ stage' = "write" /\ at' = e
       \/ UNCHANGED <<stage, at>>
    /\ UNCHANGED <<reserved, stored, id, os, eventVars, drawn, closeVars, ghostVars>>

(* The turn is interrupted and the call dropped, at an await: a process it *)
(* alone holds is dropped with it, its id stays reserved.                  *)
Drop ==
    /\ stage # "idle"
    /\ os' = Terminated(IF stage \in {"begin", "store"} THEN {at} ELSE {})
    /\ dropped' = IF stage \in {"begin", "store", "warn", "short"} THEN dropped \cup {at} ELSE dropped
    /\ Return
    /\ UNCHANGED <<storeVars, id, eventVars, drawn, closeVars, loose>>
-----------------------------------------------------------------------------
(* What goes on beside the call.                                           *)

(* terminate_all_processes: drain the store under its lock, ...            *)
DrainStore ==
    /\ closes < MaxClose
    /\ closes' = closes + 1
    /\ closing' = closing \cup stored
    /\ reserved' = {} /\ stored' = {} /\ since' = Left({})
    /\ loose' = IF stage \in {"reserved", "open", "begin", "store", "short", "release"}
                THEN loose \cup {at} ELSE loose
    /\ UNCHANGED <<id, os, eventVars, stage, at, drawn, dropped>>

(* ... then terminate what was drained.                                    *)
TerminateDrained ==
    /\ closing # {}
    /\ os' = Terminated(closing)
    /\ closing' = {}
    /\ UNCHANGED <<storeVars, id, eventVars, stage, at, drawn, closes, ghostVars>>

Exit(e) ==
    /\ os[e] = "live"
    /\ os' = [os EXCEPT ![e] = "exited"]
    /\ UNCHANGED <<storeVars, id, eventVars, stage, at, drawn, closeVars, ghostVars>>

(* The exit watcher, once the token is cancelled (terminate does it, and   *)
(* the task of from_spawned at an exit) and the output has been streamed.  *)
EndWatched(e) ==
    /\ watcher[e] = "waiting" /\ Dead(e)
    /\ ends' = [ends EXCEPT ![e] = @ + 1]
    /\ watcher' = [watcher EXCEPT ![e] = "done"]
    /\ UNCHANGED <<storeVars, id, os, begun, stage, at, drawn, closeVars, ghostVars>>

Call ==
    \/ Handle \/ OpenFails \/ Open \/ Begin \/ Store \/ Warn \/ Refresh
    \/ EndShort \/ Release \/ Drop

Next ==
    \/ \E i \in Ids : Allocate(i)
    \/ \E e \in Execs : Write(e) \/ Exit(e) \/ EndWatched(e)
    \/ Call \/ DrainStore \/ TerminateDrained

Spec == Init /\ [][Next]_vars
-----------------------------------------------------------------------------
(* Properties.                                                             *)

(* mod.rs:54: the store never holds more than MAX_UNIFIED_EXEC_PROCESSES   *)
(* processes, though pruning comes before the insert and spares the most   *)
(* recently used.                                                          *)
StoreBounded == Cardinality(stored) <= MaxProcesses

(* A live process is in the store, where a later call, the next prune and  *)
(* the clean operation find it, or is about to be terminated, or still in  *)
(* the hands of the call that opened it.  Only one stored under an id that *)
(* is not reserved (terminate_all_processes cleared it while the process   *)
(* was being opened, or a prune did with such a process under the same     *)
(* id) can be lost, to a call that draws the same id.                      *)
LiveIsKept ==
    \A e \in Execs :
        os[e] = "live" =>
            \/ e \in stored \cup closing \cup loose
            \/ at = e /\ stage \in {"begin", "store"}

(* Pruning takes a process that Protected others were used after; a live   *)
(* one only when no exited one could go; and of its kind the one used      *)
(* least recently.                                                         *)
PruneSpares ==
    [][(stage = "store" /\ stage' \in {"warn", "poll"}) =>
          \A e \in stored \ stored' : id[e] # id[at] =>
             /\ Cardinality(since[e]) >= Protected
             /\ \A f \in stored \ {e} :
                   Cardinality(since[f]) >= Protected
                   => \/ os[e] = "exited" /\ os[f] = "live"
                      \/ os[e] = os[f] /\ f \in since[e]
      ]_vars

(* The client is told once that a command ended, after it was told that it *)
(* began, and only of a process that is gone, whichever of the call and    *)
(* the watcher sends it.                                                   *)
EndOnce ==
    \A e \in Execs :
        /\ ends[e] <= 1
        /\ ends[e] = 1 => e \in begun /\ Dead(e)

(* Somebody owes the client the end of every command that began: the call, *)
(* until the watcher is spawned (or, for a command that was over at once,  *)
(* to the end), then the watcher, unless the call was dropped before.      *)
EndOwed ==
    \A e \in begun \ dropped :
        ends[e] = 0 => \/ at = e /\ stage \in {"store", "warn", "short"}
                       \/ watcher[e] = "waiting"

=============================================================================
