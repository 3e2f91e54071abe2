-------------------------- MODULE RolloutRecorder ---------------------------
(***************************************************************************)
(* The rollout of a product session                                        *)
(* (product/agent_runtime/src/rollout/recorder.rs and its callers in       *)
(* codex.rs): tasks queue items on a bounded channel, a writer task writes *)
(* them line by line to a file, and a later life of the session resumes    *)
(* from what can be read back.                                             *)
(*                                                                         *)
(* Items are numbered in the order they are queued.  A line is complete,   *)
(* or it is cut by a failed write or by a crash of the process: then the   *)
(* file ends in a tail without a newline, and the next append, by another  *)
(* life, is glued to it.  A file that is not valid UTF-8, or whose first   *)
(* readable line is not the meta data, is never loaded.  Written means     *)
(* handed to the operating system: the code does not sync.  What an item   *)
(* says is left out, but that a compaction refers to the stored inputs it  *)
(* believes durable.                                                       *)
(***************************************************************************)
EXTENDS Integers, Sequences, FiniteSets, SequencesExt

CONSTANTS
    Callers,    \* tasks of the session that use its recorder
    Capacity,   \* of the channel (256 in the code)
    MaxItems,   \* bound: items queued
    MaxLives    \* bound: lives of the session

ASSUME RolloutAssumption ==
    Capacity \in Nat \ {0} /\ MaxItems \in Nat /\ MaxLives \in Nat

Items == 1 .. MaxItems
Meta == 0       \* the line of the session meta data
Frag == -1      \* a line that does not parse; no item
Clean == -2     \* no tail
Bad == -3       \* a line cut inside a character of several bytes: no UTF-8
Lines == {Meta} \cup Items
None == "none"  \* nobody waits

Kinds == {"event", "flushed", "fork", "slim", "compact", "read", "shutdown"}
Places == {"idle", "send", "flush", "ask", "ack", "acked"}

VARIABLES
    up, lives,      \* the session lives; its lives so far
    file, tail,     \* the complete lines, and what comes after them
    recorder,       \* services.rollout is Some
    chan,           \* the channel: items to add, and who waits for an ack
    writer,         \* where the writer task stands
    batch, wrote,   \* the command it works on: to write, and written
    applied,        \* items the state DB was told of
    pc, call, mine, \* where each caller stands, in which call, with which item
    upto,           \* history: items queued when it asked for a flush
    sent, base,     \* history: items queued, and those of earlier lives
    slims, refs,    \* history: stored inputs, and those an item refers to
    durable,        \* hashes the input slimming store believes durable
    promised,       \* history: items whose flush was acknowledged
    spoiled,        \* history: lines destroyed by gluing
    firsts, lefts   \* history: first items of lives, and tails they found

lifeVars == <<up, lives, base, firsts, lefts>>
diskVars == <<file, tail, spoiled>>
writerVars == <<writer, batch, wrote>>
callerVars == <<pc, call, mine, upto>>
itemVars == <<sent, slims, refs>>
vars == <<lifeVars, diskVars, recorder, chan, writerVars, applied, callerVars, itemVars,
          durable, promised>>

(* The shape of the state.                                                 *)
RolloutTypeOK ==
    /\ up \in BOOLEAN /\ lives \in 0 .. MaxLives
    /\ file \in Seq({Frag, Bad} \cup Lines) /\ tail \in {Frag, Bad, Clean} \cup Lines
    /\ recorder \in BOOLEAN
    /\ chan \in Seq([items : Seq(Items), by : Callers \cup {None}])
    /\ writer \in {"off", "meta", "recv", "write", "dead"}
    /\ batch \in Seq(Items) /\ wrote \subseteq Items
    /\ applied \subseteq Items
    /\ pc \in [Callers -> Places]
    /\ call \in [Callers -> Kinds] /\ mine \in [Callers -> Items \cup {Frag}]
    /\ upto \in [Callers -> 0 .. MaxItems]
    /\ sent \in 0 .. MaxItems /\ base \in 0 .. MaxItems
    /\ slims \subseteq Items /\ refs \in [Items -> SUBSET Items]
    /\ durable \subseteq Items /\ promised \subseteq Items
    /\ spoiled \subseteq Lines /\ firsts \subseteq Nat
    /\ lefts \subseteq {Frag, Clean} \cup Lines

Init ==
    /\ up = FALSE /\ lives = 0
    /\ file = << >> /\ tail = Clean
    /\ recorder = FALSE /\ chan = << >>
    /\ writer = "off" /\ batch = << >> /\ wrote = {} /\ applied = {}
    /\ pc = [p \in Callers |-> "idle"] /\ call = [p \in Callers |-> "event"]
    /\ mine = [p \in Callers |-> Frag] /\ upto = [p \in Callers |-> 0]
    /\ sent = 0 /\ base = 0
    /\ slims = {} /\ refs = [i \in Items |-> {}]
    /\ durable = {} /\ promised = {} /\ spoiled = {} /\ firsts = {} /\ lefts = {}
-----------------------------------------------------------------------------
(* The file.                                                               *)

(* The lines of s that are in T, in their order.                           *)
Filter(s, T) ==
    LET f[n \in 0 .. Len(s)] ==
            IF n = 0 THEN << >>
            ELSE IF s[n] \in T THEN Append(f[n - 1], s[n]) ELSE f[n - 1]
    IN  f[Len(s)]

Text == Append(file, tail)

(* What the file holds, a last line without newline too.                   *)
OnDisk == {l \in Lines : \E k \in DOMAIN Text : Text[k] = l}

Garbled == \E k \in DOMAIN Text : Text[k] = Bad

(* load_rollout_items: the text is UTF-8, and the first line that parses   *)
(* is the meta data.                                                       *)
CanLoad ==
    /\ ~Garbled
    /\ \E k \in DOMAIN Text : Text[k] = Meta /\ \A j \in 1 .. k - 1 : Text[j] \notin Items

Readable == IF CanLoad THEN OnDisk ELSE {}

(* A file with something in it that no life loads.                         *)
Broken == (file # << >> \/ tail # Clean) /\ ~CanLoad

(* Seeded fault: the tail of an earlier life is taken for a line for ever. *)
MutPut(l) ==
    /\ file' = Append(file, IF tail = Clean THEN l ELSE IF tail = Bad THEN Bad ELSE Frag)
    /\ spoiled' = IF tail = Clean THEN spoiled ELSE spoiled \cup ({l, tail} \cap Lines)
    /\ UNCHANGED tail

(* write_line: a line that is written whole.                               *)
Put(l) ==
    /\ file' = Append(file, IF tail = Clean THEN l ELSE IF tail = Bad THEN Bad ELSE Frag)
    /\ spoiled' = IF tail = Clean THEN spoiled ELSE spoiled \cup ({l, tail} \cap Lines)
    /\ tail' = Clean

(* A line that is cut: not begun, in the middle, or before its newline.    *)
Cut(l) ==
    /\ \/ tail' = tail
       \/ tail # Bad /\ tail' \in {Frag, Bad}
       \/ tail = Clean /\ tail' = l
    /\ spoiled' = IF tail' = tail THEN spoiled ELSE spoiled \cup ({tail} \cap Lines)
    /\ UNCHANGED file

(* The line that the writer works on is cut.                               *)
CutLine ==
    \/ writer = "meta" /\ Cut(Meta)
    \/ writer = "write" /\ batch # << >> /\ Cut(Head(batch))
-----------------------------------------------------------------------------
(* The lives of the session.                                               *)

(* Seeded fault: stored inputs count as durable that were not read back.   *)
MutStart ==
    /\ ~up /\ lives < MaxLives
    /\ \/ file = << >> /\ tail = Clean /\ writer' = "meta"
       \/ CanLoad /\ writer' = "recv"
    /\ up' = TRUE /\ lives' = lives + 1 /\ recorder' = TRUE
    /\ base' = sent /\ firsts' = firsts \cup {sent + 1} /\ lefts' = lefts \cup {tail}
    /\ durable' = slims
    /\ UNCHANGED <<diskVars, chan, batch, wrote, applied, callerVars, itemVars, promised>>

(* RolloutRecorder::new creates the file, or opens it to append if its     *)
(* history can be read; the stored inputs that were read back are durable. *)
Start ==
    /\ ~up /\ lives < MaxLives
    /\ \/ file = << >> /\ tail = Clean /\ writer' = "meta"
       \/ CanLoad /\ writer' = "recv"
    /\ up' = TRUE /\ lives' = lives + 1 /\ recorder' = TRUE
    /\ base' = sent /\ firsts' = firsts \cup {sent + 1} /\ lefts' = lefts \cup {tail}
    /\ durable' = slims \cap OnDisk
    /\ UNCHANGED <<diskVars, chan, batch, wrote, applied, callerVars, itemVars, promised>>

(* What is in memory is gone.                                              *)
Forget ==
    /\ up' = FALSE /\ recorder' = FALSE /\ chan' = << >>
    /\ writer' = "off" /\ batch' = << >> /\ wrote' = {}
    /\ pc' = [p \in Callers |-> "idle"] /\ mine' = [p \in Callers |-> Frag]
    /\ upto' = [p \in Callers |-> 0] /\ call' = [p \in Callers |-> "event"]
    /\ durable' = {}
    /\ UNCHANGED <<lives, base, firsts, lefts, applied, itemVars, promised>>

(* The process is killed, perhaps in the middle of a line.                 *)
Crash ==
    /\ up /\ Forget
    /\ CutLine \/ UNCHANGED diskVars

(* The last sender is dropped, and the writer ends when the queue is empty.*)
Stop ==
    /\ up /\ ~recorder /\ \A p \in Callers : pc[p] = "idle"
    /\ writer \in {"recv", "dead"} /\ chan = << >>
    /\ Forget /\ UNCHANGED diskVars
-----------------------------------------------------------------------------
(* The callers.                                                            *)

Go(p, s) == pc' = [pc EXCEPT ![p] = s]
Return(p) ==
    /\ pc' = [pc EXCEPT ![p] = "idle"] /\ call' = [call EXCEPT ![p] = "event"]
    /\ mine' = [mine EXCEPT ![p] = Frag] /\ upto' = [upto EXCEPT ![p] = 0]

(* How many items a call adds.                                             *)
Size(k) == CASE k = "fork" -> 2 [] k \in {"read", "shutdown"} -> 0 [] OTHER -> 1

(* A call begins by cloning the recorder out of its lock, and sends on the *)
(* clone later; without a recorder it is over, but for the delivery of an  *)
(* event.  The history of a fork comes before all else.  Shutdown takes    *)
(* the recorder, which the session is then without.                        *)
Begin(p, k) ==
    /\ up /\ pc[p] = "idle"
    /\ sent + Size(k) <= MaxItems
    /\ \A q \in Callers : call[q] # "fork"
    /\ k = "fork" => lives = 1 /\ sent = 0 /\ \A q \in Callers : pc[q] = "idle"
    /\ recorder \/ k = "flushed"
    /\ Go(p, IF ~recorder THEN "flush" ELSE IF k \in {"read", "shutdown"} THEN "ask" ELSE "send")
    /\ call' = [call EXCEPT ![p] = k]
    /\ recorder' = (recorder /\ k # "shutdown")
    /\ UNCHANGED <<lifeVars, diskVars, chan, writerVars, applied, mine, upto, itemVars,
                   durable, promised>>

(* The flush of an event that was recorded clones the recorder anew.       *)
Clone(p) ==
    /\ pc[p] = "flush" /\ recorder
    /\ Go(p, "ask")
    /\ UNCHANGED <<lifeVars, diskVars, recorder, chan, writerVars, applied, call, mine, upto,
                   itemVars, durable, promised>>

Open == writer # "dead" /\ Len(chan) < Capacity

(* record_items.  A fork hands over its history in one command, and goes   *)
(* on with the same clone.  A stored input counts as durable from now on   *)
(* (mark_durable_hashes).                                                  *)
Queue(p) ==
    LET new == [k \in 1 .. Size(call[p]) |-> sent + k]
    IN  /\ pc[p] = "send" /\ Open
        /\ sent + Size(call[p]) <= MaxItems
        /\ sent' = sent + Size(call[p])
        /\ chan' = Append(chan, [items |-> new, by |-> None])
        /\ slims' = IF call[p] = "slim" THEN slims \cup {sent'} ELSE slims
        /\ durable' = IF call[p] = "slim" THEN durable \cup {sent'} ELSE durable
        /\ refs' = IF call[p] = "compact" THEN [refs EXCEPT ![sent'] = durable] ELSE refs
        /\ IF call[p] \in {"flushed", "fork"}
           THEN /\ Go(p, IF call[p] = "fork" THEN "ask" ELSE "flush")
                /\ mine' = [mine EXCEPT ![p] = sent']
                /\ UNCHANGED <<call, upto>>
           ELSE Return(p)
    /\ UNCHANGED <<lifeVars, diskVars, recorder, writerVars, applied, promised>>

(* The writer is gone; the error of the send is logged.                    *)
RecordFails(p) ==
    /\ pc[p] = "send" /\ writer = "dead"
    /\ IF call[p] = "flushed" THEN Go(p, "flush") /\ UNCHANGED <<call, mine, upto>>
                              ELSE Return(p)
    /\ UNCHANGED <<lifeVars, diskVars, recorder, chan, writerVars, applied, itemVars, durable,
                   promised>>

(* flush, and shutdown: the writer shall answer when it comes to it.       *)
Flush(p) ==
    /\ pc[p] = "ask" /\ Open
    /\ chan' = Append(chan, [items |-> << >>, by |-> p])
    /\ upto' = [upto EXCEPT ![p] = sent]
    /\ Go(p, "ack")
    /\ UNCHANGED <<lifeVars, diskVars, recorder, writerVars, applied, call, mine, itemVars,
                   durable, promised>>

FlushFails(p) ==
    /\ \/ pc[p] = "flush" /\ ~recorder
       \/ pc[p] \in {"ask", "ack"} /\ writer = "dead"
    /\ Return(p)
    /\ UNCHANGED <<lifeVars, diskVars, recorder, chan, writerVars, applied, itemVars, durable,
                   promised>>

(* A rehydration reads the file now; what it finds is durable already.     *)
Flushed(p) ==
    /\ pc[p] = "acked"
    /\ Return(p)
    /\ UNCHANGED <<lifeVars, diskVars, recorder, chan, writerVars, applied, itemVars, durable,
                   promised>>

(* The task is aborted; nobody waits for its ack any more.                 *)
Drop(p) ==
    /\ pc[p] # "idle" /\ call[p] # "shutdown"
    /\ Return(p)
    /\ chan' = [k \in DOMAIN chan |-> IF chan[k].by = p THEN [chan[k] EXCEPT !.by = None]
                                                        ELSE chan[k]]
    /\ UNCHANGED <<lifeVars, diskVars, recorder, writerVars, applied, itemVars, durable,
                   promised>>

Caller(p) ==
    \/ \E k \in Kinds : Begin(p, k)
    \/ Clone(p) \/ Queue(p) \/ RecordFails(p) \/ Flush(p) \/ FlushFails(p) \/ Flushed(p) \/ Drop(p)
-----------------------------------------------------------------------------
(* The writer (rollout_writer).                                            *)

WriteMeta ==
    /\ writer = "meta" /\ writer' = "recv"
    /\ Put(Meta)
    /\ UNCHANGED <<lifeVars, recorder, chan, batch, wrote, applied, callerVars, itemVars,
                   durable, promised>>

(* Seeded fault: the latest command is served first.                       *)
MutTakeItems ==
    /\ writer = "recv" /\ chan # << >> /\ Last(chan).items # << >>
    /\ writer' = "write" /\ batch' = Last(chan).items /\ wrote' = {}
    /\ chan' = Front(chan)
    /\ UNCHANGED <<lifeVars, diskVars, recorder, applied, callerVars, itemVars, durable,
                   promised>>

TakeItems ==
    /\ writer = "recv" /\ chan # << >> /\ Head(chan).items # << >>
    /\ writer' = "write" /\ batch' = Head(chan).items /\ wrote' = {}
    /\ chan' = Tail(chan)
    /\ UNCHANGED <<lifeVars, diskVars, recorder, applied, callerVars, itemVars, durable,
                   promised>>

(* The ack tells a caller that still waits.                                *)
Ack ==
    /\ writer = "recv" /\ chan # << >> /\ Head(chan).items = << >>
    /\ chan' = Tail(chan)
    /\ LET p == Head(chan).by
       IN  IF p = None THEN UNCHANGED <<pc, promised>>
           ELSE Go(p, "acked") /\ promised' = promised \cup (base + 1 .. upto[p])
    /\ UNCHANGED <<lifeVars, diskVars, recorder, writerVars, applied, call, mine, upto,
                   itemVars, durable>>

WriteItem ==
    /\ writer = "write" /\ batch # << >>
    /\ Put(Head(batch))
    /\ batch' = Tail(batch) /\ wrote' = wrote \cup {Head(batch)}
    /\ UNCHANGED <<lifeVars, recorder, chan, writer, applied, callerVars, itemVars, durable,
                   promised>>

(* The state DB hears of a command when all its lines are written.         *)
Apply ==
    /\ writer = "write" /\ batch = << >>
    /\ applied' = applied \cup wrote
    /\ writer' = "recv" /\ wrote' = {}
    /\ UNCHANGED <<lifeVars, diskVars, recorder, chan, batch, callerVars, itemVars, durable,
                   promised>>

(* Seeded fault: a line that fails is skipped.                             *)
MutWriteFails ==
    /\ writer = "write" /\ batch # << >> /\ Cut(Head(batch))
    /\ batch' = Tail(batch)
    /\ UNCHANGED <<lifeVars, recorder, writer, wrote, chan, applied, callerVars, itemVars,
                   durable, promised>>

(* A write fails: the writer returns, and with it the queue and all acks.  *)
WriteFails ==
    /\ CutLine
    /\ writer' = "dead" /\ batch' = << >> /\ wrote' = {} /\ chan' = << >>
    /\ UNCHANGED <<lifeVars, recorder, applied, callerVars, itemVars, durable, promised>>

Writer == WriteMeta \/ TakeItems \/ Ack \/ WriteItem \/ Apply \/ WriteFails

Next == Start \/ Crash \/ Stop \/ Writer \/ \E p \in Callers : Caller(p)

Spec == Init /\ [][Next]_vars
-----------------------------------------------------------------------------
(* Properties.                                                             *)

(* What was told is so, in all later lives too: items whose flush was      *)
(* acknowledged (recorder.rs:478) and items the state DB knows of are in   *)
(* the file, unless an append behind a cut line destroyed them.  And the   *)
(* file that holds them loads, with two exceptions: a line was cut inside  *)
(* a character (recorder.rs:493), or such an append destroyed the meta     *)
(* data (recorder.rs:514-516).                                             *)
ToldIsReadable ==
    LET told == promised \cup applied
    IN  /\ told \subseteq OnDisk \cup spoiled
        /\ told # {} => CanLoad \/ Garbled \/ Meta \in spoiled

(* That append destroys no more than the first item of its life and the    *)
(* line that the life found as a tail, and only the former can have been   *)
(* acknowledged.  The tail may be the meta data, and then all is lost.     *)
OnlyFirstSpoiled ==
    /\ spoiled \subseteq firsts \cup lefts
    /\ promised \cap spoiled \subseteq firsts

(* A compaction that can be read back refers to stored inputs that can be  *)
(* read back too, or that such an append destroyed: they count as durable  *)
(* when they are only queued (codex.rs:4283), and the queue keeps them in  *)
(* front of it, but not whole.                                             *)
DanglingIsSpoiled == \A i \in Readable \cap Items : refs[i] \subseteq Readable \cup spoiled

(* The recorder keeps the promise of a rollout: items in order, each once, *)
(* and none it promised destroyed but by the append after a cut line; what *)
(* breaks the file for its readers breaks it for ever.                     *)
Log == INSTANCE RolloutLog WITH
    log <- Filter(Text, Items),
    accepted <- sent,
    promised <- promised,
    lost <- spoiled \ {Meta},
    broken <- Broken

ImplementsLog == Log!LogSpec

(* codex.rs:3595, "Persist the event to the rollout file, flush it, and    *)
(* only then deliver it to clients": send_event_raw_flushed delivers its   *)
(* event when the flush is over, failed or not.                            *)
DeliveredIsOnDisk ==
    [][\A p \in Callers :
          (Flushed(p) \/ FlushFails(p)) /\ call[p] = "flushed" =>
             mine[p] \in Readable \cup spoiled]_vars
=============================================================================
