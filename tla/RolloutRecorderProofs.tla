----------------------- MODULE RolloutRecorderProofs ------------------------
(***************************************************************************)
(* Proofs about RolloutRecorder, for any number of callers, items and      *)
(* lives and any capacity of the channel.                                  *)
(*                                                                         *)
(* The argument: while the writer lives, every item of this life is        *)
(* settled (the file holds it, or an append destroyed it) or it still      *)
(* waits, in order; what a flush waits for, and what an item refers to,    *)
(* is settled or waits in front of it.                                     *)
(***************************************************************************)
EXTENDS RolloutRecorder, SequenceTheorems, WellFoundedInduction, TLAPS

USE RolloutAssumption DEF Places

Settled == OnDisk \cup spoiled

(* What waits in front of the k-th command, and all that waits.            *)
Before(k) ==
    {i \in Items :
        \/ \E a \in DOMAIN batch : batch[a] = i
        \/ \E j \in DOMAIN chan : j < k /\ \E a \in DOMAIN chan[j].items : chan[j].items[a] = i}
Queued == Before(Len(chan) + 1)

Live == up /\ writer # "dead"

(* The items of this life, in the order in which they wait.                *)
QueueInv ==
    /\ Live => \A i \in base + 1 .. sent : i \in Settled \cup Queued
    /\ ~Live => chan = << >> /\ batch = << >>
    /\ up <=> writer # "off"
    /\ writer # "write" => batch = << >>
    /\ base <= sent
    /\ Queued \subseteq base + 1 .. sent
    /\ Queued \cap Settled = {}
    /\ \A i \in Settled \cap Items : i <= sent
    /\ \A a, b \in DOMAIN batch : a < b => batch[a] < batch[b]
    /\ \A k \in DOMAIN chan : \A i \in Before(k) : \A a \in DOMAIN chan[k].items :
          i < chan[k].items[a]
    /\ \A k \in DOMAIN chan : \A a, b \in DOMAIN chan[k].items :
          a < b => chan[k].items[a] < chan[k].items[b]

(* Who waits for an ack, and for what.                                     *)
WaitInv ==
    /\ up \/ \A p \in Callers : pc[p] = "idle"
    /\ \A p \in Callers : upto[p] <= sent
    /\ \A k \in DOMAIN chan : chan[k].by # None =>
          /\ pc[chan[k].by] = "ack"
          /\ \A i \in base + 1 .. upto[chan[k].by] : i \in Settled \cup Before(k)
    /\ \A j, k \in DOMAIN chan : chan[j].by # None /\ chan[j].by = chan[k].by => j = k

ToldInv == promised \cup applied \cup wrote \subseteq Settled

(* References point backwards.                                             *)
RefInv ==
    /\ \A i \in Items : i > sent => refs[i] = {}
    /\ \A i \in OnDisk \cap Items : refs[i] \subseteq Settled
    /\ \A a \in DOMAIN batch : refs[batch[a]] \subseteq Settled
    /\ \A k \in DOMAIN chan : \A a \in DOMAIN chan[k].items :
          refs[chan[k].items[a]] \subseteq Settled \cup Before(k)
    /\ Live => durable \subseteq Settled \cup Queued

(* A tail is of an earlier life and was promised to nobody; the append     *)
(* that meets it is the first of this life.                                *)
FirstInv ==
    /\ promised \cap spoiled \subseteq firsts
    /\ Live => /\ base + 1 \in firsts
               /\ \A i \in base + 1 .. sent : i \in spoiled => i \in firsts
    /\ writer = "meta" => tail = Clean
    /\ tail \in Items => tail \notin promised
    /\ Live /\ tail \in Items => tail <= base
    /\ Live /\ tail # Clean => \A i \in base + 1 .. sent : i \notin Settled

RolloutInv == RolloutTypeOK /\ QueueInv /\ WaitInv /\ ToldInv /\ RefInv /\ FirstInv

LEMMA LineNumbers ==
    /\ Items \subseteq Nat /\ \A i \in Items : i >= 1
    /\ Meta \notin Items /\ Frag \notin Items /\ Clean \notin Items /\ Bad \notin Items
    /\ Meta # Frag /\ Frag # Clean /\ Meta # Clean
    /\ Bad # Meta /\ Bad # Frag /\ Bad # Clean
    /\ Lines = {Meta} \cup Items
  BY DEF Items, Lines, Meta, Frag, Clean, Bad

Marks == {Frag, Bad, Clean} \cup Lines

(* The tail is read as a line of its own.                                  *)
LEMMA TextAt ==
    ASSUME NEW f \in Seq(Marks), NEW t \in Marks
    PROVE  /\ DOMAIN Append(f, t) = 1 .. Len(f) + 1 /\ Append(f, t)[Len(f) + 1] = t
           /\ DOMAIN f = 1 .. Len(f) /\ Len(f) \in Nat
           /\ \A k \in DOMAIN f : Append(f, t)[k] = f[k]
           /\ \A m : (\E k \in DOMAIN Append(f, t) : Append(f, t)[k] = m)
                     <=> (m = t \/ \E k \in DOMAIN f : f[k] = m)
<1>1. /\ DOMAIN Append(f, t) = 1 .. Len(f) + 1 /\ Append(f, t)[Len(f) + 1] = t
      /\ DOMAIN f = 1 .. Len(f) /\ Len(f) \in Nat
      /\ \A k \in DOMAIN f : Append(f, t)[k] = f[k]
  OBVIOUS
<1> QED BY <1>1

LEMMA MarksType ==
    ASSUME NEW f, NEW t, f \in Seq({Frag, Bad} \cup Lines), t \in {Frag, Bad, Clean} \cup Lines
    PROVE  f \in Seq(Marks) /\ t \in Marks
<1>1. {Frag, Bad} \cup Lines \subseteq Marks
  BY DEF Marks
<1> QED BY <1>1 DEF Marks

LEMMA TextIs ==
    ASSUME RolloutTypeOK
    PROVE  /\ DOMAIN Text = 1 .. Len(file) + 1 /\ Text[Len(file) + 1] = tail
           /\ DOMAIN file = 1 .. Len(file) /\ Len(file) \in Nat
           /\ \A k \in DOMAIN file : Text[k] = file[k]
           /\ OnDisk = {m \in Lines : m = tail \/ \E k \in DOMAIN file : file[k] = m}
           /\ Garbled <=> tail = Bad \/ \E k \in DOMAIN file : file[k] = Bad
<1>1. file \in Seq(Marks) /\ tail \in Marks
  BY MarksType DEF RolloutTypeOK
<1> QED BY <1>1, TextAt DEF Text, OnDisk, Garbled

LEMMA TextNext ==
    ASSUME RolloutTypeOK'
    PROVE  /\ OnDisk' = {m \in Lines : m = tail' \/ \E k \in DOMAIN file' : file'[k] = m}
           /\ Garbled' <=> tail' = Bad \/ \E k \in DOMAIN file' : file'[k] = Bad
<1>1. file' \in Seq(Marks) /\ tail' \in Marks
  BY MarksType DEF RolloutTypeOK
<1> QED BY <1>1, TextAt DEF Text, OnDisk, Garbled

LEMMA PutLine ==
    ASSUME RolloutTypeOK, NEW l \in Lines, Put(l)
    PROVE  /\ file' \in Seq({Frag, Bad} \cup Lines) /\ tail' = Clean
           /\ OnDisk \cup spoiled \subseteq OnDisk' \cup spoiled'
           /\ OnDisk' \cup spoiled' = OnDisk \cup spoiled \cup {l}
           /\ OnDisk' \subseteq OnDisk \cup {l}
           /\ spoiled' \subseteq Lines
           /\ tail = Clean => spoiled' = spoiled
           /\ spoiled' \subseteq spoiled \cup {l, tail}
<1>1. PICK x : x = IF tail = Clean THEN l ELSE IF tail = Bad THEN Bad ELSE Frag
  OBVIOUS
<1>2. /\ x \in {Frag, Bad} \cup Lines /\ (x = l \/ x \notin Lines)
      /\ file' = Append(file, x) /\ file \in Seq({Frag, Bad} \cup Lines) /\ tail' = Clean
      /\ tail \in {Frag, Bad, Clean} \cup Lines /\ spoiled \subseteq Lines
  BY <1>1, LineNumbers DEF Put, RolloutTypeOK
<1>3. /\ file' \in Seq({Frag, Bad} \cup Lines)
      /\ \A m : (\E k \in DOMAIN file' : file'[k] = m) <=> (m = x \/ \E k \in DOMAIN file : file[k] = m)
  <2>1. /\ file' \in Seq({Frag, Bad} \cup Lines) /\ Len(file') = Len(file) + 1
        /\ file'[Len(file) + 1] = x /\ \A k \in 1 .. Len(file) : file'[k] = file[k]
    BY <1>2
  <2>2. DOMAIN file' = 1 .. Len(file) + 1 /\ DOMAIN file = 1 .. Len(file) /\ Len(file) \in Nat
    BY <1>2, <2>1
  <2> QED BY <2>1, <2>2
<1>4. OnDisk' = {m \in Lines : m = x \/ \E k \in DOMAIN file : file[k] = m}
  <2>1. file' \in Seq(Marks) /\ Clean \in Marks
    BY <1>3, MarksType
  <2> QED BY <1>2, <1>3, <2>1, TextAt, LineNumbers DEF OnDisk, Text
<1>5. OnDisk = {m \in Lines : m = tail \/ \E k \in DOMAIN file : file[k] = m}
  BY TextIs
<1>6. CASE tail = Clean
  BY <1>1, <1>2, <1>3, <1>4, <1>5, <1>6, LineNumbers DEF Put
<1>7. CASE tail # Clean
  <2>1. spoiled' = spoiled \cup ({l, tail} \cap Lines) /\ x \notin Lines
    BY <1>1, <1>7, LineNumbers DEF Put
  <2>2. OnDisk' = OnDisk \ {m \in {tail} : ~\E k \in DOMAIN file : file[k] = m}
    BY <1>4, <1>5, <2>1
  <2> QED BY <1>2, <1>3, <1>5, <1>7, <2>1, <2>2
<1> QED BY <1>6, <1>7

LEMMA CutTail ==
    ASSUME RolloutTypeOK, NEW l \in Lines, Cut(l)
    PROVE  /\ file' = file /\ tail' \in {tail, Frag, Bad, l} /\ (tail' = l => tail \in {l, Clean})
           /\ OnDisk \cup spoiled \subseteq OnDisk' \cup spoiled'
           /\ OnDisk' \cup spoiled' \subseteq OnDisk \cup spoiled \cup {l}
           /\ OnDisk' \subseteq OnDisk \cup {l}
           /\ spoiled' \subseteq Lines
           /\ spoiled' \subseteq spoiled \cup {tail}
<1>1. /\ file' = file /\ tail' \in {tail, Frag, Bad, l} /\ (tail' = l => tail \in {l, Clean})
      /\ tail' # tail => tail' \in {Frag, Bad} \/ (tail' = l /\ tail = Clean)
  BY LineNumbers DEF Cut
<1>2. /\ spoiled' = IF tail' = tail THEN spoiled ELSE spoiled \cup ({tail} \cap Lines)
      /\ tail \in {Frag, Bad, Clean} \cup Lines /\ spoiled \subseteq Lines
  BY DEF Cut, RolloutTypeOK
<1>3. OnDisk = {m \in Lines : m = tail \/ \E k \in DOMAIN file : file[k] = m}
  BY TextIs
<1>4. OnDisk' = {m \in Lines : m = tail' \/ \E k \in DOMAIN file : file[k] = m}
  <2>1. file \in Seq(Marks) /\ tail' \in Marks
    <3>1. tail' \in {Frag, Bad, Clean} \cup Lines /\ file \in Seq({Frag, Bad} \cup Lines)
      BY <1>1, <1>2 DEF RolloutTypeOK
    <3> QED BY <3>1, MarksType
  <2> QED BY <1>1, <2>1, TextAt DEF OnDisk, Text
<1> QED BY <1>1, <1>2, <1>3, <1>4, LineNumbers

LEMMA InitInv == Init => RolloutInv
<1> SUFFICES ASSUME Init PROVE RolloutInv
  OBVIOUS
<1>1. OnDisk = {} /\ Queued = {} /\ \A k : Before(k) = {}
  BY LineNumbers DEF Init, OnDisk, Text, Queued, Before
<1>2. RolloutTypeOK
  <2>1. "event" \in Kinds /\ MaxItems \in Nat /\ MaxLives \in Nat
    BY DEF Kinds
  <2>2. /\ [p \in Callers |-> "idle"] \in [Callers -> Places]
        /\ [p \in Callers |-> "event"] \in [Callers -> Kinds]
        /\ [p \in Callers |-> Frag] \in [Callers -> Items \cup {Frag}]
        /\ [p \in Callers |-> 0] \in [Callers -> 0 .. MaxItems]
        /\ [i \in Items |-> {}] \in [Items -> SUBSET Items]
    BY <2>1
  <2>3. 0 \in 0 .. MaxItems /\ 0 \in 0 .. MaxLives
    BY <2>1
  <2>4. << >> \in Seq({Frag, Bad} \cup Lines) /\ << >> \in Seq(Items)
        /\ << >> \in Seq([items : Seq(Items), by : Callers \cup {None}])
    OBVIOUS
  <2>5. up \in BOOLEAN /\ recorder \in BOOLEAN /\ lives \in 0 .. MaxLives /\ sent \in 0 .. MaxItems
        /\ base \in 0 .. MaxItems /\ writer \in {"off", "meta", "recv", "write", "dead"}
        /\ tail \in {Frag, Bad, Clean} \cup Lines
    BY <2>3 DEF Init
  <2> QED BY <2>2, <2>4, <2>5 DEF Init, RolloutTypeOK
<1>3. QueueInv /\ WaitInv /\ ToldInv /\ RefInv /\ FirstInv
  BY <1>1, LineNumbers DEF Init, QueueInv, WaitInv, ToldInv, RefInv, FirstInv, Settled, Live
<1> QED BY <1>2, <1>3 DEF RolloutInv

LEMMA ChanType ==
    ASSUME RolloutTypeOK
    PROVE  /\ DOMAIN chan = 1 .. Len(chan) /\ Len(chan) \in Nat
           /\ \A k \in DOMAIN chan : /\ chan[k].items \in Seq(Items)
                                     /\ chan[k].by # None => chan[k].by \in Callers
           /\ DOMAIN batch = 1 .. Len(batch) /\ Len(batch) \in Nat
           /\ \A a \in DOMAIN batch : batch[a] \in Items
<1>1. chan \in Seq([items : Seq(Items), by : Callers \cup {None}]) /\ batch \in Seq(Items)
  BY DEF RolloutTypeOK
<1> DEFINE C == [items : Seq(Items), by : Callers \cup {None}]
<1>2. \A k \in DOMAIN chan : chan[k] \in C
  <2> HIDE DEF C
  <2>1. chan \in Seq(C)
    BY <1>1 DEF C
  <2> QED BY <2>1
<1>3. \A k \in DOMAIN chan : /\ chan[k].items \in Seq(Items)
                             /\ chan[k].by # None => chan[k].by \in Callers
  BY <1>2
<1> QED BY <1>1, <1>3

(* A step of a caller that leaves the file, the queue and the items alone. *)
LEMMA CallerFrame ==
    ASSUME RolloutInv, RolloutTypeOK', up,
           \A p \in Callers : upto'[p] \in {upto[p], 0},
           \A p \in Callers : pc[p] = "ack" => pc'[p] = "ack" \/ chan = << >>,
           UNCHANGED <<lifeVars, diskVars, chan, writerVars, applied, itemVars, durable, promised>>
    PROVE  RolloutInv'
<1> USE DEF lifeVars, diskVars, writerVars, itemVars, RolloutInv
<1>1. OnDisk' = OnDisk /\ Queued' = Queued /\ \A k : Before(k)' = Before(k)
  BY DEF OnDisk, Text, Queued, Before
<1>2. Settled' = Settled /\ Live' = Live
  BY <1>1 DEF Settled, Live
<1>3. QueueInv' BY <1>1, <1>2 DEF QueueInv
<1>4. WaitInv'
  <2>1. \A p \in Callers : upto[p] \in 0 .. MaxItems /\ sent \in Nat
    BY DEF RolloutTypeOK
  <2>2. \A p \in Callers : upto'[p] <= sent
    BY <2>1 DEF WaitInv
  <2>3. \A k \in DOMAIN chan : chan[k].by # None => chan[k].by \in Callers
    BY ChanType
  <2>4. base \in Nat
    BY DEF RolloutTypeOK
  <2>5. ASSUME NEW k \in DOMAIN chan, chan[k].by # None
        PROVE  /\ pc'[chan[k].by] = "ack"
               /\ \A i \in base + 1 .. upto'[chan[k].by] : i \in Settled \cup Before(k)
    <3> DEFINE q == chan[k].by
    <3>1. q \in Callers /\ upto'[q] \in {upto[q], 0} /\ chan # << >>
      BY <2>3, <2>5
    <3>2. pc[q] = "ack" /\ \A i \in base + 1 .. upto[q] : i \in Settled \cup Before(k)
      BY <2>5 DEF WaitInv
    <3>3. pc'[q] = "ack"
      BY <3>1, <3>2
    <3>4. \A i \in base + 1 .. upto'[q] : i \in base + 1 .. upto[q]
      BY <2>4, <2>1, <3>1
    <3> QED BY <3>2, <3>3, <3>4
  <2> QED BY <1>1, <1>2, <2>2, <2>5 DEF WaitInv
<1>5. ToldInv' BY <1>2 DEF ToldInv
<1>6. RefInv' BY <1>1, <1>2 DEF RefInv
<1>7. FirstInv' BY <1>2 DEF FirstInv
<1> QED BY <1>3, <1>4, <1>5, <1>6, <1>7

LEMMA ReturnType ==
    ASSUME RolloutTypeOK, NEW p \in Callers, Return(p)
    PROVE  /\ pc' \in [Callers -> Places]
           /\ call' \in [Callers -> Kinds] /\ mine' \in [Callers -> Items \cup {Frag}]
           /\ upto' \in [Callers -> 0 .. MaxItems]
           /\ \A q \in Callers : upto'[q] \in {upto[q], 0}
           /\ \A q \in Callers : pc'[q] = IF q = p THEN "idle" ELSE pc[q]
  BY DEF RolloutTypeOK, Return, Kinds

LEMMA BeginStep ==
    ASSUME RolloutInv, NEW p \in Callers, NEW k \in Kinds, Begin(p, k)
    PROVE  RolloutInv'
<1>1. RolloutTypeOK /\ UNCHANGED upto /\ UNCHANGED <<lifeVars, diskVars, chan, writerVars, applied,
                      itemVars, durable, promised>>
  BY DEF RolloutInv, Begin
<1>2. pc' \in [Callers -> Places]
  BY <1>1 DEF Begin, Go, RolloutTypeOK
<1>3. call' \in [Callers -> Kinds] /\ recorder' \in BOOLEAN
  BY <1>1 DEF Begin, RolloutTypeOK
<1>4. RolloutTypeOK'
  BY <1>1, <1>2, <1>3 DEF Begin, RolloutTypeOK, lifeVars, diskVars, writerVars, itemVars
<1>5. \A q \in Callers : pc[q] = "ack" => pc'[q] = "ack"
  BY <1>1 DEF Begin, Go, RolloutTypeOK
<1> QED BY <1>1, <1>4, <1>5, CallerFrame DEF Begin

LEMMA CloneStep ==
    ASSUME RolloutInv, NEW p \in Callers, Clone(p)
    PROVE  RolloutInv'
<1>1. /\ RolloutTypeOK /\ up /\ UNCHANGED upto
      /\ UNCHANGED <<lifeVars, diskVars, recorder, chan, writerVars, applied, call, mine, upto,
                     itemVars, durable, promised>>
  BY DEF RolloutInv, WaitInv, Clone
<1>2. pc' \in [Callers -> Places] /\ \A q \in Callers : pc[q] = "ack" => pc'[q] = "ack"
  BY <1>1 DEF Clone, Go, RolloutTypeOK, Places
<1>3. RolloutTypeOK'
  BY <1>1, <1>2 DEF RolloutTypeOK, lifeVars, diskVars, writerVars, itemVars
<1> QED BY <1>1, <1>2, <1>3, CallerFrame

LEMMA RecordFailsStep ==
    ASSUME RolloutInv, NEW p \in Callers, RecordFails(p)
    PROVE  RolloutInv'
<1>0. up
  BY DEF RecordFails, RolloutInv, WaitInv
<1>1. RolloutTypeOK /\ UNCHANGED <<lifeVars, diskVars, recorder, chan, writerVars, applied, itemVars,
                                 durable, promised>>
  BY DEF RolloutInv, RecordFails
<1>2. CASE Go(p, "flush") /\ UNCHANGED <<call, mine, upto>>
  <2>1. pc' \in [Callers -> Places]
    BY <1>1, <1>2 DEF Go, RolloutTypeOK
  <2>2. RolloutTypeOK'
    BY <1>1, <1>2, <2>1 DEF RolloutTypeOK, lifeVars, diskVars, writerVars, itemVars
  <2>3. \A q \in Callers : pc[q] = "ack" => pc'[q] = "ack"
    BY <1>1, <1>2 DEF RecordFails, Go, RolloutTypeOK
  <2> QED BY <1>1, <1>2, <2>2, <2>3, <1>0, CallerFrame
<1>3. CASE Return(p)
  <2>1. RolloutTypeOK'
    BY <1>1, <1>3, ReturnType DEF RolloutTypeOK, lifeVars, diskVars, writerVars, itemVars
  <2>2. \A q \in Callers : pc[q] = "ack" => pc'[q] = "ack"
    BY <1>1, <1>3, ReturnType DEF RecordFails
  <2> QED BY <1>1, <1>3, <2>1, <2>2, <1>0, ReturnType, CallerFrame
<1> QED BY <1>2, <1>3 DEF RecordFails

LEMMA FlushEndsStep ==
    ASSUME RolloutInv, NEW p \in Callers, FlushFails(p) \/ Flushed(p)
    PROVE  RolloutInv'
<1>0. up
  BY DEF FlushFails, Flushed, RolloutInv, WaitInv
<1>1. RolloutTypeOK /\ Return(p) /\ UNCHANGED <<lifeVars, diskVars, recorder, chan, writerVars,
                                                applied, itemVars, durable, promised>>
  BY DEF RolloutInv, FlushFails, Flushed
<1>2. RolloutTypeOK'
  BY <1>1, ReturnType DEF RolloutTypeOK, lifeVars, diskVars, writerVars, itemVars
<1>3. writer = "dead" => chan = << >>
  BY DEF RolloutInv, QueueInv, Live
<1>4. \A q \in Callers : pc[q] = "ack" => pc'[q] = "ack" \/ chan = << >>
  BY <1>1, <1>3, ReturnType DEF FlushFails, Flushed
<1> QED BY <1>0, <1>1, <1>2, <1>4, ReturnType, CallerFrame

(* The session or its writer ends, perhaps in the middle of a line.        *)
LEMMA CutOff ==
    ASSUME RolloutInv, RolloutTypeOK', CutLine \/ UNCHANGED diskVars,
           ~Live', up' <=> writer' # "off", writer' \notin {"meta", "write"},
           chan' = << >>, batch' = << >>, wrote' = {},
           up' \/ \A p \in Callers : pc'[p] = "idle",
           \A p \in Callers : upto'[p] \in {upto[p], 0},
           UNCHANGED <<sent, base, firsts, refs, promised, applied>>
    PROVE  RolloutInv'
<1> USE DEF RolloutInv
<1>1. PICK l \in Lines :
        /\ l \in Items => l \notin Settled /\ l <= sent /\ refs[l] \subseteq Settled
        /\ tail' \in {tail, Frag, Bad, l}
        /\ Settled \subseteq Settled' /\ Settled' \subseteq Settled \cup {l}
        /\ OnDisk' \subseteq OnDisk \cup {l}
        /\ spoiled' \subseteq spoiled \cup {tail}
  <2>1. CASE writer = "meta" /\ Cut(Meta)
    BY <2>1, CutTail, LineNumbers DEF Settled
  <2>2. CASE writer = "write" /\ batch # << >> /\ Cut(Head(batch))
    <3>1. Head(batch) = batch[1] /\ 1 \in DOMAIN batch /\ Head(batch) \in Items
      BY <2>2, ChanType DEF RolloutTypeOK
    <3>2. Head(batch) \in Queued
      BY <3>1 DEF Queued, Before
    <3>3. Head(batch) \notin Settled /\ Head(batch) <= sent /\ refs[Head(batch)] \subseteq Settled
      <4>1. Head(batch) \in base + 1 .. sent /\ Head(batch) \notin Settled
        BY <3>2 DEF QueueInv
      <4>2. refs[Head(batch)] \subseteq Settled
        BY <3>1 DEF RefInv
      <4>3. Head(batch) <= sent
        BY <4>1 DEF RolloutTypeOK
      <4> QED BY <4>1, <4>2, <4>3
    <3> QED BY <2>2, <3>1, <3>3, CutTail, LineNumbers DEF Settled
  <2>3. CASE UNCHANGED diskVars
    BY <2>3, LineNumbers DEF Settled, OnDisk, Text, diskVars
  <2> QED BY <2>1, <2>2, <2>3 DEF CutLine
<1>2. Queued' = {} /\ \A k : Before(k)' = {}
  BY DEF Queued, Before
<1>3. QueueInv'
  BY <1>1, <1>2 DEF QueueInv
<1>4. WaitInv'
  <2>1. \A p \in Callers : upto'[p] <= sent
    <3>1. sent \in Nat /\ \A p \in Callers : upto[p] <= sent
      BY DEF WaitInv, RolloutTypeOK
    <3> QED BY <3>1
  <2> QED BY <2>1 DEF WaitInv
<1>5. ToldInv'
  BY <1>1 DEF ToldInv
<1>6. RefInv'
  <2>1. \A i \in OnDisk' \cap Items : refs[i] \subseteq Settled
    BY <1>1 DEF RefInv
  <2> QED BY <1>1, <1>2, <2>1 DEF RefInv
<1>7. FirstInv'
  <2>1. tail' \in Items => tail' \notin promised
    BY <1>1, LineNumbers DEF FirstInv, ToldInv
  <2>2. promised \cap spoiled' \subseteq firsts
    BY <1>1, LineNumbers DEF FirstInv, RolloutTypeOK
  <2> QED BY <2>1, <2>2 DEF FirstInv
<1> QED BY <1>3, <1>4, <1>5, <1>6, <1>7

LEMMA CutType ==
    ASSUME RolloutTypeOK, CutLine \/ UNCHANGED diskVars
    PROVE  /\ file' \in Seq({Frag, Bad} \cup Lines) /\ tail' \in {Frag, Bad, Clean} \cup Lines
           /\ spoiled' \subseteq Lines
<1> DEFINE Kept == /\ file' \in Seq({Frag, Bad} \cup Lines)
                   /\ tail' \in {Frag, Bad, Clean} \cup Lines
                   /\ spoiled' \subseteq Lines
<1>1. ASSUME NEW l \in Lines, Cut(l) PROVE Kept
  <2>1. /\ file \in Seq({Frag, Bad} \cup Lines) /\ tail \in {Frag, Bad, Clean} \cup Lines
    BY DEF RolloutTypeOK
  <2>2. file' = file /\ tail' \in {tail, Frag, Bad, l} /\ spoiled' \subseteq Lines
    BY <1>1, CutTail
  <2> QED BY <2>1, <2>2
<1>2. CASE writer = "meta" /\ Cut(Meta)
  BY <1>1, <1>2, LineNumbers
<1>3. CASE writer = "write" /\ batch # << >> /\ Cut(Head(batch))
  <2>1. Head(batch) \in Items
    BY <1>3 DEF RolloutTypeOK
  <2> QED BY <1>1, <1>3, <2>1, LineNumbers
<1>4. CASE UNCHANGED diskVars
  BY <1>4 DEF RolloutTypeOK, diskVars
<1> QED BY <1>2, <1>3, <1>4 DEF CutLine

LEMMA ForgetStep ==
    ASSUME RolloutInv, Crash \/ Stop
    PROVE  RolloutInv'
<1>1. RolloutTypeOK /\ Forget /\ (CutLine \/ UNCHANGED diskVars)
  BY DEF RolloutInv, Crash, Stop
<1>2. RolloutTypeOK'
  <2>1. "event" \in Kinds /\ MaxItems \in Nat /\ 0 \in 0 .. MaxItems
    BY DEF Kinds
  <2>2. /\ pc' \in [Callers -> Places]
        /\ call' \in [Callers -> Kinds] /\ mine' \in [Callers -> Items \cup {Frag}]
        /\ upto' \in [Callers -> 0 .. MaxItems]
    BY <1>1, <2>1 DEF Forget
  <2>3. /\ file' \in Seq({Frag, Bad} \cup Lines) /\ tail' \in {Frag, Bad, Clean} \cup Lines
        /\ spoiled' \subseteq Lines
    BY <1>1, CutType
  <2>4. << >> \in Seq(Items) /\ << >> \in Seq([items : Seq(Items), by : Callers \cup {None}])
    OBVIOUS
  <2>5. /\ up' \in BOOLEAN /\ recorder' \in BOOLEAN /\ writer' \in {"off", "meta", "recv", "write", "dead"}
        /\ wrote' \subseteq Items /\ durable' \subseteq Items
    BY <1>1 DEF Forget
  <2> QED BY <1>1, <2>2, <2>3, <2>4, <2>5 DEF Forget, RolloutTypeOK, itemVars
<1>3. \A p \in Callers : upto'[p] \in {upto[p], 0}
  BY <1>1 DEF Forget
<1>4. ~Live' /\ \A p \in Callers : pc'[p] = "idle"
  BY <1>1 DEF Forget, Live
<1> QED BY <1>1, <1>2, <1>3, <1>4, CutOff DEF Forget, itemVars

LEMMA WriteFailsStep ==
    ASSUME RolloutInv, WriteFails
    PROVE  RolloutInv'
<1>1. RolloutTypeOK /\ CutLine
  BY DEF RolloutInv, WriteFails
<1>2. /\ file' \in Seq({Frag, Bad} \cup Lines) /\ tail' \in {Frag, Bad, Clean} \cup Lines
      /\ spoiled' \subseteq Lines
  BY <1>1, CutType
<1>3. RolloutTypeOK'
  BY <1>1, <1>2 DEF WriteFails, RolloutTypeOK, lifeVars, callerVars, itemVars
<1>4. up
  BY <1>1 DEF CutLine, RolloutInv, QueueInv
<1>5. \A p \in Callers : upto'[p] \in {upto[p], 0}
  BY DEF WriteFails, callerVars
<1>6. ~Live'
  BY DEF WriteFails, Live
<1> QED BY <1>1, <1>3, <1>4, <1>5, <1>6, CutOff DEF WriteFails, lifeVars, itemVars

LEMMA StartStep ==
    ASSUME RolloutInv, Start
    PROVE  RolloutInv'
<1> USE DEF RolloutInv
<1>1. /\ ~up /\ up' /\ recorder' = TRUE /\ lives' = lives + 1 /\ lives < MaxLives
      /\ base' = sent /\ firsts' = firsts \cup {sent + 1} /\ durable' = slims \cap OnDisk
      /\ lefts' = lefts \cup {tail} /\ tail \in {Frag, Clean} \cup Lines
      /\ writer' \in {"meta", "recv"} /\ (writer' = "meta" => tail = Clean)
      /\ UNCHANGED <<diskVars, chan, batch, wrote, applied, callerVars, itemVars, promised>>
  <2>1. CanLoad => tail \in {Frag, Clean} \cup Lines
    BY TextIs DEF CanLoad, RolloutTypeOK
  <2> QED BY <2>1 DEF Start
<1>2. chan = << >> /\ batch = << >>
  BY <1>1 DEF QueueInv, Live
<1>3. Queued' = {} /\ OnDisk' = OnDisk /\ Settled' = Settled /\ Queued = {} /\ \A k : Before(k)' = {}
  BY <1>1, <1>2 DEF Queued, Before, OnDisk, Text, Settled, diskVars
<1>4. sent \in Nat /\ sent' = sent /\ base' + 1 .. sent' = {}
  BY <1>1 DEF RolloutTypeOK, itemVars
<1>5. RolloutTypeOK'
  <2>1. lives' \in 0 .. MaxLives
    BY <1>1 DEF RolloutTypeOK
  <2>2. firsts' \subseteq Nat
    BY <1>1, <1>4 DEF RolloutTypeOK
  <2> QED BY <1>1, <2>1, <2>2 DEF RolloutTypeOK, diskVars, callerVars, itemVars
<1>6. QueueInv'
  BY <1>1, <1>2, <1>3, <1>4 DEF QueueInv, itemVars
<1>7. WaitInv'
  BY <1>1, <1>2, <1>3, <1>4 DEF WaitInv, callerVars
<1>8. ToldInv'
  BY <1>1, <1>3 DEF ToldInv
<1>9. RefInv'
  BY <1>1, <1>2, <1>3 DEF RefInv, Settled, itemVars
<1>10. FirstInv'
  <2>1. tail \in Items => tail <= sent
    BY TextIs, LineNumbers DEF QueueInv, Settled
  <2> QED BY <1>1, <1>3, <1>4, <2>1 DEF FirstInv, diskVars
<1> QED BY <1>5, <1>6, <1>7, <1>8, <1>9, <1>10

(* The writer takes a command; an empty one is a flush.                    *)
LEMMA TakeFacts ==
    ASSUME RolloutTypeOK, chan # << >>, batch = << >>,
           chan' = Tail(chan), batch' = Head(chan).items
    PROVE  /\ chan' \in Seq([items : Seq(Items), by : Callers \cup {None}])
           /\ batch' = chan[1].items /\ 1 \in DOMAIN chan /\ Before(1) = {}
           /\ \A k \in DOMAIN chan' : k + 1 \in DOMAIN chan /\ chan'[k] = chan[k + 1]
           /\ \A k \in DOMAIN chan' : Before(k)' = Before(k + 1)
           /\ Queued' = Queued
<1>1. chan \in Seq([items : Seq(Items), by : Callers \cup {None}])
  BY DEF RolloutTypeOK
<1>2. /\ chan' \in Seq([items : Seq(Items), by : Callers \cup {None}])
      /\ DOMAIN chan = 1 .. Len(chan) /\ DOMAIN chan' = 1 .. Len(chan') /\ Len(chan') \in Nat
      /\ Len(chan) = Len(chan') + 1 /\ Head(chan) = chan[1]
      /\ \A k \in 1 .. Len(chan') : chan'[k] = chan[k + 1]
  BY <1>1
<1> DEFINE Has(c, i) == \E a \in DOMAIN c.items : c.items[a] = i
<1>3. ASSUME NEW k \in 1 .. Len(chan') + 1, NEW i
      PROVE  (\E j \in DOMAIN chan : j < k + 1 /\ Has(chan[j], i))
             <=> (Has(chan[1], i) \/ \E j \in DOMAIN chan' : j < k /\ Has(chan'[j], i))
  <2> HIDE DEF Has
  <2>1. ASSUME NEW j \in DOMAIN chan, j < k + 1, Has(chan[j], i)
        PROVE  Has(chan[1], i) \/ \E m \in DOMAIN chan' : m < k /\ Has(chan'[m], i)
    <3>1. CASE j = 1
      BY <2>1, <3>1
    <3>2. CASE j # 1
      <4>1. j - 1 \in DOMAIN chan' /\ j - 1 < k /\ chan'[j - 1] = chan[j]
        BY <1>2, <2>1, <3>2
      <4> QED BY <2>1, <4>1
    <3> QED BY <3>1, <3>2
  <2>2. ASSUME Has(chan[1], i)
        PROVE  \E j \in DOMAIN chan : j < k + 1 /\ Has(chan[j], i)
    <3>1. 1 \in DOMAIN chan /\ 1 < k + 1
      BY <1>2
    <3> QED BY <2>2, <3>1
  <2>3. ASSUME NEW m \in DOMAIN chan', m < k, Has(chan'[m], i)
        PROVE  \E j \in DOMAIN chan : j < k + 1 /\ Has(chan[j], i)
    <3>1. m + 1 \in DOMAIN chan /\ m + 1 < k + 1 /\ chan[m + 1] = chan'[m]
      BY <1>2, <2>3
    <3> QED BY <2>3, <3>1
  <2> QED BY <2>1, <2>2, <2>3
<1>4. \A k \in 1 .. Len(chan') + 1 : Before(k)' = Before(k + 1)
  <2> SUFFICES ASSUME NEW k \in 1 .. Len(chan') + 1
               PROVE  Before(k)' = Before(k + 1)
    OBVIOUS
  <2>1. Before(k)' = {i \in Items : Has(chan[1], i) \/ \E j \in DOMAIN chan' : j < k /\ Has(chan'[j], i)}
    BY <1>2 DEF Before
  <2>2. Before(k + 1) = {i \in Items : \E j \in DOMAIN chan : j < k + 1 /\ Has(chan[j], i)}
    BY DEF Before
  <2> HIDE DEF Has
  <2> QED BY <1>3, <2>1, <2>2
<1>5. Before(1) = {}
  BY <1>2 DEF Before
<1>6. Queued' = Queued
  BY <1>2, <1>4 DEF Queued
<1> QED BY <1>2, <1>4, <1>5, <1>6

LEMMA TakeFrame ==
    ASSUME RolloutInv, RolloutTypeOK', chan # << >>, writer = "recv",
           chan' = Tail(chan), batch' = Head(chan).items, writer' # "off", writer' # "dead",
           writer' # "meta", writer' # "write" => batch' = << >>, wrote' \subseteq wrote,
           \A q \in Callers : pc[q] = "ack" => pc'[q] = "ack" \/ q = Head(chan).by,
           promised \subseteq promised',
           \A i \in promised' : i \in promised \/ i \in Settled \cap (base + 1 .. sent),
           UNCHANGED <<lifeVars, diskVars, applied, upto, itemVars, durable>>
    PROVE  RolloutInv'
<1> USE DEF RolloutInv, lifeVars, diskVars, itemVars
<1>1. batch = << >> /\ up
  BY DEF QueueInv
<1>2. /\ batch' = chan[1].items /\ 1 \in DOMAIN chan /\ Before(1) = {}
      /\ \A k \in DOMAIN chan' : k + 1 \in DOMAIN chan /\ chan'[k] = chan[k + 1]
      /\ \A k \in DOMAIN chan' : Before(k)' = Before(k + 1)
      /\ Queued' = Queued
  BY <1>1, TakeFacts
<1>3. OnDisk' = OnDisk /\ Settled' = Settled /\ Live' /\ Live
  BY <1>1 DEF OnDisk, Text, Settled, Live
<1>4. QueueInv'
  <2>1. \A a, b \in DOMAIN batch' : a < b => batch'[a] < batch'[b]
    BY <1>2 DEF QueueInv
  <2>2. \A k \in DOMAIN chan' : \A i \in Before(k)' : \A a \in DOMAIN chan'[k].items : i < chan'[k].items[a]
    BY <1>2 DEF QueueInv
  <2>3. \A k \in DOMAIN chan' : \A a, b \in DOMAIN chan'[k].items :
          a < b => chan'[k].items[a] < chan'[k].items[b]
    BY <1>2 DEF QueueInv
  <2> QED BY <1>1, <1>2, <1>3, <2>1, <2>2, <2>3 DEF QueueInv
<1>5. WaitInv'
  <2>1. ASSUME NEW k \in DOMAIN chan', chan'[k].by # None
        PROVE  /\ pc'[chan'[k].by] = "ack"
               /\ \A i \in base + 1 .. upto[chan'[k].by] : i \in Settled \cup Before(k)'
    <3>1. k + 1 \in DOMAIN chan /\ chan'[k] = chan[k + 1] /\ Before(k)' = Before(k + 1) /\ k + 1 # 1
      BY <1>2, ChanType, <2>1
    <3>2. chan[k + 1].by # chan[1].by
      BY <1>2, <2>1, <3>1 DEF WaitInv
    <3>3. Head(chan) = chan[1]
      BY DEF RolloutTypeOK
    <3>4. chan[k + 1].by \in Callers
      BY <2>1, <3>1, ChanType
    <3> QED BY <2>1, <3>1, <3>2, <3>3, <3>4 DEF WaitInv
  <2>2. ASSUME NEW j \in DOMAIN chan', NEW k \in DOMAIN chan', chan'[j].by # None, chan'[j].by = chan'[k].by
        PROVE  j = k
    <3>1. j + 1 \in DOMAIN chan /\ k + 1 \in DOMAIN chan /\ chan[j + 1].by = chan[k + 1].by /\ chan[j + 1].by # None
      BY <1>2, <2>2
    <3>2. j + 1 = k + 1
      BY <3>1 DEF WaitInv
    <3>3. j \in Int /\ k \in Int
      <4>1. DOMAIN chan' = 1 .. Len(chan')
        BY DEF RolloutTypeOK
      <4> QED BY <4>1
    <3> QED BY <3>2, <3>3
  <2> QED BY <1>1, <1>3, <2>1, <2>2 DEF WaitInv
<1>6. ToldInv'
  BY <1>3 DEF ToldInv
<1>7. RefInv'
  <2>1. \A a \in DOMAIN batch' : refs[batch'[a]] \subseteq Settled
    BY <1>2 DEF RefInv
  <2>2. \A k \in DOMAIN chan' : \A a \in DOMAIN chan'[k].items :
          refs[chan'[k].items[a]] \subseteq Settled \cup Before(k)'
    BY <1>2 DEF RefInv
  <2> QED BY <1>2, <1>3, <2>1, <2>2 DEF RefInv
<1>8. FirstInv'
  <2>1. base \in Nat /\ sent \in Nat
    BY DEF RolloutTypeOK
  <2>2. promised' \cap spoiled \subseteq firsts
    BY <1>3 DEF FirstInv
  <2>3. tail \in Items => tail \notin promised'
    BY <1>3, <2>1, LineNumbers DEF FirstInv
  <2> QED BY <1>3, <2>2, <2>3 DEF FirstInv
<1> QED BY <1>4, <1>5, <1>6, <1>7, <1>8

LEMMA TakeItemsStep ==
    ASSUME RolloutInv, TakeItems
    PROVE  RolloutInv'
<1>1. RolloutTypeOK /\ batch = << >> /\ up
  BY DEF TakeItems, RolloutInv, QueueInv
<1>2. chan' \in Seq([items : Seq(Items), by : Callers \cup {None}]) /\ batch' \in Seq(Items)
  <2>1. chan' \in Seq([items : Seq(Items), by : Callers \cup {None}]) /\ batch' = chan[1].items
        /\ 1 \in DOMAIN chan
    BY <1>1, TakeFacts DEF TakeItems
  <2> QED BY <1>1, <2>1, ChanType
<1>3. RolloutTypeOK'
  BY <1>1, <1>2 DEF TakeItems, RolloutTypeOK, lifeVars, diskVars, callerVars, itemVars
<1> QED BY <1>3, TakeFrame DEF TakeItems, callerVars

(* What is promised to whom waits for an ack is settled.                   *)
LEMMA AckFacts ==
    ASSUME RolloutInv, Ack
    PROVE  /\ promised \subseteq promised'
           /\ \A i \in promised' : i \in promised \/ i \in Settled \cap (base + 1 .. sent)
           /\ batch = << >> /\ up /\ Live
           /\ chan # << >> /\ chan' = Tail(chan) /\ batch' = Head(chan).items
           /\ writer = "recv" /\ writer' = "recv" /\ batch' = << >> /\ wrote' = wrote
           /\ chan' \in Seq([items : Seq(Items), by : Callers \cup {None}])
           /\ Queued' = Queued
<1>1. RolloutTypeOK /\ batch = << >> /\ up /\ Live
  BY DEF Ack, RolloutInv, QueueInv, Live
<1> DEFINE p == Head(chan).by
<1>2. /\ chan # << >> /\ chan' = Tail(chan) /\ batch' = Head(chan).items
      /\ writer = "recv" /\ writer' = "recv" /\ batch' = << >> /\ wrote' = wrote
  BY <1>1 DEF Ack, writerVars
<1>3. /\ chan' \in Seq([items : Seq(Items), by : Callers \cup {None}])
      /\ 1 \in DOMAIN chan /\ Before(1) = {} /\ Head(chan) = chan[1] /\ Queued' = Queued
  BY <1>1, <1>2, TakeFacts DEF RolloutTypeOK
<1>4. base \in Nat /\ sent \in Nat /\ sent <= MaxItems
  BY <1>1 DEF RolloutTypeOK
<1>5. p # None => p \in Callers
  BY <1>1, <1>3, ChanType
<1>6. p # None => base + 1 .. upto[p] \subseteq Settled \cap (base + 1 .. sent)
  <2> SUFFICES ASSUME p # None, NEW i \in base + 1 .. upto[p]
               PROVE  i \in Settled \cap (base + 1 .. sent)
    OBVIOUS
  <2>1. i \in Settled
    BY <1>3 DEF RolloutInv, WaitInv
  <2>2. upto[p] <= sent /\ upto[p] \in Nat
    BY <1>1, <1>5 DEF RolloutInv, WaitInv, RolloutTypeOK
  <2> QED BY <1>4, <2>1, <2>2
<1>7. /\ promised \subseteq promised'
      /\ \A i \in promised' : i \in promised \/ i \in Settled \cap (base + 1 .. sent)
  BY <1>6 DEF Ack
<1> QED BY <1>1, <1>2, <1>3, <1>7

LEMMA AckStep ==
    ASSUME RolloutInv, Ack
    PROVE  RolloutInv'
<1>1. RolloutTypeOK
  BY DEF RolloutInv
<1>2. promised' \subseteq Items
  <2>1. base + 1 .. sent \subseteq Items /\ promised \subseteq Items
    BY <1>1 DEF RolloutTypeOK, Items
  <2> QED BY <2>1, AckFacts
<1>3. /\ pc' \in [Callers -> Places]
      /\ \A q \in Callers : pc[q] = "ack" => pc'[q] = "ack" \/ q = Head(chan).by
  BY <1>1 DEF Ack, Go, RolloutTypeOK
<1>4. RolloutTypeOK'
  BY <1>1, <1>2, <1>3, AckFacts DEF Ack, RolloutTypeOK, lifeVars, diskVars, writerVars, itemVars
<1> QED BY <1>3, <1>4, AckFacts, TakeFrame DEF Ack, writerVars

LEMMA ApplyStep ==
    ASSUME RolloutInv, Apply
    PROVE  RolloutInv'
<1> USE DEF RolloutInv, lifeVars, diskVars, callerVars, itemVars
<1>1. /\ up /\ Live /\ Live' /\ batch = << >> /\ applied' \subseteq applied \cup wrote /\ wrote' = {}
      /\ writer' = "recv"
      /\ UNCHANGED <<lifeVars, diskVars, recorder, chan, batch, callerVars, itemVars, durable, promised>>
  BY DEF Apply, QueueInv, Live
<1>2. OnDisk' = OnDisk /\ Settled' = Settled /\ Queued' = Queued /\ \A k : Before(k)' = Before(k)
  BY <1>1 DEF OnDisk, Text, Settled, Queued, Before
<1>3. RolloutTypeOK'
  BY <1>1 DEF RolloutTypeOK
<1>4. QueueInv' /\ WaitInv'
  BY <1>1, <1>2 DEF QueueInv, WaitInv
<1>5. ToldInv' /\ RefInv' /\ FirstInv'
  BY <1>1, <1>2 DEF ToldInv, RefInv, FirstInv
<1> QED BY <1>3, <1>4, <1>5

LEMMA WriteMetaStep ==
    ASSUME RolloutInv, WriteMeta
    PROVE  RolloutInv'
<1> USE DEF RolloutInv, lifeVars, callerVars, itemVars
<1>1. /\ up /\ Live /\ Live' /\ batch = << >> /\ tail = Clean /\ writer' = "recv"
      /\ UNCHANGED <<lifeVars, recorder, chan, batch, wrote, applied, callerVars, itemVars,
                   durable, promised>>
  BY DEF WriteMeta, QueueInv, FirstInv, Live
<1>2. /\ file' \in Seq({Frag, Bad} \cup Lines) /\ tail' = Clean
      /\ Settled' = Settled \cup {Meta} /\ OnDisk' \subseteq OnDisk \cup {Meta}
      /\ spoiled' = spoiled
  BY <1>1, PutLine, LineNumbers DEF WriteMeta, Settled
<1>3. Queued' = Queued /\ \A k : Before(k)' = Before(k)
  BY <1>1 DEF Queued, Before
<1>4. RolloutTypeOK'
  BY <1>1, <1>2 DEF RolloutTypeOK
<1>5. QueueInv'
  <2>1. Queued \cap Settled' = {}
    BY <1>2, LineNumbers DEF QueueInv, Queued, Before
  <2> QED BY <1>1, <1>2, <1>3, <2>1, LineNumbers DEF QueueInv
<1>6. WaitInv'
  BY <1>1, <1>2, <1>3 DEF WaitInv
<1>7. ToldInv' /\ RefInv'
  BY <1>1, <1>2, <1>3, LineNumbers DEF ToldInv, RefInv
<1>8. FirstInv'
  BY <1>1, <1>2, LineNumbers DEF FirstInv
<1> QED BY <1>4, <1>5, <1>6, <1>7, <1>8

(* A line is written: its item is settled, and waits no more.              *)
LEMMA WriteItemFacts ==
    ASSUME RolloutInv, WriteItem, NEW h, h = Head(batch)
    PROVE  /\ up /\ Live /\ Live' /\ writer = "write" /\ writer' = "write"
           /\ batch # << >> /\ batch' = Tail(batch) /\ wrote' = wrote \cup {h} /\ Put(h)
           /\ UNCHANGED <<lifeVars, recorder, chan, writer, applied, callerVars, itemVars,
                         durable, promised>>
           /\ batch' \in Seq(Items) /\ h = batch[1] /\ 1 \in DOMAIN batch /\ h \in Items
           /\ \A a \in DOMAIN batch' :
                 a + 1 \in DOMAIN batch /\ batch'[a] = batch[a + 1] /\ 1 < a + 1
           /\ Settled' = Settled \cup {h}
           /\ \A k : Before(k) = Before(k)' \cup {h}
           /\ Queued = Queued' \cup {h}
           /\ base \in Nat /\ sent \in Nat /\ h \in base + 1 .. sent /\ h \notin Settled
           /\ \A i \in Queued' : h < i
           /\ tail # Clean => h = base + 1 /\ h \in firsts
<1> USE DEF RolloutInv, lifeVars, callerVars, itemVars
<1>1. /\ up /\ Live /\ Live' /\ writer = "write" /\ writer' = "write"
      /\ batch # << >> /\ batch' = Tail(batch) /\ wrote' = wrote \cup {h} /\ Put(h)
      /\ UNCHANGED <<lifeVars, recorder, chan, writer, applied, callerVars, itemVars, durable,
                   promised>>
  BY DEF WriteItem, QueueInv, Live
<1>2. /\ batch' \in Seq(Items) /\ h = batch[1] /\ 1 \in DOMAIN batch /\ h \in Items
      /\ \A a \in DOMAIN batch' : a + 1 \in DOMAIN batch /\ batch'[a] = batch[a + 1] /\ 1 < a + 1
      /\ \A b \in DOMAIN batch : b # 1 => b - 1 \in DOMAIN batch' /\ batch'[b - 1] = batch[b]
  BY <1>1 DEF RolloutTypeOK
<1>3. /\ file' \in Seq({Frag, Bad} \cup Lines) /\ tail' = Clean
      /\ Settled' = Settled \cup {h} /\ OnDisk' \subseteq OnDisk \cup {h}
      /\ spoiled' \subseteq Lines
      /\ spoiled' \subseteq spoiled \cup {h, tail} /\ (tail = Clean => spoiled' = spoiled)
  BY <1>1, <1>2, PutLine, LineNumbers DEF Settled
<1>4. \A i \in Items : (\E a \in DOMAIN batch : batch[a] = i)
                       <=> (i = h \/ \E a \in DOMAIN batch' : batch'[a] = i)
  BY <1>2
<1>5. \A k : Before(k) = Before(k)' \cup {h}
  BY <1>1, <1>2, <1>4 DEF Before
<1>6. Queued = Queued' \cup {h}
  BY <1>1, <1>5 DEF Queued
<1>7. base \in Nat /\ sent \in Nat /\ h \in base + 1 .. sent /\ h \notin Settled
  BY <1>6 DEF QueueInv, RolloutTypeOK
<1>8. \A i \in Queued' : h < i
  <2>1. \A a \in DOMAIN batch' : h < batch'[a]
    BY <1>2 DEF QueueInv
  <2>2. \A k \in DOMAIN chan : \A a \in DOMAIN chan[k].items : h < chan[k].items[a]
    BY <1>5 DEF QueueInv
  <2>3. \A i \in Queued' : (\E a \in DOMAIN batch' : batch'[a] = i)
                           \/ \E k \in DOMAIN chan : \E a \in DOMAIN chan[k].items : chan[k].items[a] = i
    BY <1>1 DEF Queued, Before
  <2> QED BY <2>1, <2>2, <2>3
<1>9. tail # Clean => h = base + 1 /\ h \in firsts
  <2> SUFFICES ASSUME tail # Clean PROVE h = base + 1 /\ h \in firsts
    OBVIOUS
  <2>1. base + 1 \in base + 1 .. sent /\ base + 1 \notin Settled
    BY <1>1, <1>7 DEF FirstInv
  <2>2. base + 1 \in Queued' \cup {h}
    BY <1>1, <1>6, <2>1 DEF QueueInv
  <2>3. h = base + 1
    BY <1>7, <1>8, <2>2
  <2> QED BY <1>1, <2>3 DEF FirstInv
<1> QED
  BY <1>1, <1>2, <1>3, <1>5, <1>6, <1>7, <1>8, <1>9

LEMMA WriteItemStep ==
    ASSUME RolloutInv, WriteItem
    PROVE  RolloutInv'
<1> USE DEF RolloutInv, lifeVars, callerVars, itemVars
<1>0. PICK h : h = Head(batch)
  OBVIOUS
<1>1. /\ up /\ Live /\ Live' /\ writer = "write" /\ writer' = "write"
      /\ batch # << >> /\ batch' = Tail(batch) /\ wrote' = wrote \cup {h} /\ Put(h)
      /\ UNCHANGED <<lifeVars, recorder, chan, writer, applied, callerVars, itemVars, durable,
                   promised>>
  BY <1>0, WriteItemFacts
<1>2. /\ batch' \in Seq(Items) /\ h = batch[1] /\ 1 \in DOMAIN batch /\ h \in Items
      /\ \A a \in DOMAIN batch' : a + 1 \in DOMAIN batch /\ batch'[a] = batch[a + 1] /\ 1 < a + 1
  BY <1>0, WriteItemFacts
<1>3. /\ file' \in Seq({Frag, Bad} \cup Lines) /\ tail' = Clean
      /\ Settled' = Settled \cup {h} /\ OnDisk' \subseteq OnDisk \cup {h}
      /\ spoiled' \subseteq Lines
      /\ spoiled' \subseteq spoiled \cup {h, tail} /\ (tail = Clean => spoiled' = spoiled)
  BY <1>1, <1>2, PutLine, LineNumbers DEF Settled
<1>5. \A k : Before(k) = Before(k)' \cup {h}
  BY <1>0, WriteItemFacts
<1>6. Queued = Queued' \cup {h}
  BY <1>0, WriteItemFacts
<1>7. base \in Nat /\ sent \in Nat /\ h \in base + 1 .. sent /\ h \notin Settled
  BY <1>0, WriteItemFacts
<1>8. \A i \in Queued' : h < i
  BY <1>0, WriteItemFacts
<1>9. RolloutTypeOK'
  BY <1>1, <1>2, <1>3 DEF RolloutTypeOK
<1>10. QueueInv'
  <2>1. \A i \in base + 1 .. sent : i \in Settled' \cup Queued'
    BY <1>1, <1>3, <1>6 DEF QueueInv
  <2>2. Queued' \cap Settled' = {}
    <3>1. h \notin Queued'
      BY <1>7, <1>8
    <3> QED BY <1>3, <1>6, <3>1 DEF QueueInv
  <2>3. \A i \in Settled' \cap Items : i <= sent
    BY <1>3, <1>7 DEF QueueInv
  <2>4. \A a, b \in DOMAIN batch' : a < b => batch'[a] < batch'[b]
    <3> SUFFICES ASSUME NEW a \in DOMAIN batch', NEW b \in DOMAIN batch', a < b
                 PROVE  batch'[a] < batch'[b]
      OBVIOUS
    <3>1. DOMAIN batch' = 1 .. Len(batch')
      BY <1>2
    <3>2. a + 1 < b + 1 /\ a + 1 \in DOMAIN batch /\ b + 1 \in DOMAIN batch
      BY <1>2, <3>1
    <3> QED BY <1>2, <3>2 DEF QueueInv
  <2>5. \A k \in DOMAIN chan : \A i \in Before(k)' : \A a \in DOMAIN chan[k].items : i < chan[k].items[a]
    BY <1>5 DEF QueueInv
  <2>6. Queued' \subseteq base + 1 .. sent
    BY <1>6 DEF QueueInv
  <2> QED BY <1>1, <2>1, <2>2, <2>3, <2>4, <2>5, <2>6 DEF QueueInv
<1>11. WaitInv'
  <2>1. \A k : Settled \cup Before(k) \subseteq Settled' \cup Before(k)'
    BY <1>3, <1>5
  <2> QED BY <1>1, <2>1 DEF WaitInv
<1>12. ToldInv'
  BY <1>1, <1>3 DEF ToldInv
<1>13. RefInv'
  <2>1. \A k : Settled \cup Before(k) \subseteq Settled' \cup Before(k)'
    BY <1>3, <1>5
  <2>2. refs[h] \subseteq Settled
    BY <1>2 DEF RefInv
  <2>3. \A i \in OnDisk' \cap Items : refs[i] \subseteq Settled'
    BY <1>3, <2>2 DEF RefInv
  <2>4. \A a \in DOMAIN batch' : refs[batch'[a]] \subseteq Settled'
    BY <1>2, <1>3 DEF RefInv
  <2>5. \A k \in DOMAIN chan : \A a \in DOMAIN chan[k].items :
          refs[chan[k].items[a]] \subseteq Settled' \cup Before(k)'
    BY <2>1 DEF RefInv
  <2>6. durable \subseteq Settled' \cup Queued'
    BY <1>1, <1>3, <1>6 DEF RefInv
  <2> QED BY <1>1, <2>3, <2>4, <2>5, <2>6 DEF RefInv
<1>14. FirstInv'
  <2>2. tail # Clean => h \in firsts
    BY <1>0, WriteItemFacts
  <2>3. promised \cap spoiled' \subseteq firsts
    BY <1>3, <2>2, LineNumbers DEF FirstInv, RolloutTypeOK
  <2>4. \A i \in base + 1 .. sent : i \in spoiled' => i \in firsts
    <3> SUFFICES ASSUME NEW i \in base + 1 .. sent, i \in spoiled' PROVE i \in firsts
      OBVIOUS
    <3>1. CASE tail = Clean
      BY <1>1, <1>3, <3>1 DEF FirstInv
    <3>2. CASE tail # Clean
      <4>1. i # tail
        <5>1. i \in Items /\ i > base
          BY <1>7 DEF RolloutTypeOK, Items
        <5> QED BY <1>1, <1>7, <5>1 DEF FirstInv
      <4> QED BY <1>1, <1>3, <2>2, <3>2, <4>1 DEF FirstInv
    <3> QED BY <3>1, <3>2
  <2> QED BY <1>1, <1>3, <2>3, <2>4, LineNumbers DEF FirstInv
<1> QED BY <1>9, <1>10, <1>11, <1>12, <1>13, <1>14

(* A command is queued behind all others.                                  *)
LEMMA QueueFacts ==
    ASSUME RolloutTypeOK, NEW c \in [items : Seq(Items), by : Callers \cup {None}],
           chan' = Append(chan, c), batch' = batch, NEW n, n = Len(chan) + 1
    PROVE  /\ chan' \in Seq([items : Seq(Items), by : Callers \cup {None}])
           /\ n \in Nat /\ \A k \in DOMAIN chan' : k = n \/ (k \in DOMAIN chan /\ k < n)
           /\ \A k \in DOMAIN chan : k # n /\ k \in DOMAIN chan' /\ chan'[k] = chan[k]
           /\ n \in DOMAIN chan' /\ chan'[n] = c
           /\ \A k \in DOMAIN chan : Before(k)' = Before(k)
           /\ Before(n)' = Queued
           /\ Queued' = Queued \cup {i \in Items : \E a \in DOMAIN c.items : c.items[a] = i}
<1> DEFINE C == [items : Seq(Items), by : Callers \cup {None}]
<1>1. chan \in Seq(C) /\ c \in C
  BY DEF RolloutTypeOK
<1> HIDE DEF C
<1>2. /\ chan' \in Seq(C)
      /\ DOMAIN chan = 1 .. Len(chan) /\ DOMAIN chan' = 1 .. Len(chan) + 1 /\ Len(chan) \in Nat
      /\ Len(chan') = Len(chan) + 1 /\ chan'[Len(chan) + 1] = c
      /\ \A k \in 1 .. Len(chan) : chan'[k] = chan[k]
  BY <1>1
<1> DEFINE Has(d, i) == \E a \in DOMAIN d.items : d.items[a] = i
           In(s, k, i) == \E j \in DOMAIN s : j < k /\ Has(s[j], i)
<1>3. \A k : Before(k) = {i \in Items : (\E a \in DOMAIN batch : batch[a] = i) \/ In(chan, k, i)}
  BY DEF Before
<1>4. \A k : Before(k)' = {i \in Items : (\E a \in DOMAIN batch : batch[a] = i) \/ In(chan', k, i)}
  BY DEF Before
<1> HIDE DEF Has
<1>5. ASSUME NEW k \in 1 .. n PROVE Before(k)' = Before(k)
  <2>1. \A j : j \in DOMAIN chan' /\ j < k <=> j \in DOMAIN chan /\ j < k
    BY <1>2
  <2>2. \A j \in DOMAIN chan : chan'[j] = chan[j]
    BY <1>2
  <2>3. \A i : In(chan', k, i) <=> In(chan, k, i)
    BY <2>1, <2>2
  <2> HIDE DEF In
  <2> QED BY <1>3, <1>4, <2>3
<1>6. ASSUME NEW m, m = Len(chan) + 2
      PROVE  Before(m)' = Before(n) \cup {i \in Items : Has(c, i)}
  <2>1. \A j : j \in DOMAIN chan' /\ j < m <=> (j \in DOMAIN chan /\ j < n) \/ j = n
    BY <1>2, <1>6
  <2>2. chan'[n] = c /\ \A j \in DOMAIN chan : chan'[j] = chan[j]
    BY <1>2
  <2>3. \A i : In(chan', m, i) <=> In(chan, n, i) \/ Has(c, i)
    BY <2>1, <2>2
  <2> HIDE DEF In
  <2> QED BY <1>3, <1>4, <2>3
<1>7. ASSUME NEW m, m = Len(chan) + 2 PROVE Queued' = Before(m)'
  BY <1>2, <1>7 DEF Queued
<1>8. Queued = Before(n)
  BY DEF Queued
<1>9. n \in Nat /\ n \in 1 .. n /\ \A k \in DOMAIN chan : k \in 1 .. n /\ k # n
  BY <1>2
<1> QED BY <1>2, <1>5, <1>6, <1>7, <1>8, <1>9 DEF Has, C

(* What becomes of the invariant when a command is queued whose items, if  *)
(* it has any, are the next ones.                                          *)
LEMMA QueueFrame ==
    ASSUME RolloutInv, RolloutTypeOK', up, writer # "dead",
           NEW c \in [items : Seq(Items), by : Callers \cup {None}],
           chan' = Append(chan, c), sent' \in Nat, sent <= sent',
           \A i \in Items : (\E a \in DOMAIN c.items : c.items[a] = i) <=> i \in sent + 1 .. sent',
           \A a, b \in DOMAIN c.items : a < b => c.items[a] < c.items[b],
           c.by # None => pc[c.by] # "ack" /\ pc'[c.by] = "ack",
           \A q \in Callers : upto'[q] = upto[q] \/ upto'[q] = 0 \/ (q = c.by /\ upto'[q] = sent),
           \A q \in Callers : pc[q] = "ack" => pc'[q] = "ack" /\ upto'[q] = upto[q],
           \A i \in Items : refs'[i] = refs[i] \/ (i = sent' /\ sent' > sent /\ refs'[i] = durable),
           durable' \subseteq durable \cup (sent + 1 .. sent'),
           UNCHANGED <<lifeVars, diskVars, writerVars, applied, promised>>
    PROVE  RolloutInv'
<1> USE DEF RolloutInv, lifeVars, diskVars, writerVars
<1>0. PICK n : n = Len(chan) + 1
  OBVIOUS
<1>1. /\ \A k \in DOMAIN chan' : k = n \/ (k \in DOMAIN chan /\ k < n)
      /\ \A k \in DOMAIN chan : k # n /\ k \in DOMAIN chan' /\ chan'[k] = chan[k]
      /\ n \in DOMAIN chan' /\ chan'[n] = c
      /\ \A k \in DOMAIN chan : Before(k)' = Before(k)
      /\ Before(n)' = Queued
      /\ Queued' = Queued \cup {i \in Items : \E a \in DOMAIN c.items : c.items[a] = i}
  <2>1. RolloutTypeOK /\ batch' = batch
    OBVIOUS
  <2> QED BY ONLY <1>0, <2>1, QueueFacts, chan' = Append(chan, c),
               c \in [items : Seq(Items), by : Callers \cup {None}]
<1>2. OnDisk' = OnDisk /\ Settled' = Settled /\ Live /\ Live'
  BY DEF OnDisk, Text, Settled, Live
<1>3. sent \in Nat /\ base \in Nat /\ sent' <= MaxItems /\ \A i \in sent + 1 .. sent' : i \in Items
  BY DEF RolloutTypeOK, Items
<1>4. Queued' = Queued \cup (sent + 1 .. sent')
  BY <1>1, <1>3
<1>5. \A a \in DOMAIN c.items : c.items[a] \in Items /\ c.items[a] \in sent + 1 .. sent'
  <2>1. \A a \in DOMAIN c.items : c.items[a] \in Items
    OBVIOUS
  <2> QED BY <2>1
<1>6. QueueInv'
  <2>1. \A i \in base + 1 .. sent' : i \in Settled \cup Queued'
    BY <1>2, <1>3, <1>4 DEF QueueInv
  <2>2. Queued' \subseteq base + 1 .. sent'
    BY <1>3, <1>4 DEF QueueInv
  <2>3. Queued' \cap Settled = {}
    BY <1>3, <1>4 DEF QueueInv
  <2>4. \A i \in Settled \cap Items : i <= sent'
    <3>1. \A i \in Settled \cap Items : i <= sent /\ i \in Nat
      BY LineNumbers DEF QueueInv
    <3> QED BY <1>3, <3>1
  <2>5. \A k \in DOMAIN chan' : \A i \in Before(k)' : \A a \in DOMAIN chan'[k].items : i < chan'[k].items[a]
    <3>1. \A i \in Queued : \A a \in DOMAIN c.items : i < c.items[a]
      BY <1>3, <1>5 DEF QueueInv
    <3>2. \A k \in DOMAIN chan : \A i \in Before(k) : \A a \in DOMAIN chan[k].items : i < chan[k].items[a]
      BY DEF QueueInv
    <3> SUFFICES ASSUME NEW k \in DOMAIN chan'
                 PROVE  \A i \in Before(k)' : \A a \in DOMAIN chan'[k].items : i < chan'[k].items[a]
      OBVIOUS
    <3>3. CASE k = n
      BY <1>1, <3>1, <3>3
    <3>4. CASE k # n
      BY <1>1, <3>2, <3>4
    <3> QED BY <3>3, <3>4
  <2>6. \A k \in DOMAIN chan' : \A a, b \in DOMAIN chan'[k].items :
          a < b => chan'[k].items[a] < chan'[k].items[b]
    BY <1>1 DEF QueueInv
  <2> QED BY <1>2, <1>3, <2>1, <2>2, <2>3, <2>4, <2>5, <2>6 DEF QueueInv
<1>7. WaitInv'
  <2>1. \A p \in Callers : upto'[p] <= sent'
    <3>1. \A p \in Callers : upto[p] <= sent /\ upto[p] \in Nat
      BY <1>3 DEF WaitInv, RolloutTypeOK
    <3> QED BY <1>3, <3>1
  <2>2. ASSUME NEW k \in DOMAIN chan, chan[k].by # None
        PROVE  /\ chan[k].by \in Callers /\ chan[k].by # c.by /\ pc'[chan[k].by] = "ack"
               /\ \A i \in base + 1 .. upto'[chan[k].by] : i \in Settled \cup Before(k)
    <3>1. chan[k].by \in Callers /\ pc[chan[k].by] = "ack"
          /\ \A i \in base + 1 .. upto[chan[k].by] : i \in Settled \cup Before(k)
      BY <2>2, ChanType DEF WaitInv
    <3> QED BY <2>2, <3>1
  <2>3. ASSUME c.by # None
        PROVE  /\ pc'[c.by] = "ack"
               /\ \A i \in base + 1 .. upto'[c.by] : i \in Settled \cup Queued
    <3>1. c.by \in Callers /\ upto'[c.by] <= sent /\ upto'[c.by] \in Int
      <4>1. c.by \in Callers
        BY <2>3
      <4>2. upto[c.by] <= sent /\ upto[c.by] \in Nat
        BY <4>1 DEF WaitInv, RolloutTypeOK
      <4>3. upto'[c.by] = upto[c.by] \/ upto'[c.by] = 0 \/ upto'[c.by] = sent
        BY <4>1
      <4> QED BY <1>3, <4>1, <4>2, <4>3
    <3>2. \A i \in base + 1 .. upto'[c.by] : i \in base + 1 .. sent
      BY <1>3, <3>1
    <3> QED BY <1>2, <2>3, <3>2 DEF QueueInv
  <2>4. \A k \in DOMAIN chan' : chan'[k].by # None =>
          /\ pc'[chan'[k].by] = "ack"
          /\ \A i \in base + 1 .. upto'[chan'[k].by] : i \in Settled \cup Before(k)'
    BY <1>1, <2>2, <2>3
  <2>5. \A j, k \in DOMAIN chan' : chan'[j].by # None /\ chan'[j].by = chan'[k].by => j = k
    BY <1>1, <2>2 DEF WaitInv
  <2> QED BY <1>2, <2>1, <2>4, <2>5 DEF WaitInv
<1>8. ToldInv'
  BY <1>2 DEF ToldInv
<1>9. RefInv'
  <2>1. \A i \in Items : i <= sent => refs'[i] = refs[i]
    BY <1>3, LineNumbers
  <2>2. \A i \in Items : i > sent' => refs'[i] = {}
    <3> SUFFICES ASSUME NEW i \in Items, i > sent' PROVE refs'[i] = {}
      OBVIOUS
    <3>1. i \in Nat /\ i > sent /\ i # sent'
      BY <1>3, LineNumbers
    <3> QED BY <3>1 DEF RefInv
  <2>3. \A i \in OnDisk \cap Items : refs'[i] \subseteq Settled
    BY <1>2, <2>1 DEF RefInv, QueueInv, Settled
  <2>4. \A a \in DOMAIN batch : batch[a] \in Queued /\ batch[a] \in Items
    BY ChanType DEF Queued, Before
  <2>5. \A i \in Queued : i <= sent
    BY <1>3 DEF QueueInv
  <2>6. \A a \in DOMAIN batch : refs'[batch[a]] \subseteq Settled
    BY <2>1, <2>4, <2>5 DEF RefInv
  <2>7. \A k \in DOMAIN chan : \A a \in DOMAIN chan[k].items : chan[k].items[a] \in Queued \cap Items
    <3>1. \A k \in DOMAIN chan : k < Len(chan) + 1 /\ \A a \in DOMAIN chan[k].items : chan[k].items[a] \in Items
      BY ChanType
    <3> QED BY <3>1 DEF Queued, Before
  <2>8. \A k \in DOMAIN chan : \A a \in DOMAIN chan[k].items :
          refs'[chan[k].items[a]] \subseteq Settled \cup Before(k)
    BY <2>1, <2>5, <2>7 DEF RefInv
  <2>9. \A a \in DOMAIN c.items : refs'[c.items[a]] \subseteq Settled \cup Queued
    <3>1. \A i \in Items : i > sent => refs'[i] = {} \/ refs'[i] = durable
      BY DEF RefInv
    <3>2. \A a \in DOMAIN c.items : c.items[a] > sent
      BY <1>3, <1>5
    <3>3. ASSUME NEW a \in DOMAIN c.items
          PROVE  refs'[c.items[a]] \subseteq Settled \cup Queued
      <4>1. refs'[c.items[a]] = {} \/ refs'[c.items[a]] = durable
        BY <1>5, <3>1, <3>2
      <4>2. durable \subseteq Settled \cup Queued
        BY <1>2 DEF RefInv
      <4> QED BY <4>1, <4>2
    <3> QED BY <3>3
  <2>10. \A k \in DOMAIN chan' : \A a \in DOMAIN chan'[k].items :
          refs'[chan'[k].items[a]] \subseteq Settled \cup Before(k)'
    BY <1>1, <2>8, <2>9
  <2>11. durable' \subseteq Settled \cup Queued'
    BY <1>2, <1>4 DEF RefInv
  <2> QED BY <1>2, <2>2, <2>3, <2>6, <2>10, <2>11 DEF RefInv
<1>10. FirstInv'
  <2>1. \A i \in sent + 1 .. sent' : i \notin Settled
    BY <1>3 DEF QueueInv
  <2>2. \A i \in base + 1 .. sent' : i \in base + 1 .. sent \/ i \in sent + 1 .. sent'
    BY <1>3
  <2> QED BY <1>2, <2>1, <2>2 DEF FirstInv, Settled
<1> QED BY <1>6, <1>7, <1>8, <1>9, <1>10

LEMMA SizeRange == \A k \in Kinds : Size(k) \in 0 .. 2 /\ (k \notin {"read", "shutdown", "fork"} => Size(k) = 1)
  BY DEF Kinds, Size

LEMMA QueueStep ==
    ASSUME RolloutInv, NEW p \in Callers, Queue(p)
    PROVE  RolloutInv'
<1>1. RolloutTypeOK /\ WaitInv /\ call[p] \in Kinds
  BY DEF RolloutInv, RolloutTypeOK
<1>2. PICK c : c = [items |-> [k \in 1 .. Size(call[p]) |-> sent + k], by |-> None]
  OBVIOUS
<1>3. Size(call[p]) \in Nat /\ sent \in Nat /\ (call[p] \in {"slim", "compact"} => Size(call[p]) = 1)
  <2>1. Size(call[p]) \in 0 .. 2 /\ (call[p] \notin {"read", "shutdown", "fork"} => Size(call[p]) = 1)
    BY <1>1, SizeRange
  <2> QED BY <1>1, <2>1 DEF RolloutTypeOK
<1>4. /\ chan' = Append(chan, c) /\ sent' = sent + Size(call[p]) /\ pc[p] = "send"
      /\ writer # "dead" /\ sent' <= MaxItems
      /\ UNCHANGED <<lifeVars, diskVars, recorder, writerVars, applied, promised>>
  BY <1>2 DEF Queue, Open
<1>5. c \in [items : Seq(Items), by : Callers \cup {None}]
  <2>1. [k \in 1 .. Size(call[p]) |-> sent + k] \in [1 .. Size(call[p]) -> Items]
    BY <1>3, <1>4 DEF Items
  <2>2. [k \in 1 .. Size(call[p]) |-> sent + k] \in Seq(Items)
    BY <1>3, <2>1
  <2> QED BY <1>2, <2>2
<1>6. /\ \A i \in Items : (\E a \in DOMAIN c.items : c.items[a] = i) <=> i \in sent + 1 .. sent'
      /\ \A a, b \in DOMAIN c.items : a < b => c.items[a] < c.items[b]
      /\ c.by = None
  <2>1. /\ DOMAIN c.items = 1 .. Size(call[p]) /\ c.by = None
        /\ \A a \in 1 .. Size(call[p]) : c.items[a] = sent + a
    BY <1>2
  <2>2. ASSUME NEW i \in sent + 1 .. sent' PROVE \E a \in DOMAIN c.items : c.items[a] = i
    <3>1. i - sent \in 1 .. Size(call[p]) /\ sent + (i - sent) = i
      BY <1>3, <1>4
    <3> QED BY <2>1, <3>1
  <2>3. ASSUME NEW a \in DOMAIN c.items PROVE c.items[a] \in sent + 1 .. sent'
    BY <1>3, <1>4, <2>1, <2>3
  <2>4. \A a, b \in DOMAIN c.items : a < b => c.items[a] < c.items[b]
    BY <1>3, <2>1
  <2> QED BY <2>1, <2>2, <2>3, <2>4
<1>7. sent' \in Nat /\ sent <= sent'
  BY <1>3, <1>4
<1>8. call[p] \in {"slim", "compact"} => sent' = sent + 1
  BY <1>3, <1>4
<1>9. /\ slims' \subseteq Items /\ durable' \subseteq Items
      /\ durable' \subseteq durable \cup (sent + 1 .. sent')
  <2>1. call[p] = "slim" => sent' \in Items /\ sent' \in sent + 1 .. sent'
    BY <1>3, <1>4, <1>8 DEF Items
  <2>2. slims \subseteq Items /\ durable \subseteq Items
    BY <1>1 DEF RolloutTypeOK
  <2>3. slims' \subseteq slims \cup {sent'} /\ durable' \subseteq durable \cup {sent'}
        /\ (call[p] # "slim" => slims' = slims /\ durable' = durable)
    BY DEF Queue
  <2> QED BY <2>1, <2>2, <2>3
<1>10. /\ refs' \in [Items -> SUBSET Items]
       /\ \A i \in Items : refs'[i] = refs[i] \/ (i = sent' /\ sent' > sent /\ refs'[i] = durable)
  <2>1. refs \in [Items -> SUBSET Items] /\ durable \subseteq Items
    BY <1>1 DEF RolloutTypeOK
  <2>2. CASE call[p] = "compact"
    <3>1. refs' = [refs EXCEPT ![sent'] = durable] /\ sent' > sent
      BY <1>3, <1>8, <2>2 DEF Queue
    <3> QED BY <2>1, <3>1
  <2>3. CASE call[p] # "compact"
    BY <2>1, <2>3 DEF Queue
  <2> QED BY <2>2, <2>3
<1>11. \/ /\ Go(p, IF call[p] = "fork" THEN "ask" ELSE "flush")
          /\ mine' = [mine EXCEPT ![p] = sent'] /\ call[p] \in {"flushed", "fork"}
          /\ UNCHANGED <<call, upto>>
       \/ Return(p)
  BY DEF Queue
<1>12. /\ pc' \in [Callers -> Places]
       /\ call' \in [Callers -> Kinds] /\ mine' \in [Callers -> Items \cup {Frag}]
       /\ upto' \in [Callers -> 0 .. MaxItems]
       /\ \A q \in Callers : upto'[q] \in {upto[q], 0}
       /\ \A q \in Callers : pc[q] = "ack" => pc'[q] = "ack" /\ upto'[q] = upto[q]
  <2>1. CASE Return(p)
    <3>1. \A q \in Callers : q # p => upto'[q] = upto[q]
      BY <1>1, <2>1 DEF Return, RolloutTypeOK
    <3> QED BY <1>1, <1>4, <2>1, <3>1, ReturnType
  <2>2. CASE /\ Go(p, IF call[p] = "fork" THEN "ask" ELSE "flush")
          /\ mine' = [mine EXCEPT ![p] = sent'] /\ call[p] \in {"flushed", "fork"}
             /\ UNCHANGED <<call, upto>>
    <3>1. pc' \in [Callers -> Places]
          /\ \A q \in Callers : pc[q] = "ack" => pc'[q] = "ack"
      BY <1>1, <1>4, <2>2 DEF Go, RolloutTypeOK
    <3>2. sent' \in Items
      <4>1. Size(call[p]) >= 1
        BY <2>2 DEF Size
      <4> QED BY <1>3, <1>4, <4>1 DEF Items
    <3>3. mine' \in [Callers -> Items \cup {Frag}]
      BY <1>1, <2>2, <3>2 DEF RolloutTypeOK
    <3> QED BY <1>1, <2>2, <3>1, <3>3 DEF RolloutTypeOK
  <2> QED BY <1>11, <2>1, <2>2
<1>13. chan' \in Seq([items : Seq(Items), by : Callers \cup {None}])
  BY <1>1, <1>4, <1>5 DEF RolloutTypeOK
<1>14. RolloutTypeOK'
  <2>1. sent' \in 0 .. MaxItems
    BY <1>4, <1>7
  <2> QED BY <1>1, <1>4, <1>9, <1>10, <1>12, <1>13, <2>1 DEF RolloutTypeOK, lifeVars, diskVars, writerVars
<1>15. up
  BY <1>4 DEF RolloutInv, WaitInv
<1> QED
  BY <1>4, <1>5, <1>6, <1>7, <1>9, <1>10, <1>12, <1>14, <1>15, QueueFrame

LEMMA FlushStep ==
    ASSUME RolloutInv, NEW p \in Callers, Flush(p)
    PROVE  RolloutInv'
<1>1. RolloutTypeOK
  BY DEF RolloutInv
<1>2. PICK c : c = [items |-> << >>, by |-> p]
  OBVIOUS
<1>3. /\ chan' = Append(chan, c) /\ pc[p] = "ask" /\ writer # "dead"
      /\ UNCHANGED <<lifeVars, diskVars, recorder, writerVars, applied, call, mine, itemVars,
                   durable, promised>>
  BY <1>2 DEF Flush, Open
<1>4. up
  BY <1>3 DEF RolloutInv, WaitInv
<1>5. c \in [items : Seq(Items), by : Callers \cup {None}] /\ c.items = << >> /\ c.by = p
  BY <1>2
<1>6. /\ pc' \in [Callers -> Places] /\ pc'[p] = "ack"
      /\ \A q \in Callers : pc[q] = "ack" => pc'[q] = "ack"
  BY <1>1 DEF Flush, Go, RolloutTypeOK
<1>7. /\ upto' \in [Callers -> 0 .. MaxItems]
      /\ \A q \in Callers : upto'[q] = upto[q] \/ (q = p /\ upto'[q] = sent)
  BY <1>1 DEF Flush, RolloutTypeOK
<1>8. chan' \in Seq([items : Seq(Items), by : Callers \cup {None}])
  BY <1>1, <1>3, <1>5 DEF RolloutTypeOK
<1>9. RolloutTypeOK'
  BY <1>1, <1>3, <1>6, <1>7, <1>8 DEF RolloutTypeOK, lifeVars, diskVars, writerVars, itemVars
<1>10. /\ sent' = sent /\ sent \in Nat /\ sent + 1 .. sent' = {}
       /\ \A i \in Items : refs'[i] = refs[i]
  BY <1>1, <1>3 DEF RolloutTypeOK, itemVars
<1>11. /\ \A i \in Items : (\E a \in DOMAIN c.items : c.items[a] = i) <=> i \in sent + 1 .. sent'
       /\ \A a, b \in DOMAIN c.items : a < b => c.items[a] < c.items[b]
  BY <1>5, <1>10
<1>12. \A q \in Callers : pc[q] = "ack" => pc'[q] = "ack" /\ upto'[q] = upto[q]
  BY <1>3, <1>6, <1>7
<1>13. pc[c.by] # "ack" /\ pc'[c.by] = "ack"
  BY <1>3, <1>5, <1>6
<1> QED
  BY <1>3, <1>4, <1>5, <1>7, <1>9, <1>10, <1>11, <1>12, <1>13, QueueFrame

LEMMA DropStep ==
    ASSUME RolloutInv, NEW p \in Callers, Drop(p)
    PROVE  RolloutInv'
<1> USE DEF RolloutInv, lifeVars, diskVars, writerVars, itemVars
<1>1. /\ RolloutTypeOK /\ Return(p) /\ pc[p] # "idle"
      /\ UNCHANGED <<lifeVars, diskVars, recorder, writerVars, applied, itemVars, durable, promised>>
  BY DEF Drop
<1>2. /\ DOMAIN chan' = DOMAIN chan /\ Len(chan') = Len(chan)
      /\ chan' \in Seq([items : Seq(Items), by : Callers \cup {None}])
      /\ \A k \in DOMAIN chan : /\ chan'[k].items = chan[k].items
                                /\ chan'[k].by = IF chan[k].by = p THEN None ELSE chan[k].by
  <2> DEFINE C == [items : Seq(Items), by : Callers \cup {None}]
             D == [k \in DOMAIN chan |-> IF chan[k].by = p THEN [chan[k] EXCEPT !.by = None]
                                                           ELSE chan[k]]
  <2>1. chan' = D
    BY DEF Drop
  <2>2. chan \in Seq(C) /\ DOMAIN chan = 1 .. Len(chan) /\ Len(chan) \in Nat
    BY <1>1 DEF RolloutTypeOK
  <2>3. ASSUME NEW k \in DOMAIN chan
        PROVE  /\ D[k] \in C /\ D[k].items = chan[k].items
               /\ D[k].by = IF chan[k].by = p THEN None ELSE chan[k].by
    <3>1. chan[k] \in C
      <4> HIDE DEF C
      <4> QED BY <2>2, <2>3
    <3>2. CASE chan[k].by = p
      <4>1. D[k] = [chan[k] EXCEPT !.by = None]
        BY <2>3, <3>2
      <4> QED BY <3>1, <3>2, <4>1
    <3>3. CASE chan[k].by # p
      <4>1. D[k] = chan[k]
        BY <2>3, <3>3
      <4> QED BY <3>1, <3>3, <4>1
    <3> QED BY <3>2, <3>3
  <2>4. D \in [1 .. Len(chan) -> C]
    <3>1. \A k \in DOMAIN chan : D[k] \in C
      BY <2>3
    <3> QED BY <2>2, <3>1
  <2>5. D \in Seq(C) /\ DOMAIN D = DOMAIN chan /\ Len(D) = Len(chan)
    <3> HIDE DEF C, D
    <3> QED BY <2>2, <2>4
  <2> QED BY <2>1, <2>3, <2>5
<1>3. RolloutTypeOK'
  BY <1>1, <1>2, ReturnType DEF RolloutTypeOK
<1>4. \A k : Before(k)' = Before(k)
  BY <1>1, <1>2 DEF Before
<1>5. Queued' = Queued
  BY <1>1, <1>2 DEF Queued, Before
<1>6. OnDisk' = OnDisk /\ Settled' = Settled /\ Live' = Live /\ up
  BY <1>1 DEF OnDisk, Text, Settled, Live, WaitInv
<1>7. QueueInv'
  <2>1. chan = << >> => chan' = << >>
    BY <1>2
  <2>2. \A k \in DOMAIN chan' : \A i \in Before(k)' : \A a \in DOMAIN chan'[k].items : i < chan'[k].items[a]
    BY <1>2, <1>4 DEF QueueInv
  <2>3. \A k \in DOMAIN chan' : \A a, b \in DOMAIN chan'[k].items :
          a < b => chan'[k].items[a] < chan'[k].items[b]
    BY <1>2 DEF QueueInv
  <2> QED BY <1>1, <1>5, <1>6, <2>1, <2>2, <2>3 DEF QueueInv
<1>8. WaitInv'
  <2>1. \A q \in Callers : upto'[q] <= sent
    <3>1. sent \in Nat /\ \A q \in Callers : upto[q] <= sent /\ upto'[q] \in {upto[q], 0}
      BY <1>1, ReturnType DEF WaitInv, RolloutTypeOK
    <3> QED BY <3>1
  <2>2. \A q \in Callers : q # p => pc'[q] = pc[q] /\ upto'[q] = upto[q]
    BY <1>1 DEF Return, RolloutTypeOK
  <2>3. \A k \in DOMAIN chan' : chan'[k].by # None =>
           chan'[k].by = chan[k].by /\ chan[k].by # p /\ chan[k].by \in Callers
    BY <1>1, <1>2, ChanType
  <2>4. \A k \in DOMAIN chan' : chan'[k].by # None =>
          /\ pc'[chan'[k].by] = "ack"
          /\ \A i \in base + 1 .. upto'[chan'[k].by] : i \in Settled \cup Before(k)
    <3> SUFFICES ASSUME NEW k \in DOMAIN chan', chan'[k].by # None
                 PROVE  /\ pc'[chan'[k].by] = "ack"
                        /\ \A i \in base + 1 .. upto'[chan'[k].by] : i \in Settled \cup Before(k)
      OBVIOUS
    <3>1. k \in DOMAIN chan /\ chan'[k].by = chan[k].by /\ chan[k].by # None
          /\ pc'[chan[k].by] = pc[chan[k].by] /\ upto'[chan[k].by] = upto[chan[k].by]
      BY <1>2, <2>2, <2>3
    <3>2. /\ pc[chan[k].by] = "ack"
          /\ \A i \in base + 1 .. upto[chan[k].by] : i \in Settled \cup Before(k)
      BY <3>1 DEF WaitInv
    <3> QED BY <3>1, <3>2
  <2>5. \A j, k \in DOMAIN chan' : chan'[j].by # None /\ chan'[j].by = chan'[k].by => j = k
    BY <1>2, <2>3 DEF WaitInv
  <2> QED BY <1>1, <1>4, <1>6, <2>1, <2>4, <2>5 DEF WaitInv
<1>9. RefInv'
  <2>1. \A k \in DOMAIN chan' : \A a \in DOMAIN chan'[k].items :
          refs[chan'[k].items[a]] \subseteq Settled \cup Before(k)'
    BY <1>2, <1>4 DEF RefInv
  <2> QED BY <1>1, <1>5, <1>6, <2>1 DEF RefInv
<1>10. ToldInv' /\ FirstInv'
  BY <1>1, <1>6 DEF ToldInv, FirstInv
<1> QED BY <1>3, <1>7, <1>8, <1>9, <1>10

LEMMA StepInv == RolloutInv /\ [Next]_vars => RolloutInv'
<1> SUFFICES ASSUME RolloutInv, [Next]_vars PROVE RolloutInv'
  OBVIOUS
<1>1. CASE UNCHANGED vars
  <2>1. OnDisk' = OnDisk /\ Queued' = Queued /\ \A k : Before(k)' = Before(k)
    BY <1>1 DEF vars, diskVars, writerVars, OnDisk, Text, Queued, Before
  <2>2. Settled' = Settled /\ Live' = Live
    BY <1>1, <2>1 DEF vars, lifeVars, diskVars, writerVars, Settled, Live
  <2> USE DEF vars, lifeVars, diskVars, writerVars, callerVars, itemVars, RolloutInv
  <2>3. RolloutTypeOK'
    BY <1>1 DEF RolloutTypeOK
  <2>4. QueueInv' /\ WaitInv'
    BY <1>1, <2>1, <2>2 DEF QueueInv, WaitInv
  <2>5. ToldInv' /\ RefInv' /\ FirstInv'
    BY <1>1, <2>1, <2>2 DEF ToldInv, RefInv, FirstInv
  <2> QED BY <2>3, <2>4, <2>5
<1>2. CASE Start BY <1>2, StartStep
<1>3. CASE Crash \/ Stop BY <1>3, ForgetStep
<1>4. CASE Writer
  BY <1>4, WriteMetaStep, TakeItemsStep, AckStep, WriteItemStep, ApplyStep, WriteFailsStep DEF Writer
<1>5. CASE \E p \in Callers : Caller(p)
  BY <1>5, BeginStep, CloneStep, QueueStep, RecordFailsStep, FlushStep, FlushEndsStep, DropStep DEF Caller
<1> QED BY <1>1, <1>2, <1>3, <1>4, <1>5 DEF Next

LEMMA SpecInv == Spec => []RolloutInv
  BY InitInv, StepInv, PTL DEF Spec

(* The state of the recorder has the shape of its types in every run       *)
(* (recorder.rs:77).                                                       *)
THEOREM RolloutTypes == Spec => []RolloutTypeOK
<1>1. RolloutInv => RolloutTypeOK
  BY DEF RolloutInv
<1> QED BY <1>1, SpecInv, PTL

-----------------------------------------------------------------------------
(* The file as its readers see it: the meta data are its first line as     *)
(* long as they are in it, and what destroys a line is the append behind a *)
(* tail that this life found.                                              *)
FileInv ==
    /\ \A k \in DOMAIN file : file[k] = Meta => k = 1
    /\ tail = Meta => file = << >>
    /\ writer = "meta" => file = << >> /\ tail = Clean
    /\ writer \in {"recv", "write"} => Meta \in Settled /\ (file # << >> \/ tail # Clean)
    /\ promised \cup applied \cup wrote # {} => Meta \in Settled
    /\ spoiled \subseteq firsts \cup lefts
    /\ Live /\ tail # Clean => tail \in lefts

LEMMA FileInit == Init => FileInv
  BY LineNumbers DEF Init, FileInv, Live

(* The file is loaded if the meta data are in it and it is UTF-8.          *)
LEMMA LoadIs ==
    ASSUME RolloutTypeOK, FileInv
    PROVE  CanLoad <=> ~Garbled /\ Meta \in OnDisk
<1>1. ASSUME Meta \in OnDisk
      PROVE  \E k \in DOMAIN Text : Text[k] = Meta /\ \A j \in 1 .. k - 1 : Text[j] \notin Items
  <2>1. CASE tail = Meta
    BY <2>1, TextIs DEF FileInv
  <2>2. ASSUME NEW k \in DOMAIN file, file[k] = Meta
        PROVE  1 \in DOMAIN Text /\ Text[1] = Meta
    BY <2>2, TextIs DEF FileInv
  <2> QED BY <1>1, <2>1, <2>2, TextIs
<1>2. ASSUME NEW k \in DOMAIN Text, Text[k] = Meta PROVE Meta \in OnDisk
  BY <1>2, LineNumbers DEF OnDisk
<1> QED BY <1>1, <1>2 DEF CanLoad

(* A line is written: behind a clean end it is added, behind a tail both   *)
(* are destroyed.                                                          *)
LEMMA PutFile ==
    ASSUME RolloutTypeOK, RolloutTypeOK', NEW l \in Lines, Put(l)
    PROVE  /\ file' # << >> /\ DOMAIN file' = 1 .. Len(file) + 1 /\ Len(file) \in Nat
           /\ DOMAIN file = 1 .. Len(file)
           /\ \A k \in DOMAIN file : file'[k] = file[k]
           /\ file'[Len(file) + 1] = Meta => l = Meta
           /\ Garbled => Garbled'
           /\ tail = Clean => (Garbled' => Garbled) /\ OnDisk' = OnDisk \cup {l}
           /\ tail # Clean => OnDisk' \subseteq OnDisk
<1>1. PICK x : /\ x = IF tail = Clean THEN l ELSE IF tail = Bad THEN Bad ELSE Frag
               /\ x \in {Frag, Bad} \cup Lines
  BY LineNumbers
<1>2. file' = Append(file, x) /\ file \in Seq({Frag, Bad} \cup Lines) /\ tail' = Clean
  BY <1>1 DEF Put, RolloutTypeOK
<1>3. /\ file' # << >> /\ DOMAIN file' = 1 .. Len(file) + 1 /\ Len(file) \in Nat
      /\ DOMAIN file = 1 .. Len(file) /\ file'[Len(file) + 1] = x
      /\ \A k \in DOMAIN file : file'[k] = file[k]
  BY <1>1, <1>2
<1>4. \A m : (\E k \in DOMAIN file' : file'[k] = m) <=> (m = x \/ \E k \in DOMAIN file : file[k] = m)
  BY <1>3
<1>5. /\ OnDisk = {m \in Lines : m = tail \/ \E k \in DOMAIN file : file[k] = m}
      /\ Garbled <=> tail = Bad \/ \E k \in DOMAIN file : file[k] = Bad
  BY TextIs
<1>6. /\ OnDisk' = {m \in Lines : m = tail' \/ \E k \in DOMAIN file' : file'[k] = m}
      /\ Garbled' <=> tail' = Bad \/ \E k \in DOMAIN file' : file'[k] = Bad
  BY TextNext
<1> QED BY <1>1, <1>2, <1>3, <1>4, <1>5, <1>6, LineNumbers

(* A line is cut.                                                          *)
LEMMA CutFile ==
    ASSUME RolloutTypeOK, RolloutTypeOK', NEW l \in Lines, Cut(l)
    PROVE  /\ Garbled => Garbled'
           /\ tail = Clean /\ tail' = l => (Garbled' => Garbled) /\ OnDisk' = OnDisk \cup {l}
           /\ tail' # l => OnDisk' \subseteq OnDisk
<1>1. /\ OnDisk = {m \in Lines : m = tail \/ \E k \in DOMAIN file : file[k] = m}
      /\ Garbled <=> tail = Bad \/ \E k \in DOMAIN file : file[k] = Bad
  BY TextIs
<1>2. /\ OnDisk' = {m \in Lines : m = tail' \/ \E k \in DOMAIN file' : file'[k] = m}
      /\ Garbled' <=> tail' = Bad \/ \E k \in DOMAIN file' : file'[k] = Bad
  BY TextNext
<1> QED BY <1>1, <1>2, LineNumbers DEF Cut

(* The line that is cut is the meta data of a new file, or waits.          *)
LEMMA CutWhich ==
    ASSUME RolloutInv, FileInv, CutLine
    PROVE  /\ Live
           /\ \E l \in Lines : /\ Cut(l)
                               /\ IF l = Meta THEN writer = "meta" /\ file = << >> /\ tail = Clean
                                  ELSE writer = "write" /\ l \in Queued
<1>1. CASE writer = "meta" /\ Cut(Meta)
  BY <1>1, LineNumbers DEF RolloutInv, QueueInv, Live, FileInv
<1>2. CASE writer = "write" /\ batch # << >> /\ Cut(Head(batch))
  <2>1. 1 \in DOMAIN batch /\ Head(batch) = batch[1] /\ batch[1] \in Items
    BY <1>2 DEF RolloutInv, RolloutTypeOK
  <2>2. Head(batch) \in Queued
    BY <2>1 DEF Queued, Before
  <2> QED BY <1>2, <2>1, <2>2, LineNumbers DEF RolloutInv, QueueInv, Live
<1> QED BY <1>1, <1>2 DEF CutLine

LEMMA FileStep == RolloutInv /\ RolloutInv' /\ FileInv /\ [Next]_vars => FileInv'
<1> SUFFICES ASSUME RolloutInv, RolloutInv', FileInv, [Next]_vars PROVE FileInv'
  OBVIOUS
<1> USE DEF lifeVars, diskVars, writerVars, callerVars, itemVars
<1>1. ASSUME UNCHANGED <<lifeVars, diskVars>>, writer' \in {writer, "recv", "write"},
             writer' # writer => writer \in {"recv", "write"},
             promised' \cup applied' \cup wrote' # {} =>
                promised \cup applied \cup wrote # {} \/ writer \in {"recv", "write"}
      PROVE  FileInv'
  <2>1. Settled' = Settled
    BY <1>1 DEF Settled, OnDisk, Text
  <2> QED BY <1>1, <2>1 DEF FileInv, Live
<1>2. CASE UNCHANGED vars
  BY <1>1, <1>2 DEF vars
<1>3. CASE Start
  <2>1. /\ UNCHANGED <<diskVars, applied, wrote, promised>> /\ firsts \subseteq firsts'
        /\ lefts' = lefts \cup {tail}
        /\ \/ file = << >> /\ tail = Clean /\ writer' = "meta"
           \/ CanLoad /\ writer' = "recv"
    BY <1>3 DEF Start
  <2>2. CanLoad => Meta \in Settled /\ (file # << >> \/ tail # Clean)
    <3>1. CanLoad => Meta \in OnDisk
      BY LineNumbers DEF CanLoad, OnDisk
    <3>2. Meta \in OnDisk => file # << >> \/ tail # Clean
      BY TextIs, LineNumbers DEF RolloutInv
    <3> QED BY <3>1, <3>2 DEF Settled
  <2>3. Settled' = Settled
    BY <2>1 DEF Settled, OnDisk, Text
  <2> QED BY <2>1, <2>2, <2>3 DEF FileInv, Live
<1>4. CASE Crash \/ Stop \/ WriteFails
  <2>1. /\ CutLine \/ UNCHANGED diskVars
        /\ writer' \in {"off", "dead"} /\ wrote' = {} /\ ~Live'
        /\ UNCHANGED <<firsts, lefts, promised, applied>>
    BY <1>4 DEF Crash, Stop, WriteFails, Forget, Live
  <2>2. CASE UNCHANGED diskVars
    <3>1. Settled' = Settled
      BY <2>2 DEF Settled, OnDisk, Text
    <3> QED BY <2>1, <2>2, <3>1 DEF FileInv
  <2>3. CASE CutLine
    <3>1. PICK l \in Lines :
             /\ Cut(l)
             /\ IF l = Meta THEN writer = "meta" /\ file = << >> /\ tail = Clean
                ELSE writer = "write" /\ l \in Queued
      BY <2>3, CutWhich
    <3>2. Live
      BY <2>3, CutWhich
    <3>3. /\ file' = file /\ tail' \in {tail, Frag, Bad, l} /\ Settled \subseteq Settled'
          /\ spoiled' \subseteq spoiled \cup {tail} /\ (tail = Clean => spoiled' = spoiled)
      BY <3>1, CutTail, LineNumbers DEF Settled, Cut, RolloutInv
    <3>4. tail' = Meta => file' = << >>
      BY <3>1, <3>3, LineNumbers DEF FileInv
    <3>5. spoiled' \subseteq firsts \cup lefts
      BY <3>2, <3>3 DEF FileInv
    <3> QED BY <2>1, <3>3, <3>4, <3>5 DEF FileInv
  <2> QED BY <2>1, <2>2, <2>3
<1>5. CASE WriteMeta \/ WriteItem
  <2>1. PICK l \in Lines :
           /\ Put(l) /\ Live /\ Live' /\ writer' \in {"recv", "write"}
           /\ UNCHANGED <<firsts, lefts, promised, applied>>
           /\ l = Meta => writer = "meta" /\ file = << >> /\ tail = Clean
           /\ l # Meta => writer = "write" /\ (tail # Clean => l \in firsts)
    <3>1. CASE WriteMeta
      <4>1. Live /\ Live' /\ Meta \in Lines
        BY <3>1, LineNumbers DEF WriteMeta, Live, RolloutInv, QueueInv
      <4> QED BY <3>1, <4>1 DEF WriteMeta, FileInv
    <3>2. CASE WriteItem
      <4>1. PICK h : h = Head(batch)
        OBVIOUS
      <4> QED BY <3>2, <4>1, WriteItemFacts, LineNumbers
    <3> QED BY <1>5, <3>1, <3>2
  <2>2. /\ tail' = Clean /\ Settled' = Settled \cup {l}
        /\ spoiled' \subseteq spoiled \cup {l, tail} /\ (tail = Clean => spoiled' = spoiled)
    BY <2>1, PutLine DEF Settled, RolloutInv
  <2>3. Meta \in Settled'
    BY <2>1, <2>2 DEF FileInv
  <2>4. /\ file' # << >> /\ DOMAIN file' = 1 .. Len(file) + 1 /\ DOMAIN file = 1 .. Len(file)
        /\ \A k \in DOMAIN file : file'[k] = file[k]
        /\ file'[Len(file) + 1] = Meta => l = Meta
        /\ Len(file) \in Nat
    BY <2>1, PutFile DEF RolloutInv
  <2>5. \A k \in DOMAIN file' : file'[k] = Meta => k = 1
    <3>1. file = << >> => Len(file) = 0
      OBVIOUS
    <3>2. l = Meta => Len(file) = 0
      BY <2>1, <3>1
    <3>3. \A k \in DOMAIN file' : k \in DOMAIN file \/ k = Len(file) + 1
      BY <2>4
    <3> QED BY <2>4, <3>2, <3>3 DEF FileInv
  <2>6. spoiled' \subseteq firsts \cup lefts
    BY <2>1, <2>2 DEF FileInv
  <2> QED BY <2>1, <2>2, <2>3, <2>4, <2>5, <2>6, LineNumbers DEF FileInv
<1>6. CASE TakeItems \/ Apply
  BY <1>1, <1>6 DEF TakeItems, Apply
<1>7. CASE Ack
  BY <1>1, <1>7 DEF Ack
<1>8. ASSUME NEW p \in Callers, Caller(p) PROVE FileInv'
  <2>1. CASE (\E k \in Kinds : Begin(p, k)) \/ Clone(p) \/ RecordFails(p) \/ FlushFails(p)
    BY <1>1, <2>1 DEF Begin, Clone, RecordFails, FlushFails
  <2>2. CASE Flushed(p) \/ Drop(p) \/ Flush(p) \/ Queue(p)
    BY <1>1, <2>2 DEF Flushed, Drop, Flush, Queue
  <2> QED BY <1>8, <2>1, <2>2 DEF Caller
<1> QED
  BY <1>2, <1>3, <1>4, <1>5, <1>6, <1>7, <1>8 DEF Next, Writer

LEMMA SpecFile == Spec => []FileInv
  BY FileInit, FileStep, SpecInv, PTL DEF Spec

(* Whatever was acknowledged to a flush, or told to the state DB, is in    *)
(* the file or was destroyed by an append behind a cut line; and the file  *)
(* loads, unless a line was cut inside a character or that append took the *)
(* meta data (recorder.rs:478, :493, :514).                                *)
THEOREM ToldStays == Spec => []ToldIsReadable
<1>1. RolloutInv /\ FileInv => ToldIsReadable
  BY LoadIs DEF RolloutInv, ToldInv, FileInv, ToldIsReadable, Settled
<1> QED BY <1>1, SpecInv, SpecFile, PTL

(* An append destroys no more than the first item of its life and the tail *)
(* that the life found, and only the former can have been acknowledged     *)
(* (recorder.rs:771).                                                      *)
THEOREM FirstOnly == Spec => []OnlyFirstSpoiled
<1>1. RolloutInv /\ FileInv => OnlyFirstSpoiled
  BY DEF RolloutInv, FirstInv, FileInv, OnlyFirstSpoiled
<1> QED BY <1>1, SpecInv, SpecFile, PTL

(* A compaction that can be read back refers to stored inputs that can be  *)
(* read back, or that an append behind a cut line destroyed                *)
(* (codex.rs:4283).                                                        *)
THEOREM DanglingOnlySpoiled == Spec => []DanglingIsSpoiled
<1>1. RolloutInv => DanglingIsSpoiled
  BY DEF RolloutInv, RefInv, DanglingIsSpoiled, Settled, Readable
<1> QED BY <1>1, SpecInv, PTL
-----------------------------------------------------------------------------
(* What a filter returns.  Induction over a set of naturals: the library's *)
(* theorem takes an operator, this one follows from the well-foundedness   *)
(* of the naturals.                                                        *)
LEMMA SetInduction ==
  ASSUME NEW S, 0 \in S, \A n \in Nat : n \in S => n + 1 \in S
  PROVE  Nat \subseteq S
<1> SUFFICES ASSUME Nat \ S # {} PROVE FALSE  OBVIOUS
<1>1. IsWellFoundedOn(OpToRel(<, Nat), Nat)  BY NatLessThanWellFounded
<1> DEFINE T == Nat \ S
<1>2. \E x \in T : \A y \in T : ~(<<y, x>> \in OpToRel(<, Nat))
  <2> HIDE DEF T
  <2>1. T \subseteq Nat /\ T # {}  BY DEF T
  <2> QED BY <1>1, <2>1, WFMin
<1>3. PICK x \in T : \A y \in T : ~(<<y, x>> \in OpToRel(<, Nat))  BY <1>2
<1>4. x - 1 \in T  OBVIOUS
<1>5. <<x - 1, x>> \in OpToRel(<, Nat)  BY <1>4 DEF OpToRel
<1> QED BY <1>3, <1>4, <1>5

(* The filter's function, up to position m.                                *)
Filters(g, s, T, m) ==
    g = [n \in 0 .. m |-> IF n = 0 THEN << >>
                          ELSE IF s[n] \in T THEN Append(g[n - 1], s[n]) ELSE g[n - 1]]

LEMMA FiltersExists == ASSUME NEW s, NEW T, NEW m \in Nat PROVE \E g : Filters(g, s, T, m)
<1> DEFINE S == {n \in Nat : \E g : Filters(g, s, T, n)}
<1>1. 0 \in S
  <2>1. Filters([n \in 0 .. 0 |-> << >>], s, T, 0)
    BY DEF Filters
  <2> QED
    BY <2>1
<1>2. ASSUME NEW n \in Nat, n \in S PROVE n + 1 \in S
  <2>1. PICK g : Filters(g, s, T, n)
    BY <1>2
  <2>2. PICK v : v = IF s[n + 1] \in T THEN Append(g[n], s[n + 1]) ELSE g[n]
    OBVIOUS
  <2>3. PICK h : h = [k \in 0 .. n + 1 |-> IF k <= n THEN g[k] ELSE v]
    OBVIOUS
  <2>4. \A k \in 0 .. n :
           g[k] = IF k = 0 THEN << >>
                  ELSE IF s[k] \in T THEN Append(g[k - 1], s[k]) ELSE g[k - 1]
    BY <2>1 DEF Filters
  <2>5. ASSUME NEW k \in 0 .. n + 1
        PROVE  h[k] = IF k = 0 THEN << >>
                      ELSE IF s[k] \in T THEN Append(h[k - 1], s[k]) ELSE h[k - 1]
    <3>1. CASE k <= n
      <4>1. k \in 0 .. n /\ h[k] = g[k] /\ (k # 0 => h[k - 1] = g[k - 1])
        BY <2>3, <3>1
      <4> QED
        BY <2>4, <4>1
    <3>2. CASE k = n + 1
      <4>1. h[k] = v /\ k # 0 /\ h[k - 1] = g[n] /\ s[k] = s[n + 1]
        BY <2>3, <3>2
      <4> QED
        BY <2>2, <4>1
    <3> QED
      BY <3>1, <3>2
  <2>6. Filters(h, s, T, n + 1)
    BY <2>3, <2>5 DEF Filters
  <2> QED
    BY <2>6
<1>3. Nat \subseteq S
  <2> HIDE DEF S
  <2> QED
    BY <1>1, <1>2, SetInduction
<1> QED
  BY <1>3

LEMMA FiltersAt ==
  ASSUME NEW g, NEW s, NEW T, NEW m \in Nat, Filters(g, s, T, m)
  PROVE  /\ g[0] = << >>
         /\ \A n \in Nat : n < m =>
                g[n + 1] = IF s[n + 1] \in T THEN Append(g[n], s[n + 1]) ELSE g[n]
<1>1. \A n \in 0 .. m :
         g[n] = IF n = 0 THEN << >>
                ELSE IF s[n] \in T THEN Append(g[n - 1], s[n]) ELSE g[n - 1]
  BY DEF Filters
<1>2. ASSUME NEW n \in Nat, n < m
      PROVE  g[n + 1] = IF s[n + 1] \in T THEN Append(g[n], s[n + 1]) ELSE g[n]
  <2>1. PICK k : k = n + 1
    OBVIOUS
  <2>2. k \in 0 .. m /\ k # 0 /\ k - 1 = n
    BY <1>2, <2>1
  <2>3. g[k] = IF s[k] \in T THEN Append(g[k - 1], s[k]) ELSE g[k - 1]
    BY <1>1, <2>2
  <2> QED
    BY <2>1, <2>2, <2>3
<1> QED
  BY <1>1, <1>2

LEMMA FilterIs ==
  ASSUME NEW s, NEW T, Len(s) \in Nat
  PROVE  \E g : Filters(g, s, T, Len(s)) /\ Filter(s, T) = g[Len(s)]
<1> DEFINE f == CHOOSE g : Filters(g, s, T, Len(s))
<1>1. Filters(f, s, T, Len(s))
  BY FiltersExists
<1>2. Filter(s, T) = f[Len(s)]
  BY DEF Filter, Filters
<1> QED
  BY <1>1, <1>2

(* One more element.                                                       *)
LEMMA FilterAppend ==
  ASSUME NEW R, NEW s \in Seq(R), NEW x \in R, NEW T
  PROVE  Filter(Append(s, x), T) = IF x \in T THEN Append(Filter(s, T), x) ELSE Filter(s, T)
<1>1. PICK t, m : t = Append(s, x) /\ m = Len(s)
  OBVIOUS
<1>2. m \in Nat /\ Len(t) = m + 1 /\ t[m + 1] = x /\ \A k \in 1 .. m : t[k] = s[k]
  BY <1>1
<1>3. PICK g : Filters(g, s, T, m) /\ Filter(s, T) = g[m]
  BY <1>1, <1>2, FilterIs
<1>4. PICK h : Filters(h, t, T, m + 1) /\ Filter(t, T) = h[m + 1]
  BY <1>2, FilterIs
<1> DEFINE S == {n \in Nat : n <= m => g[n] = h[n]}
<1>5. 0 \in S
  BY <1>2, <1>3, <1>4, FiltersAt
<1>6. ASSUME NEW n \in Nat, n \in S PROVE n + 1 \in S
  <2> SUFFICES ASSUME n + 1 <= m PROVE g[n + 1] = h[n + 1]
    OBVIOUS
  <2>1. g[n] = h[n] /\ t[n + 1] = s[n + 1]
    BY <1>2, <1>6
  <2>2. g[n + 1] = IF s[n + 1] \in T THEN Append(g[n], s[n + 1]) ELSE g[n]
    BY <1>2, <1>3, FiltersAt
  <2>3. h[n + 1] = IF t[n + 1] \in T THEN Append(h[n], t[n + 1]) ELSE h[n]
    BY <1>2, <1>4, FiltersAt
  <2> QED
    BY <2>1, <2>2, <2>3
<1>7. Nat \subseteq S
  <2> HIDE DEF S
  <2> QED
    BY <1>5, <1>6, SetInduction
<1>8. g[m] = h[m]
  BY <1>2, <1>7
<1>9. h[m + 1] = IF x \in T THEN Append(h[m], x) ELSE h[m]
  BY <1>2, <1>4, FiltersAt
<1> QED
  BY <1>1, <1>3, <1>4, <1>8, <1>9

LEMMA FilterEmpty == \A T : Filter(<< >>, T) = << >>
<1> SUFFICES ASSUME NEW T PROVE Filter(<< >>, T) = << >>
  OBVIOUS
<1>1. Len(<< >>) = 0
  OBVIOUS
<1>2. PICK g : Filters(g, << >>, T, 0) /\ Filter(<< >>, T) = g[0]
  BY <1>1, FilterIs
<1> QED
  BY <1>2, FiltersAt

(* What is kept: the elements that are in T.                               *)
LEMMA FilterKeeps ==
  ASSUME NEW R, NEW s \in Seq(R), NEW T \in SUBSET R
  PROVE  /\ Filter(s, T) \in Seq(T)
         /\ ToSet(Filter(s, T)) = {s[k] : k \in DOMAIN s} \cap T
<1>1. PICK m : m = Len(s)
  OBVIOUS
<1>2. m \in Nat /\ DOMAIN s = 1 .. m /\ \A k \in 1 .. m : s[k] \in R
  BY <1>1
<1>3. PICK g : Filters(g, s, T, m) /\ Filter(s, T) = g[m]
  BY <1>1, <1>2, FilterIs
<1> DEFINE S == {n \in Nat : n <= m => /\ g[n] \in Seq(T)
                                       /\ ToSet(g[n]) = {s[k] : k \in 1 .. n} \cap T}
<1>4. 0 \in S
  <2>1. g[0] = << >>
    BY <1>2, <1>3, FiltersAt
  <2>2. ToSet(<< >>) = {} /\ {s[k] : k \in 1 .. 0} = {}
    BY DEF ToSet
  <2>3. << >> \in Seq(T)
    OBVIOUS
  <2> QED
    BY <2>1, <2>2, <2>3
<1>5. ASSUME NEW n \in Nat, n \in S PROVE n + 1 \in S
  <2> SUFFICES ASSUME n + 1 <= m
               PROVE  /\ g[n + 1] \in Seq(T)
                      /\ ToSet(g[n + 1]) = {s[k] : k \in 1 .. n + 1} \cap T
    OBVIOUS
  <2>1. g[n] \in Seq(T) /\ ToSet(g[n]) = {s[k] : k \in 1 .. n} \cap T
    BY <1>2, <1>5
  <2>2. g[n + 1] = IF s[n + 1] \in T THEN Append(g[n], s[n + 1]) ELSE g[n]
    BY <1>2, <1>3, FiltersAt
  <2>3. {s[k] : k \in 1 .. n + 1} = {s[k] : k \in 1 .. n} \cup {s[n + 1]}
    OBVIOUS
  <2>4. CASE s[n + 1] \in T
    <3>1. ToSet(Append(g[n], s[n + 1])) = ToSet(g[n]) \cup {s[n + 1]}
      <4>1. PICK a \in Seq(T), x \in T : a = g[n] /\ x = s[n + 1]
        BY <2>1, <2>4
      <4>2. /\ DOMAIN a = 1 .. Len(a) /\ Len(a) \in Nat
            /\ DOMAIN Append(a, x) = 1 .. Len(a) + 1
            /\ \A k \in 1 .. Len(a) : Append(a, x)[k] = a[k]
            /\ Append(a, x)[Len(a) + 1] = x
        OBVIOUS
      <4>3. ToSet(Append(a, x)) = ToSet(a) \cup {x}
        BY <4>2 DEF ToSet
      <4> QED
        BY <4>1, <4>3
    <3> QED
      BY <2>1, <2>2, <2>3, <2>4, <3>1
  <2>5. CASE s[n + 1] \notin T
    BY <2>1, <2>2, <2>3, <2>5
  <2> QED
    BY <2>4, <2>5
<1>6. Nat \subseteq S
  <2> HIDE DEF S
  <2> QED
    BY <1>4, <1>5, SetInduction
<1>7. /\ g[m] \in Seq(T)
      /\ ToSet(g[m]) = {s[k] : k \in 1 .. m} \cap T
  <2>1. m \in S
    BY <1>2, <1>6
  <2>2. m <= m
    BY <1>2
  <2> QED
    BY <2>1, <2>2
<1> QED
  BY <1>2, <1>3, <1>7
-----------------------------------------------------------------------------
(* The recorder implements RolloutLog.  What waits comes after all that is *)
(* settled, so that the next line written is later than all others.        *)
LaterInv == \A i \in Settled \cap Items : \A j \in Queued : i < j

Kept == Filter(Text, Items)
Lost == spoiled \ {Meta}
LEMMA KeptAt ==
    ASSUME NEW f \in Seq(Marks), NEW t \in Marks
    PROVE  /\ Filter(Append(f, t), Items)
                = IF t \in Items THEN Append(Filter(f, Items), t) ELSE Filter(f, Items)
           /\ Filter(f, Items) \in Seq(Items)
           /\ Filter(Append(f, t), Items) \in Seq(Items)
           /\ ToSet(Filter(Append(f, t), Items))
                = {l \in Items : l = t \/ \E k \in DOMAIN f : f[k] = l}
<1>1. Items \in SUBSET Marks
  BY LineNumbers DEF Marks
<1>2. Append(f, t) \in Seq(Marks) /\ DOMAIN f = 1 .. Len(f) /\ Len(f) \in Nat
  OBVIOUS
<1>3. /\ DOMAIN Append(f, t) = 1 .. Len(f) + 1 /\ Append(f, t)[Len(f) + 1] = t
      /\ \A k \in 1 .. Len(f) : Append(f, t)[k] = f[k]
  OBVIOUS
<1>4. {Append(f, t)[k] : k \in DOMAIN Append(f, t)} \cap Items
        = {l \in Items : l = t \/ \E k \in DOMAIN f : f[k] = l}
  BY <1>2, <1>3
<1>5. Filter(Append(f, t), Items)
        = IF t \in Items THEN Append(Filter(f, Items), t) ELSE Filter(f, Items)
  BY FilterAppend
<1>6. Filter(f, Items) \in Seq(Items)
  BY <1>1, FilterKeeps
<1>7. /\ Filter(Append(f, t), Items) \in Seq(Items)
      /\ ToSet(Filter(Append(f, t), Items))
           = {Append(f, t)[k] : k \in DOMAIN Append(f, t)} \cap Items
  <2>1. PICK g \in Seq(Marks) : g = Append(f, t)
    BY <1>2
  <2>2. /\ Filter(g, Items) \in Seq(Items)
        /\ ToSet(Filter(g, Items)) = {g[k] : k \in DOMAIN g} \cap Items
    BY <1>1, FilterKeeps
  <2> QED
    BY <2>1, <2>2
<1> QED
  BY <1>4, <1>5, <1>6, <1>7

LEMMA KeptIs ==
    ASSUME RolloutTypeOK
    PROVE  /\ Kept = IF tail \in Items THEN Append(Filter(file, Items), tail)
                                       ELSE Filter(file, Items)
           /\ Filter(file, Items) \in Seq(Items) /\ Kept \in Seq(Items)
           /\ ToSet(Kept) = OnDisk \cap Items
           /\ ToSet(Kept) \cup Lost = Settled \cap Items
<1>1. file \in Seq(Marks) /\ tail \in Marks
  BY MarksType DEF RolloutTypeOK
<1>2. Meta \notin Items
  BY LineNumbers
<1>3. ToSet(Kept) = OnDisk \cap Items
  <2>1. ToSet(Kept) = {l \in Items : l = tail \/ \E k \in DOMAIN file : file[k] = l}
    BY <1>1, KeptAt DEF Kept, Text
  <2>2. OnDisk = {l \in Lines : l = tail \/ \E k \in DOMAIN file : file[k] = l}
    BY TextIs
  <2> QED
    BY <2>1, <2>2, LineNumbers
<1>4. Lost = spoiled \cap Items
  BY <1>2, LineNumbers DEF RolloutTypeOK, Lost
<1>5. ToSet(Kept) \cup Lost = Settled \cap Items
  BY <1>3, <1>4 DEF Settled
<1> QED
  BY <1>1, <1>3, <1>5, KeptAt DEF Kept, Text

LEMMA KeptTail ==
    ASSUME RolloutTypeOK, tail \in Items
    PROVE  Kept # << >> /\ Last(Kept) = tail /\ Front(Kept) = Filter(file, Items)
<1>1. PICK s \in Seq(Items), t \in Items : s = Filter(file, Items) /\ t = tail
  BY KeptIs
<1>2. Kept = Append(s, t)
  BY <1>1, KeptIs
<1>3. /\ Len(Append(s, t)) = Len(s) + 1 /\ Len(s) \in Nat /\ Append(s, t) # << >>
      /\ Append(s, t)[Len(s) + 1] = t /\ SubSeq(Append(s, t), 1, Len(s)) = s
  <2>1. /\ Len(Append(s, t)) = Len(s) + 1 /\ Len(s) \in Nat /\ Append(s, t) # << >>
        /\ Append(s, t)[Len(s) + 1] = t
    OBVIOUS
  <2>2. /\ SubSeq(Append(s, t), 1, Len(s)) \in Seq(Items)
        /\ Len(SubSeq(Append(s, t), 1, Len(s))) = Len(s)
        /\ \A k \in 1 .. Len(s) : SubSeq(Append(s, t), 1, Len(s))[k] = s[k]
    OBVIOUS
  <2> QED
    BY <2>1, <2>2, SeqEqual
<1>4. Last(Append(s, t)) = t /\ Front(Append(s, t)) = s
  BY <1>3 DEF Last, Front
<1> QED
  BY <1>1, <1>2, <1>3, <1>4

(* Once the file is broken for its readers, it stays so; a line that is    *)
(* written or cut behind a clean end does not break it.                    *)
LoadInv == CanLoad <=> ~Garbled /\ Meta \in OnDisk

LEMMA BrokenSame == UNCHANGED diskVars => Broken' = Broken
  BY DEF Broken, CanLoad, Garbled, Text, diskVars

LEMMA BrokenPut ==
    ASSUME RolloutTypeOK, RolloutTypeOK', LoadInv, LoadInv', NEW l \in Lines, Put(l),
           IF l = Meta THEN file = << >> /\ tail = Clean ELSE file # << >> \/ tail # Clean
    PROVE  Broken' \in {Broken, TRUE} /\ (tail = Clean => Broken' = Broken)
<1>1. /\ file' # << >> /\ (Garbled => Garbled')
      /\ tail = Clean => (Garbled' => Garbled) /\ OnDisk' = OnDisk \cup {l}
      /\ tail # Clean => OnDisk' \subseteq OnDisk
  BY PutFile
<1>2. l = Meta => ~Garbled
  BY TextIs, LineNumbers
<1>3. Broken => Broken'
  BY <1>1, <1>2 DEF Broken, LoadInv
<1>4. tail = Clean => (Broken' => Broken)
  BY <1>1, <1>2 DEF Broken, LoadInv
<1>5. Broken \in BOOLEAN /\ Broken' \in BOOLEAN
  BY DEF Broken
<1> QED BY <1>3, <1>4, <1>5

LEMMA BrokenCut ==
    ASSUME RolloutTypeOK, RolloutTypeOK', LoadInv, LoadInv', NEW l \in Lines, Cut(l),
           IF l = Meta THEN file = << >> /\ tail = Clean ELSE file # << >> \/ tail # Clean
    PROVE  /\ Broken' \in {Broken, TRUE}
           /\ tail' = tail \/ (tail = Clean /\ tail' = l) => Broken' = Broken
<1>1. /\ Garbled => Garbled'
      /\ tail = Clean /\ tail' = l => (Garbled' => Garbled) /\ OnDisk' = OnDisk \cup {l}
      /\ tail' # l => OnDisk' \subseteq OnDisk
  BY CutFile
<1>2. l = Meta => ~Garbled
  BY TextIs, LineNumbers
<1>3. file' = file /\ (tail' # tail => tail' \in {Frag, Bad} \/ (tail = Clean /\ tail' = l))
  BY DEF Cut
<1>4. Broken \in BOOLEAN /\ Broken' \in BOOLEAN
  BY DEF Broken
<1>5. CASE tail' = tail
  <2>1. Broken' = Broken
    BY <1>3, <1>5 DEF Broken, CanLoad, Garbled, Text
  <2> QED BY <2>1
<1>6. CASE tail = Clean /\ tail' = l
  <2>1. l # Clean
    BY LineNumbers
  <2>2. Broken => Broken'
    BY <1>1, <1>2, <1>3, <1>6, <2>1 DEF Broken, LoadInv
  <2>3. Broken' => Broken
    BY <1>1, <1>2, <1>3, <1>6, <2>1 DEF Broken, LoadInv
  <2> QED BY <1>4, <1>6, <2>2, <2>3
<1>7. CASE tail' # tail /\ tail' \in {Frag, Bad}
  <2>1. tail' # Clean /\ tail' # l
    BY <1>7, LineNumbers
  <2>2. Broken => Broken'
    BY <1>1, <1>7, <2>1 DEF Broken, LoadInv
  <2> QED BY <1>4, <1>7, <2>1, <2>2
<1> QED BY <1>3, <1>5, <1>6, <1>7

LEMMA LogInitial == Init => Log!LogInit
<1> SUFFICES ASSUME Init PROVE Log!LogInit
  OBVIOUS
<1>1. Kept = << >>
  <2>1. Clean \notin Items /\ file = << >> /\ tail = Clean /\ << >> \in Seq(Marks)
        /\ Clean \in Marks
    BY LineNumbers DEF Init, Marks
  <2> QED
    BY <2>1, KeptAt, FilterEmpty DEF Kept, Text
<1> QED
  <2>1. Broken = FALSE
    BY DEF Init, Broken
  <2> QED
    BY <1>1, <2>1 DEF Init, Log!LogInit, Kept

LEMMA LaterInit == Init => LaterInv
  BY DEF Init, LaterInv, Queued, Before

(* A line is written, or cut, as the log sees it.                          *)
LEMMA LogPut ==
    ASSUME RolloutInv, LaterInv, RolloutTypeOK', NEW l \in Items, Live, l \in Queued,
           \A i \in Settled \cap Items : i < l, Put(l), UNCHANGED <<sent, promised>>,
           Broken' \in {Broken, TRUE}, tail = Clean => Broken' = Broken
    PROVE  Log!LogNext
<1>1. /\ ToSet(Kept) \cup Lost = Settled \cap Items /\ l \in 1 .. sent
      /\ Kept = IF tail \in Items THEN Append(Filter(file, Items), tail)
                                  ELSE Filter(file, Items)
  <2>1. l \in base + 1 .. sent /\ base \in Nat /\ sent \in Nat
    BY DEF RolloutInv, QueueInv, RolloutTypeOK
  <2> QED
    BY <2>1, KeptIs DEF RolloutInv
<1>2. l \in Log!Later
  BY <1>1 DEF Log!Later, Log!Logged, Log!ToSet, ToSet, Kept, Lost
<1>3. Filter(file', Items) = IF tail = Clean THEN Append(Filter(file, Items), l)
                                             ELSE Filter(file, Items)
  <2>1. /\ file \in Seq(Marks) /\ l \in Marks /\ Frag \in Marks /\ Frag \notin Items
        /\ Bad \in Marks /\ Bad \notin Items
    <3>1. {Frag, Bad} \cup Lines \subseteq Marks /\ Lines = {Meta} \cup Items
      BY LineNumbers DEF Marks
    <3> QED
      BY <3>1, LineNumbers DEF RolloutInv, RolloutTypeOK, Marks
  <2> QED
    BY <2>1, KeptAt DEF Put
<1>4. Kept' = Filter(file', Items)
  <2>1. tail' = Clean /\ tail' \notin Items /\ file' \in Seq(Marks) /\ tail' \in Marks
    <3>1. {Frag, Bad} \cup Lines \subseteq Marks /\ Lines = {Meta} \cup Items
      BY LineNumbers DEF Marks
    <3> QED
      BY <3>1, LineNumbers DEF RolloutTypeOK, Put, Marks
  <2> QED
    BY <2>1, KeptAt DEF Kept, Text
<1>5. CASE tail = Clean
  <2>1. Kept' = Append(Kept, l) /\ Lost' = Lost
    BY <1>1, <1>3, <1>4, <1>5, LineNumbers DEF Put, Lost
  <2> QED
    BY <1>2, <1>5, <2>1 DEF Log!LogNext, Log!Write, Kept, Lost
<1>6. CASE tail # Clean
  <2>1. l # Frag /\ l # Meta /\ {l} \in SUBSET Log!Later
    BY <1>2, LineNumbers
  <2>2. CASE tail \in Items
    <3>1. /\ Kept # << >> /\ Last(Kept) = tail /\ Kept' = Front(Kept)
          /\ Last(Kept) \notin promised
      BY <1>3, <1>4, <1>6, <2>2, KeptTail DEF RolloutInv, FirstInv
    <3>2. Lost' = Lost \cup {l} \cup {Last(Kept)}
      BY <1>6, <2>1, <2>2, <3>1, LineNumbers DEF Put, Lost
    <3> QED
      BY <2>1, <3>1, <3>2 DEF Log!LogNext, Log!Spoil, Log!Last, Log!Front, Last, Front, Kept, Lost
  <2>3. CASE tail \notin Items
    <3>1. Kept' = Kept
      BY <1>1, <1>3, <1>4, <1>6, <2>3
    <3>2. Lost' = Lost \cup {l}
      BY <1>6, <2>1, <2>3, LineNumbers DEF Put, Lost, RolloutInv, RolloutTypeOK
    <3> QED
      BY <2>1, <3>1, <3>2 DEF Log!LogNext, Log!Spoil, Log!Last, Log!Front, Last, Front, Kept, Lost
  <2> QED
    BY <2>2, <2>3
<1> QED
  BY <1>5, <1>6

LEMMA LogCut ==
    ASSUME RolloutInv, LaterInv, FileInv, LoadInv, LoadInv', RolloutTypeOK', CutLine \/ UNCHANGED diskVars,
           UNCHANGED <<sent, promised>>
    PROVE  [Log!LogNext]_(Log!logVars)
<1>1. CASE UNCHANGED <<file, tail, spoiled>>
  <2>1. Kept' = Kept /\ Broken' = Broken
    BY <1>1, BrokenSame DEF Kept, Text, diskVars
  <2> QED
    BY <1>1, <2>1 DEF Log!logVars, Kept
<1>2. ASSUME NEW l \in Lines, Cut(l),
             IF l = Meta THEN writer = "meta" /\ file = << >> /\ tail = Clean
             ELSE writer = "write" /\ l \in Queued
      PROVE  [Log!LogNext]_(Log!logVars)
  <2>0. /\ Broken' \in {Broken, TRUE}
        /\ tail' = tail \/ (tail = Clean /\ tail' = l) => Broken' = Broken
    <3>1. IF l = Meta THEN file = << >> /\ tail = Clean ELSE file # << >> \/ tail # Clean
      BY <1>2 DEF FileInv
    <3> QED
      BY <1>2, <3>1, BrokenCut DEF RolloutInv
  <2>1. file \in Seq(Marks) /\ tail \in Marks /\ tail' \in Marks
    <3>1. {Frag, Bad} \cup Lines \subseteq Marks /\ Lines = {Meta} \cup Items
      BY LineNumbers DEF Marks
    <3> QED
      BY <3>1, LineNumbers DEF RolloutInv, RolloutTypeOK, Marks
  <2>2. /\ Kept = IF tail \in Items THEN Append(Filter(file, Items), tail)
                                    ELSE Filter(file, Items)
        /\ Kept' = IF tail' \in Items THEN Append(Filter(file, Items), tail')
                                      ELSE Filter(file, Items)
    BY <1>2, <2>1, KeptAt DEF Kept, Text, Cut
  <2>3. CASE tail' = tail
    <3>1. Kept' = Kept /\ spoiled' = spoiled
      BY <1>2, <2>2, <2>3 DEF Cut
    <3> QED
      BY <2>0, <2>3, <3>1 DEF Log!logVars, Kept
  <2>4. CASE tail' # tail /\ tail' \in {Frag, Bad}
    <3>1. spoiled' = spoiled \cup ({tail} \cap Lines)
      BY <1>2, <2>4 DEF Cut
    <3>2. CASE tail \in Items
      <4>1. /\ Kept # << >> /\ Last(Kept) = tail /\ Kept' = Front(Kept)
            /\ Last(Kept) \notin promised
        BY <2>2, <2>4, <3>2, KeptTail, LineNumbers DEF RolloutInv, FirstInv
      <4>2. Lost' = Lost \cup {} \cup {Last(Kept)}
        BY <3>1, <3>2, <4>1, LineNumbers DEF Lost
      <4>3. {} \in SUBSET Log!Later
        OBVIOUS
      <4> QED
        BY <2>0, <4>1, <4>2, <4>3 DEF Log!LogNext, Log!Spoil, Log!Last, Log!Front, Last, Front, Kept, Lost
    <3>3. CASE tail \notin Items
      <4>1. Kept' = Kept /\ Lost' = Lost
        BY <2>1, <2>2, <2>4, <3>1, <3>3, LineNumbers DEF Lost, Marks
      <4>2. Lost' = Lost \cup {}
        BY <4>1
      <4>3. {} \in SUBSET Log!Later
        OBVIOUS
      <4> QED
        BY <2>0, <4>1, <4>2, <4>3 DEF Log!LogNext, Log!Spoil, Kept, Lost
    <3> QED
      BY <3>2, <3>3
  <2>5. CASE tail' # tail /\ tail' \notin {Frag, Bad}
    <3>1. tail = Clean /\ tail' = l /\ spoiled' = spoiled
      BY <1>2, <2>5, LineNumbers DEF Cut, RolloutInv, RolloutTypeOK
    <3>2. CASE l = Meta
      <4>1. Kept' = Kept
        BY <2>2, <3>1, <3>2, LineNumbers
      <4> QED
        BY <2>0, <3>1, <4>1 DEF Log!logVars, Kept
    <3>3. CASE l \in Items
      <4>1. Kept' = Append(Kept, l)
        BY <2>2, <3>1, <3>3, LineNumbers
      <4>2. l \in Log!Later
        <5>1. l \in 1 .. sent /\ \A i \in Settled \cap Items : i < l
          BY <1>2, <3>1, <3>3, LineNumbers DEF LaterInv, RolloutInv, QueueInv, RolloutTypeOK, Items
        <5> QED
          BY <5>1, KeptIs DEF Log!Later, Log!Logged, Log!ToSet, ToSet, Kept, Lost, RolloutInv
      <4> QED
        BY <2>0, <3>1, <4>1, <4>2 DEF Log!LogNext, Log!Write, Kept
    <3> QED
      BY <3>2, <3>3, LineNumbers
  <2> QED
    BY <2>3, <2>4, <2>5
<1>3. CASE CutLine
  BY <1>2, <1>3, CutWhich
<1> QED
  BY <1>1, <1>3 DEF diskVars

(* What waits stays in front of what is queued now.                        *)
LEMMA LaterFrame ==
    ASSUME RolloutInv, LaterInv, Settled' \cap Items \subseteq Settled,
           \A j \in Queued' : j \in Queued \/ j \in sent + 1 .. sent'
    PROVE  LaterInv'
<1>1. \A i \in Settled \cap Items : i <= sent /\ i \in Nat
  BY LineNumbers DEF RolloutInv, QueueInv
<1>2. sent \in Nat
  BY DEF RolloutInv, RolloutTypeOK
<1> QED
  BY <1>1, <1>2 DEF LaterInv

LEMMA LaterStep == RolloutInv /\ LaterInv /\ [Next]_vars => LaterInv'
<1> SUFFICES ASSUME RolloutInv, LaterInv, [Next]_vars PROVE LaterInv'
  OBVIOUS
<1> USE DEF lifeVars, diskVars, writerVars, callerVars, itemVars
<1>1. ASSUME UNCHANGED <<diskVars, chan, batch>> PROVE LaterInv'
  <2>1. Settled' = Settled /\ Queued' = Queued
    BY <1>1 DEF Settled, OnDisk, Text, Queued, Before
  <2> QED
    BY <2>1, LaterFrame
<1>2. ASSUME chan' = << >>, batch' = << >> PROVE LaterInv'
  <2>1. Queued' = {}
    BY <1>2 DEF Queued, Before
  <2> QED
    BY <2>1 DEF LaterInv
<1>3. CASE UNCHANGED vars
  BY <1>1, <1>3 DEF vars
<1>4. CASE Start
  BY <1>1, <1>4 DEF Start
<1>5. CASE Crash \/ Stop \/ WriteFails
  BY <1>2, <1>5 DEF Crash, Stop, WriteFails, Forget
<1>6. CASE WriteMeta
  <2>1. Settled' = Settled \cup {Meta} /\ Meta \notin Items
    BY <1>6, PutLine, LineNumbers DEF WriteMeta, Settled, RolloutInv
  <2>2. Queued' = Queued
    BY <1>6 DEF WriteMeta, Queued, Before
  <2> QED
    BY <2>1, <2>2, LaterFrame
<1>7. CASE TakeItems \/ Ack
  <2>1. /\ RolloutTypeOK /\ chan # << >> /\ batch = << >>
        /\ chan' = Tail(chan) /\ batch' = Head(chan).items
    BY <1>7, AckFacts DEF TakeItems, RolloutInv, QueueInv
  <2>2. Queued' = Queued
    BY <2>1, TakeFacts
  <2>3. Settled' = Settled
    BY <1>7 DEF TakeItems, Ack, Settled, OnDisk, Text
  <2> QED
    BY <2>2, <2>3, LaterFrame
<1>8. CASE WriteItem
  <2>1. PICK h : h = Head(batch)
    OBVIOUS
  <2>2. /\ Settled' = Settled \cup {h} /\ Queued = Queued' \cup {h}
        /\ \A i \in Queued' : h < i
    BY <1>8, <2>1, WriteItemFacts
  <2> QED
    BY <2>2 DEF LaterInv
<1>9. CASE Apply
  BY <1>1, <1>9 DEF Apply
<1>10. ASSUME NEW p \in Callers, Caller(p) PROVE LaterInv'
  <2>1. CASE (\E k \in Kinds : Begin(p, k)) \/ Clone(p) \/ RecordFails(p) \/ FlushFails(p)
             \/ Flushed(p)
    BY <1>1, <2>1 DEF Begin, Clone, RecordFails, FlushFails, Flushed
  <2>2. CASE Drop(p)
    <3>1. RolloutTypeOK /\ RolloutTypeOK'
      BY <2>2, DropStep DEF RolloutInv
    <3>2. Len(chan') = Len(chan) /\ DOMAIN chan' = DOMAIN chan
          /\ \A k \in DOMAIN chan : chan'[k].items = chan[k].items
      <4>1. chan' = [k \in DOMAIN chan |-> IF chan[k].by = p THEN [chan[k] EXCEPT !.by = None]
                                                            ELSE chan[k]]
        BY <2>2 DEF Drop
      <4>2. DOMAIN chan' = DOMAIN chan
        BY <4>1
      <4>3. chan \in Seq([items : Seq(Items), by : Callers \cup {None}])
            /\ chan' \in Seq([items : Seq(Items), by : Callers \cup {None}])
        BY <3>1 DEF RolloutTypeOK
      <4>4. Len(chan') = Len(chan)
        <5>1. /\ DOMAIN chan = 1 .. Len(chan) /\ DOMAIN chan' = 1 .. Len(chan')
              /\ Len(chan) \in Nat /\ Len(chan') \in Nat
          BY <4>3
        <5> QED
          BY <4>2, <5>1
      <4>5. \A k \in DOMAIN chan : chan[k] \in [items : Seq(Items), by : Callers \cup {None}]
        <5> DEFINE C == [items : Seq(Items), by : Callers \cup {None}]
        <5>1. chan \in Seq(C)
          BY <4>3
        <5>2. \A k \in DOMAIN chan : chan[k] \in C
          <6> HIDE DEF C
          <6> QED
            BY <5>1
        <5> QED
          BY <5>2
      <4>6. \A k \in DOMAIN chan : chan'[k].items = chan[k].items
        BY <4>1, <4>5
      <4> QED
        BY <4>2, <4>4, <4>6
    <3>3. Queued' = Queued /\ Settled' = Settled
      BY <2>2, <3>2 DEF Drop, Queued, Before, Settled, OnDisk, Text
    <3> QED
      BY <3>3, LaterFrame
  <2>3. CASE Flush(p)
    <3>1. PICK c : c = [items |-> << >>, by |-> p]
      OBVIOUS
    <3>2. /\ c \in [items : Seq(Items), by : Callers \cup {None}] /\ c.items = << >>
          /\ chan' = Append(chan, c) /\ batch' = batch /\ RolloutTypeOK
      BY <2>3, <3>1 DEF Flush, RolloutInv
    <3>3. Queued' = Queued \cup {i \in Items : \E a \in DOMAIN c.items : c.items[a] = i}
      BY <3>2, QueueFacts
    <3>4. Queued' = Queued /\ Settled' = Settled
      BY <2>3, <3>2, <3>3 DEF Flush, Settled, OnDisk, Text
    <3> QED
      BY <3>4, LaterFrame
  <2>4. CASE Queue(p)
    <3>1. PICK c : c = [items |-> [k \in 1 .. Size(call[p]) |-> sent + k], by |-> None]
      OBVIOUS
    <3>2. Size(call[p]) \in 0 .. 2 /\ sent \in Nat
      BY SizeRange DEF RolloutInv, RolloutTypeOK
    <3>3. /\ chan' = Append(chan, c) /\ batch' = batch /\ RolloutTypeOK
          /\ sent' = sent + Size(call[p]) /\ sent' <= MaxItems
          /\ UNCHANGED diskVars
      BY <2>4, <3>1 DEF Queue, RolloutInv
    <3>4. /\ c \in [items : Seq(Items), by : Callers \cup {None}]
          /\ DOMAIN c.items = 1 .. Size(call[p])
          /\ \A k \in DOMAIN c.items : c.items[k] = sent + k
      <4>1. [k \in 1 .. Size(call[p]) |-> sent + k] \in [1 .. Size(call[p]) -> Items]
        BY <3>2, <3>3 DEF Items
      <4>2. Size(call[p]) \in Nat
        BY <3>2
      <4>3. [k \in 1 .. Size(call[p]) |-> sent + k] \in Seq(Items)
        <5>1. PICK g : g = [k \in 1 .. Size(call[p]) |-> sent + k]
          OBVIOUS
        <5> QED
          BY <4>1, <4>2, <5>1
      <4> QED
        BY <3>1, <4>3
    <3>5. Queued' = Queued \cup {i \in Items : \E a \in DOMAIN c.items : c.items[a] = i}
      BY <3>3, <3>4, QueueFacts
    <3>6. \A j \in Queued' : j \in Queued \/ j \in sent + 1 .. sent'
      BY <3>2, <3>3, <3>4, <3>5
    <3>7. Settled' = Settled
      BY <3>3 DEF Settled, OnDisk, Text
    <3> QED
      BY <3>6, <3>7, LaterFrame
  <2> QED
    BY <1>10, <2>1, <2>2, <2>3, <2>4 DEF Caller
<1> QED
  BY <1>3, <1>4, <1>5, <1>6, <1>7, <1>8, <1>9, <1>10 DEF Next, Writer

(* Every step of the recorder is a step of the log, or none.               *)
LEMMA LogStep ==
    ASSUME RolloutInv, LaterInv, FileInv, LoadInv, LoadInv', RolloutTypeOK', [Next]_vars
    PROVE  [Log!LogNext]_(Log!logVars)
<1> USE DEF lifeVars, diskVars, writerVars, callerVars, itemVars
<1>1. ASSUME UNCHANGED <<diskVars, sent, promised>> PROVE [Log!LogNext]_(Log!logVars)
  <2>1. Kept' = Kept /\ Broken' = Broken
    BY <1>1, BrokenSame DEF Kept, Text
  <2> QED
    BY <1>1, <2>1 DEF Log!logVars, Kept
<1>2. CASE UNCHANGED vars
  BY <1>1, <1>2 DEF vars
<1>3. CASE Start \/ TakeItems \/ Apply
  BY <1>1, <1>3 DEF Start, TakeItems, Apply
<1>4. CASE Crash \/ Stop \/ WriteFails
  <2>1. (CutLine \/ UNCHANGED diskVars) /\ UNCHANGED <<sent, promised>>
    BY <1>4 DEF Crash, Stop, WriteFails, Forget
  <2> QED
    BY <2>1, LogCut
<1>5. CASE WriteMeta
  <2>1. /\ tail = Clean /\ Put(Meta) /\ UNCHANGED <<sent, promised>>
    BY <1>5 DEF WriteMeta, RolloutInv, FirstInv
  <2>2. file' = Append(file, Meta) /\ tail' = Clean /\ spoiled' = spoiled
    BY <2>1 DEF Put
  <2>3. Kept' = Kept
    <3>1. file \in Seq(Marks) /\ file' \in Seq(Marks) /\ Meta \in Marks /\ Clean \in Marks
      <4>1. {Frag, Bad} \cup Lines \subseteq Marks /\ Lines = {Meta} \cup Items
        BY LineNumbers DEF Marks
      <4> QED
        BY <4>1 DEF RolloutInv, RolloutTypeOK, Marks
    <3>2. Filter(file', Items) = Filter(file, Items)
      BY <2>2, <3>1, KeptAt, LineNumbers
    <3>3. Kept = Filter(file, Items)
      BY <2>1, <3>1, KeptAt, LineNumbers DEF Kept, Text
    <3>4. Kept' = Filter(file', Items)
      BY <2>2, <3>1, KeptAt, LineNumbers DEF Kept, Text
    <3> QED
      BY <3>2, <3>3, <3>4
  <2>4. Broken' = Broken
    <3>1. file = << >> /\ Meta \in Lines
      BY <1>5, LineNumbers DEF WriteMeta, FileInv
    <3> QED
      BY <2>1, <3>1, BrokenPut DEF RolloutInv
  <2> QED
    BY <2>1, <2>2, <2>3, <2>4 DEF Log!logVars, Kept
<1>6. CASE WriteItem
  <2>1. PICK h : h = Head(batch)
    OBVIOUS
  <2>2. h \in Items /\ Live /\ h \in Queued /\ Put(h) /\ UNCHANGED <<sent, promised>>
    BY <1>6, <2>1, WriteItemFacts
  <2>3. \A i \in Settled \cap Items : i < h
    BY <2>2 DEF LaterInv
  <2>4. Broken' \in {Broken, TRUE} /\ (tail = Clean => Broken' = Broken)
    <3>1. h \in Lines /\ h # Meta /\ (file # << >> \/ tail # Clean)
      BY <1>6, <2>2, LineNumbers DEF WriteItem, FileInv
    <3> QED
      BY <2>2, <3>1, BrokenPut DEF RolloutInv
  <2> QED
    BY <2>2, <2>3, <2>4, LogPut
<1>7. CASE Ack
  <2>1. /\ promised \subseteq promised' /\ promised' \subseteq Items
        /\ \A i \in promised' : i \in promised \/ i \in Settled
    BY <1>7, AckFacts DEF RolloutTypeOK
  <2>2. ToSet(Kept) \cup Lost = Settled \cap Items
    BY KeptIs DEF RolloutInv
  <2>3. promised' \subseteq promised \cup ToSet(Kept) \cup Lost
    BY <2>1, <2>2
  <2>4. UNCHANGED <<diskVars, sent>> /\ Broken' = Broken /\ Kept' = Kept
    BY <1>7, BrokenSame DEF Ack, Kept, Text
  <2> QED
    BY <2>1, <2>3, <2>4 DEF Log!LogNext, Log!Promise, Log!Logged, Log!ToSet, ToSet, Kept, Lost
<1>8. ASSUME NEW p \in Callers, Caller(p) PROVE [Log!LogNext]_(Log!logVars)
  <2>1. CASE \/ (\E k \in Kinds : Begin(p, k)) \/ Clone(p) \/ RecordFails(p) \/ FlushFails(p)
             \/ Flushed(p) \/ Drop(p) \/ Flush(p)
    BY <1>1, <2>1 DEF Begin, Clone, RecordFails, FlushFails, Flushed, Drop, Flush
  <2>2. CASE Queue(p)
    <3>1. Size(call[p]) \in 0 .. 2 /\ sent \in Nat
      BY SizeRange DEF RolloutInv, RolloutTypeOK
    <3>2. /\ sent' = sent + Size(call[p]) /\ UNCHANGED <<diskVars, promised>>
          /\ Broken' = Broken /\ Kept' = Kept
      BY <2>2, BrokenSame DEF Queue, Kept, Text
    <3>3. CASE Size(call[p]) = 0
      BY <1>1, <3>1, <3>2, <3>3
    <3>4. CASE Size(call[p]) # 0
      <4>1. sent' \in {sent + 1, sent + 2}
        BY <3>1, <3>2, <3>4
      <4> QED
        BY <3>2, <4>1 DEF Log!LogNext, Log!Accept, Kept
    <3> QED
      BY <3>3, <3>4
  <2> QED
    BY <1>8, <2>1, <2>2 DEF Caller
<1> QED
  BY <1>2, <1>3, <1>4, <1>5, <1>6, <1>7, <1>8 DEF Next, Writer

(* The recorder keeps the promise of a rollout: it refines RolloutLog      *)
(* (recorder.rs:489, :718).                                                *)
THEOREM RecorderImplementsLog == Spec => ImplementsLog
<1>1. RolloutInv /\ LaterInv /\ FileInv /\ LoadInv /\ LoadInv' /\ RolloutInv' /\ [Next]_vars
      => [Log!LogNext]_(Log!logVars)
  BY LogStep DEF RolloutInv
<1>2. Spec => []LaterInv
  BY LaterInit, LaterStep, SpecInv, PTL DEF Spec
<1>3. RolloutInv /\ FileInv => LoadInv
  BY LoadIs DEF RolloutInv, LoadInv
<1> QED
  BY <1>1, <1>2, <1>3, LogInitial, SpecInv, SpecFile, PTL DEF Spec, ImplementsLog, Log!LogSpec

(* What the log promises, said of the recorder.                            *)
Rising(l) == \A i, j \in DOMAIN l : i < j => l[i] < l[j]

LEMMA StaysRising ==
    ASSUME NEW l \in Seq(Items), Rising(l)
    PROVE  /\ \A i \in Items : (\A j \in ToSet(l) : j < i) => Rising(Append(l, i))
           /\ l # << >> => Rising(Front(l)) /\ ToSet(l) = ToSet(Front(l)) \cup {Last(l)}
<1>1. ASSUME NEW i \in Items, \A j \in ToSet(l) : j < i
      PROVE  Rising(Append(l, i))
  <2>1. PICK m : m = Append(l, i)
    OBVIOUS
  <2>2. /\ Len(l) \in Nat /\ DOMAIN l = 1 .. Len(l) /\ DOMAIN m = 1 .. Len(l) + 1
        /\ \A k \in DOMAIN l : m[k] = l[k] /\ l[k] < i
        /\ m[Len(l) + 1] = i
    BY <1>1, <2>1 DEF ToSet
  <2>3. Rising(m)
    BY <2>2 DEF Rising
  <2> QED
    BY <2>1, <2>3
<1>2. ASSUME l # << >>
      PROVE  Rising(Front(l)) /\ ToSet(l) = ToSet(Front(l)) \cup {Last(l)}
  <2>1. PICK m, n : m = Front(l) /\ n = Len(l)
    OBVIOUS
  <2>2. /\ n \in Nat /\ n > 0 /\ DOMAIN l = 1 .. n /\ DOMAIN m = 1 .. n - 1
        /\ \A k \in DOMAIN m : m[k] = l[k]
    BY <1>2, <2>1 DEF Front
  <2>3. Rising(m)
    BY <2>2 DEF Rising
  <2>4. Last(l) = l[n]
    BY <2>1 DEF Last
  <2>5. ToSet(l) = ToSet(m) \cup {l[n]}
    BY <2>2 DEF ToSet
  <2> QED
    BY <2>1, <2>3, <2>4, <2>5
<1> QED
  BY <1>1, <1>2

KeptInv == Rising(Kept) /\ promised \subseteq ToSet(Kept) \cup Lost

LEMMA PromiseStep ==
    ASSUME RolloutTypeOK, KeptInv, [Log!LogNext]_(Log!logVars)
    PROVE  KeptInv' /\ (Broken => Broken')
<1>1. /\ Kept \in Seq(Items) /\ Rising(Kept) /\ promised \subseteq ToSet(Kept) \cup Lost
  BY KeptIs DEF KeptInv
<1>2. \/ /\ Kept' = Kept /\ promised' \subseteq promised \cup ToSet(Kept) \cup Lost
         /\ Lost \subseteq Lost'
      \/ /\ \E i \in Items : (\A j \in ToSet(Kept) : j < i) /\ Kept' = Append(Kept, i)
         /\ promised' = promised /\ Lost' = Lost
      \/ /\ Kept # << >> /\ Kept' = Front(Kept)
         /\ Last(Kept) \in Lost' /\ Lost \subseteq Lost' /\ promised' = promised
  <2>1. CASE Log!Accept \/ Log!Promise \/ UNCHANGED Log!logVars
    BY <2>1 DEF Log!Accept, Log!Promise, Log!logVars, Log!Logged, Log!ToSet, ToSet, Kept, Lost
  <2>2. ASSUME NEW i \in Log!Later, Log!Write(i)
        PROVE  /\ i \in Items /\ \A j \in ToSet(Kept) : j < i
               /\ Kept' = Append(Kept, i) /\ promised' = promised /\ Lost' = Lost
    BY <2>2 DEF Log!Later, Log!Write, Log!Logged, Log!ToSet, ToSet, Kept, Lost,
       RolloutTypeOK, Items
  <2>3. CASE Log!Spoil
    BY <2>3 DEF Log!Spoil, Log!Last, Log!Front, Last, Front, Kept, Lost
  <2> QED
    BY <2>1, <2>2, <2>3 DEF Log!LogNext
<1>3. Rising(Kept') /\ promised' \subseteq ToSet(Kept') \cup Lost'
  <2>1. CASE Kept' = Kept
    BY <1>1, <1>2, <2>1, StaysRising DEF ToSet
  <2>2. ASSUME NEW i \in Items, \A j \in ToSet(Kept) : j < i, Kept' = Append(Kept, i),
               promised' = promised, Lost' = Lost
        PROVE  Rising(Kept') /\ promised' \subseteq ToSet(Kept') \cup Lost'
    <3>1. PICK m : m = Append(Kept, i)
      OBVIOUS
    <3>2. /\ DOMAIN m = 1 .. Len(Kept) + 1 /\ DOMAIN Kept = 1 .. Len(Kept) /\ Len(Kept) \in Nat
          /\ \A k \in DOMAIN Kept : m[k] = Kept[k]
      BY <1>1, <3>1
    <3>3. ToSet(Kept) \subseteq ToSet(m)
      BY <3>2 DEF ToSet
    <3>4. Rising(m)
      BY <1>1, <2>2, <3>1, StaysRising
    <3> QED
      BY <1>1, <2>2, <3>1, <3>3, <3>4
  <2>3. ASSUME Kept # << >>, Kept' = Front(Kept), Last(Kept) \in Lost', Lost \subseteq Lost',
               promised' = promised
        PROVE  Rising(Kept') /\ promised' \subseteq ToSet(Kept') \cup Lost'
    BY <1>1, <2>3, StaysRising
  <2> QED
    BY <1>2, <2>1, <2>2, <2>3
<1>4. Broken' = Broken \/ Broken' = TRUE
  BY DEF Log!LogNext, Log!Accept, Log!Write, Log!Promise, Log!Spoil, Log!logVars
<1> QED
  BY <1>3, <1>4 DEF KeptInv

LEMMA SpecKept == Spec => []KeptInv
<1>1. Log!LogInit => KeptInv
  BY DEF Log!LogInit, KeptInv, Rising, Kept
<1>2. RolloutTypeOK /\ KeptInv /\ [Log!LogNext]_(Log!logVars) => KeptInv'
  BY PromiseStep
<1> QED
  BY <1>1, <1>2, RolloutTypes, RecorderImplementsLog, PTL DEF ImplementsLog, Log!LogSpec

(* What is read back is in the order in which it was accepted, each item   *)
(* once, and holds all that was promised but what an append behind a cut   *)
(* line destroyed, unless the file is broken for its readers               *)
(* (recorder.rs:489).                                                      *)
THEOREM ReadBackCorrect == Spec => [](Log!InOrder /\ Log!Honoured)
<1>1. KeptInv => Log!InOrder /\ Log!Honoured
  BY DEF KeptInv, Rising, Log!InOrder, Log!Honoured, Log!Got, Log!ToSet, ToSet, Kept, Lost
<1> QED BY <1>1, SpecKept, PTL

(* What is broken for its readers stays broken: no later life loads the    *)
(* file again (recorder.rs:493, :514).                                     *)
THEOREM BrokenForEver == Spec => [][Broken => Broken']_vars
<1>1. RolloutTypeOK /\ KeptInv /\ [Log!LogNext]_(Log!logVars) => (Broken => Broken')
  BY PromiseStep
<1> QED
  BY <1>1, SpecKept, RolloutTypes, RecorderImplementsLog, PTL DEF ImplementsLog, Log!LogSpec
=============================================================================
