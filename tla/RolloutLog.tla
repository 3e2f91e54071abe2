----------------------------- MODULE RolloutLog ------------------------------
(***************************************************************************)
(* What a rollout promises to those who read it back: items are numbered   *)
(* as they are accepted, the log holds some of them, each once and in that *)
(* order, and an item that was promised stays.  There are two exceptions,  *)
(* both due to an interrupted write (RolloutRecorder refines this module): *)
(* the append after it can destroy an item of its own and a last item that *)
(* nobody was promised; and the log may be broken for its readers, who get *)
(* nothing of it then or ever after.                                       *)
(***************************************************************************)
EXTENDS Integers, Sequences, SequencesExt

VARIABLES
    log,        \* the items the log holds
    accepted,   \* number of items accepted so far
    promised,   \* items whose flush was acknowledged
    lost,       \* items that an append destroyed
    broken      \* readers get an error

logVars == <<log, accepted, promised, lost, broken>>

LogInit == log = << >> /\ accepted = 0 /\ promised = {} /\ lost = {} /\ broken = FALSE

Logged == ToSet(log)

Later == {i \in 1 .. accepted : \A j \in Logged \cup lost : j < i}

Accept ==
    /\ accepted' \in {accepted + 1, accepted + 2}
    /\ UNCHANGED <<log, promised, lost, broken>>

Write(i) ==
    /\ log' = Append(log, i)
    /\ UNCHANGED <<accepted, promised, lost, broken>>

Promise ==
    /\ promised \subseteq promised'
    /\ promised' \subseteq promised \cup Logged \cup lost
    /\ UNCHANGED <<log, accepted, lost, broken>>

Spoil ==
    /\ \E s \in SUBSET Later :
          \/ log' = log /\ lost' = lost \cup s
          \/ /\ log # << >> /\ Last(log) \notin promised
             /\ log' = Front(log) /\ lost' = lost \cup s \cup {Last(log)}
    /\ broken' \in {broken, TRUE}
    /\ UNCHANGED <<accepted, promised>>

LogNext == Accept \/ Promise \/ Spoil \/ \E i \in Later : Write(i)

LogSpec == LogInit /\ [][LogNext]_logVars

(* What a reader gets, now or later.                                       *)
Got == IF broken THEN << >> ELSE log

(* What follows from it: items are read back in the order in which they    *)
(* were accepted, each once; and what was promised is read back, or an     *)
(* append destroyed it, or the log is broken.                              *)
InOrder == \A i, j \in DOMAIN Got : i < j => Got[i] < Got[j]
Honoured == broken \/ promised \subseteq ToSet(Got) \cup lost
=============================================================================
