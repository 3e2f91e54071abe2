------------------------- MODULE UnifiedExecProofs --------------------------
(***************************************************************************)
(* Proofs about UnifiedExec, for every number of execs, ids and limits.    *)
(*                                                                         *)
(* Which process an id stands for follows from two facts: the ids of the   *)
(* store are distinct, and an entry that shares its id with the call in    *)
(* flight, or whose id is not reserved, is loose.                          *)
(***************************************************************************)
EXTENDS UnifiedExec, FiniteSetTheorems, TLAPS

USE ExecAssumption

Fresh == {"reserved", "open", "begin", "store", "short", "release"}

(* Where the call in flight stands with the process it is about.           *)
CallInv ==
    /\ stored \cup closing \cup begun \subseteq 1 .. drawn
    /\ stage = "idle" <=> at = None
    /\ at \in 0 .. drawn
    /\ stage \in Fresh => at \notin stored \cup closing
    /\ stage \in Fresh \cup {"warn"} => watcher[at] = "none"
    /\ stage \in {"reserved", "open"} => os[at] = "none"
    /\ stage \in {"reserved", "open", "begin"} => at \notin begun
    /\ stage \in {"begin", "store"} => os[at] \in {"live", "exited"}
    /\ stage \in {"store", "warn", "short"} => at \in begun /\ ends[at] = 0
    /\ stage \in {"short", "release"} => Dead(at)
    /\ stage = "release" => at \in begun

(* Beyond the execs drawn there is nothing.                                *)
DrawnInv ==
    \A e \in Execs :
        /\ e > drawn => os[e] = "none" /\ watcher[e] = "none"
        /\ e \notin begun => ends[e] = 0 /\ watcher[e] = "none"
        /\ e \in begun => os[e] # "none"

(* Ids and what they stand for.                                            *)
IdInv ==
    /\ \A e, f \in stored : id[e] = id[f] => e = f
    /\ \A e \in stored : e \in loose \/ id[e] \in reserved
    /\ stage \in Fresh => at \in loose \/ id[at] \in reserved
    /\ stage \in Fresh => \A e \in stored : id[e] = id[at] => e \in loose

(* Ends and watchers.                                                      *)
EndInv ==
    /\ \A e \in Execs : watcher[e] = "waiting" => ends[e] = 0
    /\ EndOnce
    /\ EndOwed

ExecInv == ExecTypeOK /\ CallInv /\ DrawnInv /\ IdInv /\ EndInv /\ LiveIsKept

LEMMA ExecNumbers == Execs \subseteq Nat /\ None \notin Execs
  BY DEF Execs, None

(* ToPrune only ever names entries of the store.                           *)
LEMMA PrunedStored == Pruned \subseteq stored
  BY DEF Pruned, ToPrune, Oldest, Prunable

LEMMA SinceType ==
    ASSUME ExecTypeOK, NEW s \in SUBSET Execs, NEW e \in Execs
    PROVE  /\ Touched(s, e) \in [Execs -> SUBSET Execs]
           /\ Left(s) \in [Execs -> SUBSET Execs]
  BY DEF Touched, Left, ExecTypeOK

LEMMA TerminatedType ==
    ASSUME ExecTypeOK, NEW s
    PROVE  /\ Terminated(s) \in [Execs -> {"none", "live", "exited", "killed"}]
           /\ \A e \in Execs : /\ Terminated(s)[e] = "live" <=> os[e] = "live" /\ e \notin s
                               /\ Terminated(s)[e] = "none" <=> os[e] = "none"
                               /\ Dead(e) => Terminated(s)[e] \in {"exited", "killed"}
                               /\ Terminated(s)[e] = "exited" <=> os[e] = "exited"
  BY DEF Terminated, ExecTypeOK, Dead

LEMMA InitInv == Init => ExecInv
  BY ExecNumbers DEF Init, ExecInv, ExecTypeOK, CallInv, DrawnInv, IdInv, EndInv,
     EndOnce, EndOwed, LiveIsKept,
     Under, Fresh, Stages, Dead, None

LEMMA AtDrawn ==
    ASSUME ExecTypeOK, CallInv, stage # "idle"
    PROVE  at \in Execs /\ at \in 1 .. drawn
  BY DEF CallInv, None, Execs, ExecTypeOK

(* What the removal of an id changes, while the call holds an exec that is *)
(* not stored, or knows that nothing else is under its id.                 *)
LEMMA RemovePreserves ==
    ASSUME ExecInv, stage # "idle", RemoveId(id[at]), stage' = "idle", at' = None,
           stage \in {"reserved", "open", "release"}
             \/ (stage \in {"poll", "write"} /\ \E e \in Under(id[at]) : os[e] = "exited"),
           UNCHANGED <<id, eventVars, drawn, closeVars, ghostVars>>
    PROVE  ExecInv'
<1> DEFINE i == id[at]
<1> USE DEF ExecInv
<1>0. at \in Execs /\ at \in 1 .. drawn
  BY AtDrawn
<1>1. /\ stored' = stored \ Under(i) /\ reserved' = reserved \ {i}
      /\ os' = Terminated(Freed(Under(i))) /\ since' = Left(stored')
      /\ id' = id /\ watcher' = watcher /\ begun' = begun /\ ends' = ends /\ drawn' = drawn
      /\ closing' = closing /\ closes' = closes /\ loose' = loose /\ dropped' = dropped
  BY DEF RemoveId, eventVars, closeVars, ghostVars
<1> HIDE DEF i
<1>2. ExecTypeOK'
  <2>1. stored' \in SUBSET Execs /\ reserved' \subseteq Ids
    BY <1>1 DEF ExecTypeOK
  <2>2. since' \in [Execs -> SUBSET Execs]
    BY <1>0, <1>1, <2>1, SinceType
  <2>3. os' \in [Execs -> {"none", "live", "exited", "killed"}]
    BY <1>1, TerminatedType
  <2> QED BY <1>1, <2>1, <2>2, <2>3 DEF ExecTypeOK, Stages
<1>3. \A e \in Under(i) : e \in loose \/ os[e] = "exited"
  BY DEF IdInv, Fresh, Under, i
<1>4. CallInv'
  <2>1. stored' \cup closing' \cup begun' \subseteq 1 .. drawn'
    BY <1>1 DEF CallInv
  <2>2. at' \in 0 .. drawn' /\ drawn' \in Nat
    BY <1>1 DEF ExecTypeOK, None
  <2> QED BY <2>1, <2>2 DEF CallInv, Fresh, None
<1>8. DrawnInv'
  BY <1>1, TerminatedType DEF DrawnInv
<1>5. IdInv'
  BY <1>1 DEF IdInv, Fresh, Under
<1>6. EndInv'
  BY <1>1, TerminatedType DEF EndInv, EndOnce, EndOwed, Dead, CallInv
<1>7. LiveIsKept'
  <2> SUFFICES ASSUME NEW e \in Execs, os'[e] = "live" PROVE e \in stored' \cup closing' \cup loose'
    BY DEF LiveIsKept
  <2>1. os[e] = "live" /\ e \notin Freed(Under(i))
    BY <1>1, TerminatedType
  <2>2. CASE at = e /\ stage \in {"begin", "store"}
    BY <2>2
  <2>3. CASE e \in stored \cup closing \cup loose
    BY <2>1, <2>3, <1>1, <1>3
  <2> QED BY <2>1, <2>2, <2>3 DEF LiveIsKept
<1> QED BY <1>2, <1>4, <1>5, <1>6, <1>7, <1>8

(* A call that owes nothing and leaves the store alone just returns.       *)
LEMMA ReturnPreserves ==
    ASSUME ExecInv, stage \in {"reserved", "poll", "write"}, stage' = "idle", at' = None,
           UNCHANGED <<storeVars, id, os, eventVars, drawn, closeVars, ghostVars>>
    PROVE  ExecInv'
<1> USE DEF ExecInv
<1> USE DEF storeVars, eventVars, closeVars, ghostVars
<1>1. ExecTypeOK' BY DEF ExecTypeOK, Stages
<1>2. CallInv'
  <2>1. stored' \cup closing' \cup begun' \subseteq 1 .. drawn' BY DEF CallInv
  <2>2. at' \in 0 .. drawn' /\ drawn' \in Nat BY DEF ExecTypeOK, None
  <2> QED BY <2>1, <2>2 DEF CallInv, Fresh, None
<1>3. DrawnInv' BY DEF DrawnInv
<1>4. IdInv' BY DEF IdInv, Fresh
<1>5. EndInv' BY DEF EndInv, EndOnce, EndOwed, Dead
<1>6. LiveIsKept' BY DEF LiveIsKept
<1> QED BY <1>1, <1>2, <1>3, <1>4, <1>5, <1>6

(* The drawn id is nobody's: an entry that has it is loose.                *)
LEMMA AllocateStep ==
    ASSUME ExecInv, NEW i \in Ids, Allocate(i)
    PROVE  ExecInv'
<1> USE DEF ExecInv
<1>0. /\ drawn + 1 \in Execs /\ drawn' = drawn + 1 /\ at' = drawn + 1
      /\ drawn + 1 \notin stored \cup closing \cup begun
  BY DEF CallInv, Execs, ExecTypeOK, Allocate
<1>1. ExecTypeOK'
  BY <1>0 DEF ExecTypeOK, Stages, Allocate, In, eventVars, closeVars, ghostVars
<1>2. CallInv'
  <2>1. stored' \cup closing' \cup begun' \subseteq 1 .. drawn'
    BY <1>0, ExecNumbers DEF CallInv, ExecTypeOK, Allocate, In, eventVars, closeVars,
       ghostVars
  <2>2. os[drawn + 1] = "none" /\ watcher[drawn + 1] = "none" /\ drawn + 1 # None /\ drawn + 1 \in 0 .. drawn'
    BY <1>0, ExecNumbers DEF DrawnInv, ExecTypeOK, None
  <2> QED BY <1>0, <2>1, <2>2 DEF CallInv, Fresh, Allocate, In, eventVars, closeVars, ghostVars
<1>3. DrawnInv'
  BY <1>0, ExecNumbers DEF DrawnInv, ExecTypeOK, CallInv, Fresh, Allocate, In, eventVars,
     closeVars, ghostVars
<1>4. IdInv'
  BY <1>0, ExecNumbers DEF IdInv, Fresh, Under, ExecTypeOK, CallInv, Allocate, In,
     eventVars, closeVars, ghostVars
<1>5. EndInv'
  BY <1>0 DEF EndInv, EndOnce, EndOwed, Dead, CallInv, DrawnInv, Fresh, ExecTypeOK,
     Allocate, In, eventVars, closeVars, ghostVars
<1>6. LiveIsKept'
  BY <1>0 DEF LiveIsKept, CallInv, Fresh, ExecTypeOK, Allocate, In, eventVars, closeVars,
     ghostVars
<1> QED BY <1>1, <1>2, <1>3, <1>4, <1>5, <1>6

(* The handler passes the call on, or ends it.                             *)
LEMMA HandleStep ==
    ASSUME ExecInv, Handle
    PROVE  ExecInv'
<1>1. CASE Return /\ RemoveId(id[at])
  BY <1>1, RemovePreserves DEF Handle, In, Return
<1>2. CASE Return /\ UNCHANGED <<storeVars, os>>
  BY <1>2, ReturnPreserves DEF Handle, In, Return
<1>3. CASE Go("open") /\ UNCHANGED <<storeVars, os>>
  <2> USE DEF ExecInv, storeVars, eventVars, closeVars, ghostVars, Handle, In, Go
  <2>1. ExecTypeOK' BY <1>3 DEF ExecTypeOK, Stages
  <2>2. CallInv' BY <1>3 DEF CallInv, Fresh
  <2>3. DrawnInv' BY <1>3 DEF DrawnInv
  <2>4. IdInv' BY <1>3 DEF IdInv, Fresh
  <2>5. EndInv' BY <1>3 DEF EndInv, EndOnce, EndOwed, Dead
  <2>6. LiveIsKept' BY <1>3 DEF LiveIsKept
  <2> QED BY <2>1, <2>2, <2>3, <2>4, <2>5, <2>6
<1> QED BY <1>1, <1>2, <1>3 DEF Handle

(* A failed open releases the id.                                          *)
LEMMA OpenFailsStep ==
    ASSUME ExecInv, OpenFails
    PROVE  ExecInv'
  BY RemovePreserves DEF OpenFails, In, Return

(* The process is there, in the hands of its call.                         *)
LEMMA OpenStep ==
    ASSUME ExecInv, Open
    PROVE  ExecInv'
<1> USE DEF ExecInv
<1>0. at \in Execs /\ at \in 1 .. drawn /\ stage # "idle"
  BY AtDrawn DEF Open, In
<1>1. ExecTypeOK'
  BY <1>0 DEF ExecTypeOK, Stages, Open, In, Go, storeVars, eventVars, closeVars, ghostVars
<1>2. CallInv'
  BY <1>0, ExecNumbers DEF CallInv, Fresh, Dead, None, ExecTypeOK, Open, In, Go,
     storeVars, eventVars, closeVars, ghostVars
<1>3. DrawnInv'
  BY <1>0, ExecNumbers DEF DrawnInv, ExecTypeOK, CallInv, Fresh, Open, In, Go, storeVars,
     eventVars, closeVars, ghostVars
<1>4. IdInv'
  BY <1>0, ExecNumbers DEF IdInv, Fresh, Under, ExecTypeOK, CallInv, Open, In, Go,
     storeVars, eventVars, closeVars, ghostVars
<1>5. EndInv'
  BY <1>0 DEF EndInv, EndOnce, EndOwed, Dead, CallInv, DrawnInv, Fresh, ExecTypeOK, Open,
     In, Go, storeVars, eventVars, closeVars, ghostVars
<1>6. LiveIsKept'
  BY <1>0 DEF LiveIsKept, CallInv, Fresh, ExecTypeOK, Open, In, Go, storeVars, eventVars,
     closeVars, ghostVars
<1> QED BY <1>1, <1>2, <1>3, <1>4, <1>5, <1>6

(* From Begin on the call owes an End.                                     *)
LEMMA BeginStep ==
    ASSUME ExecInv, Begin
    PROVE  ExecInv'
<1> USE DEF ExecInv
<1>0. at \in Execs /\ at \in 1 .. drawn /\ stage # "idle"
  BY AtDrawn DEF Begin, In
<1>1. ExecTypeOK'
  BY <1>0 DEF ExecTypeOK, Stages, Begin, In, Go, storeVars, closeVars, ghostVars
<1>2. CallInv'
  <2>1. stored' \cup closing' \cup begun' \subseteq 1 .. drawn' /\ at' = at /\ at \in 0 .. drawn' /\ at # None
    BY <1>0, ExecNumbers DEF CallInv, ExecTypeOK, None, Begin, In, Go, storeVars,
       closeVars, ghostVars
  <2>2. os[at] \in {"live", "exited"} /\ ends[at] = 0 /\ watcher[at] = "none" /\ at \notin stored \cup closing
    BY <1>0 DEF CallInv, DrawnInv, Fresh, Begin, In, Go, storeVars, closeVars, ghostVars
  <2> QED BY <1>0, <2>1, <2>2 DEF CallInv, Fresh, Dead, Begin, In, Go, storeVars, closeVars, ghostVars
<1>3. DrawnInv'
  BY <1>0, ExecNumbers DEF DrawnInv, ExecTypeOK, CallInv, Fresh, Begin, In, Go,
     storeVars, closeVars, ghostVars
<1>4. IdInv'
  BY <1>0, ExecNumbers DEF IdInv, Fresh, Under, ExecTypeOK, CallInv, Begin, In, Go,
     storeVars, closeVars, ghostVars
<1>5. EndInv'
  BY <1>0 DEF EndInv, EndOnce, EndOwed, Dead, CallInv, DrawnInv, Fresh, ExecTypeOK,
     Begin, In, Go, storeVars, closeVars, ghostVars
<1>6. LiveIsKept'
  BY <1>0 DEF LiveIsKept, CallInv, Fresh, ExecTypeOK, Begin, In, Go, storeVars,
     closeVars, ghostVars
<1> QED BY <1>1, <1>2, <1>3, <1>4, <1>5, <1>6

(* An entry that shares the id of the call in flight may be lost to it:    *)
(* it is loose.                                                            *)
LEMMA StoreStep ==
    ASSUME ExecInv, Store
    PROVE  ExecInv'
<1> USE DEF ExecInv
<1> DEFINE unreserved == {id[e] : e \in Pruned}
           gone == Pruned \cup Under(id[at])
           kept == (stored \ gone) \cup {at}
           killed == Pruned \cup Freed(gone)
<1>0. at \in Execs /\ at \in 1 .. drawn /\ stage = "store"
  BY AtDrawn DEF Store, In
<1>1. /\ reserved' = reserved \ unreserved /\ stored' = kept /\ since' = Touched(kept, at)
      /\ loose' = IF id[at] \in unreserved THEN loose \cup {at} ELSE loose
      /\ os' = Terminated(killed)
      /\ at' = at /\ id' = id /\ begun' = begun /\ ends' = ends /\ drawn' = drawn
      /\ closing' = closing /\ closes' = closes /\ dropped' = dropped
  BY DEF Store, Go, closeVars
<1>2. \/ stage' = "warn" /\ watcher' = watcher
      \/ stage' = "poll" /\ watcher' = [watcher EXCEPT ![at] = "waiting"]
  BY DEF Store, Go
<1>3. /\ Pruned \subseteq stored /\ Under(id[at]) = {e \in stored : id[e] = id[at]}
      /\ Under(id[at]) \subseteq loose
  BY <1>0, PrunedStored DEF Under, IdInv, Fresh
<1>4. /\ at \notin stored \cup closing /\ watcher[at] = "none" /\ os[at] \in {"live", "exited"}
      /\ at \in begun /\ ends[at] = 0 /\ (at \in loose \/ id[at] \in reserved)
  BY <1>0 DEF CallInv, IdInv, Fresh
<1>5. kept \in SUBSET Execs /\ loose \subseteq loose' /\ loose' \subseteq Execs
  BY <1>0, <1>1 DEF ExecTypeOK
<1>6. \A e \in Execs : os'[e] = "live" => os[e] = "live" /\ e \notin killed
  BY <1>1, TerminatedType
<1>11. ExecTypeOK'
  <2>1. since' \in [Execs -> SUBSET Execs]
    BY <1>0, <1>1, <1>5, SinceType
  <2>2. os' \in [Execs -> {"none", "live", "exited", "killed"}]
    BY <1>1, TerminatedType
  <2>3. watcher' \in [Execs -> {"none", "waiting", "done"}] /\ stage' \in Stages
    BY <1>2 DEF ExecTypeOK, Stages
  <2>4. reserved' \subseteq Ids /\ stored' \subseteq Execs
    BY <1>1, <1>5 DEF ExecTypeOK
  <2> HIDE DEF kept, killed, gone, unreserved
  <2> QED BY <1>1, <1>5, <2>1, <2>2, <2>3, <2>4 DEF ExecTypeOK
<1>12. CallInv'
  <2>1. stored' \cup closing' \cup begun' \subseteq 1 .. drawn' /\ at' # None /\ at' \in 0 .. drawn'
    BY <1>0, <1>1, <1>3 DEF CallInv, None
  <2>2. stage' = "warn" => watcher'[at'] = "none"
    BY <1>1, <1>2, <1>4
  <2> QED BY <1>1, <1>2, <1>4, <2>1, <2>2 DEF CallInv, Fresh
<1>13. DrawnInv'
  BY <1>0, <1>1, <1>2, <1>4, TerminatedType DEF DrawnInv, ExecTypeOK
<1>14. IdInv'
  <2>1. \A e, f \in stored' : id'[e] = id'[f] => e = f
    BY <1>1, <1>3 DEF IdInv
  <2>2. \A e \in stored' : e \in loose' \/ id'[e] \in reserved'
    <3>1. ASSUME NEW e \in stored', e # at PROVE e \in loose' \/ id'[e] \in reserved'
      <4>1. e \in stored /\ e \notin Pruned
        BY <1>1, <3>1
      <4>2. id[e] \notin unreserved
        BY <4>1, <1>3 DEF IdInv
      <4> QED BY <4>1, <4>2, <1>1, <1>5 DEF IdInv
    <3>2. at \in loose' \/ id'[at] \in reserved'
      BY <1>1, <1>4
    <3> QED BY <3>1, <3>2
  <2> QED BY <1>1, <1>2, <2>1, <2>2 DEF IdInv, Fresh
<1>15. EndInv'
  BY <1>0, <1>1, <1>2, <1>4, TerminatedType DEF EndInv, EndOnce, EndOwed, Dead, ExecTypeOK
<1>16. LiveIsKept'
  <2> SUFFICES ASSUME NEW e \in Execs, os'[e] = "live" PROVE e \in stored' \cup closing' \cup loose'
    BY DEF LiveIsKept
  <2>1. os[e] = "live" /\ e \notin killed
    BY <1>6
  <2>2. CASE e \in stored
    BY <2>1, <2>2, <1>1, <1>3, <1>5
  <2>3. CASE e \notin stored
    BY <2>1, <2>3, <1>0, <1>1, <1>5 DEF LiveIsKept
  <2> QED BY <2>2, <2>3
<1> QED BY <1>11, <1>12, <1>13, <1>14, <1>15, <1>16

(* The watcher takes the End over from the call.                           *)
LEMMA WarnStep ==
    ASSUME ExecInv, Warn
    PROVE  ExecInv'
<1> USE DEF ExecInv
<1>0. at \in Execs /\ at \in 1 .. drawn /\ stage # "idle"
  BY AtDrawn DEF Warn, In
<1>1. ExecTypeOK'
  BY <1>0 DEF ExecTypeOK, Stages, Warn, In, Go, storeVars, closeVars, ghostVars
<1>2. CallInv'
  BY <1>0, ExecNumbers DEF CallInv, Fresh, Dead, None, ExecTypeOK, Warn, In, Go,
     storeVars, closeVars, ghostVars
<1>3. DrawnInv'
  BY <1>0, ExecNumbers DEF DrawnInv, ExecTypeOK, CallInv, Fresh, Warn, In, Go, storeVars,
     closeVars, ghostVars
<1>4. IdInv'
  BY <1>0, ExecNumbers DEF IdInv, Fresh, Under, ExecTypeOK, CallInv, Warn, In, Go,
     storeVars, closeVars, ghostVars
<1>5. EndInv'
  BY <1>0 DEF EndInv, EndOnce, EndOwed, Dead, CallInv, DrawnInv, Fresh, ExecTypeOK, Warn,
     In, Go, storeVars, closeVars, ghostVars
<1>6. LiveIsKept'
  BY <1>0 DEF LiveIsKept, CallInv, Fresh, ExecTypeOK, Warn, In, Go, storeVars, closeVars,
     ghostVars
<1> QED BY <1>1, <1>2, <1>3, <1>4, <1>5, <1>6

(* The entry under the id of a poll is the polled one.                     *)
LEMMA RefreshStep ==
    ASSUME ExecInv, Refresh
    PROVE  ExecInv'
<1>1. CASE \E e \in Under(id[at]) : os[e] = "exited"
  BY <1>1, RemovePreserves DEF Refresh, Return
<1>2. CASE ~ \E e \in Under(id[at]) : os[e] = "exited"
  BY <1>2, ReturnPreserves DEF Refresh, Return
<1> QED BY <1>1, <1>2

(* The call sends the End it owes.                                         *)
LEMMA EndShortStep ==
    ASSUME ExecInv, EndShort
    PROVE  ExecInv'
<1> USE DEF ExecInv
<1>0. at \in Execs /\ at \in 1 .. drawn /\ stage # "idle"
  BY AtDrawn DEF EndShort, In
<1>7. ends[at] + 1 \in 0 .. 2
  BY DEF CallInv, EndShort, In
<1>1. ExecTypeOK'
  BY <1>0, <1>7 DEF ExecTypeOK, Stages, EndShort, In, Go, storeVars, closeVars, ghostVars
<1>2. CallInv'
  BY <1>0, ExecNumbers DEF CallInv, Fresh, Dead, None, ExecTypeOK, EndShort, In, Go,
     storeVars, closeVars, ghostVars
<1>3. DrawnInv'
  BY <1>0, ExecNumbers DEF DrawnInv, ExecTypeOK, CallInv, Fresh, EndShort, In, Go,
     storeVars, closeVars, ghostVars
<1>4. IdInv'
  BY <1>0, ExecNumbers DEF IdInv, Fresh, Under, ExecTypeOK, CallInv, EndShort, In, Go,
     storeVars, closeVars, ghostVars
<1>5. EndInv'
  BY <1>0 DEF EndInv, EndOnce, EndOwed, Dead, CallInv, DrawnInv, Fresh, ExecTypeOK,
     EndShort, In, Go, storeVars, closeVars, ghostVars
<1>6. LiveIsKept'
  BY <1>0 DEF LiveIsKept, CallInv, Fresh, ExecTypeOK, EndShort, In, Go, storeVars,
     closeVars, ghostVars
<1> QED BY <1>1, <1>2, <1>3, <1>4, <1>5, <1>6

(* An exec that is over releases its id.                                   *)
LEMMA ReleaseStep ==
    ASSUME ExecInv, Release
    PROVE  ExecInv'
  BY RemovePreserves DEF Release, In, Return

(* A process in the hands of a dropped call dies with it.                  *)
LEMMA DropStep ==
    ASSUME ExecInv, Drop
    PROVE  ExecInv'
<1> USE DEF ExecInv
<1>0. at \in Execs /\ at \in 1 .. drawn /\ stage # "idle"
  BY AtDrawn DEF Drop, In
<1>1. ExecTypeOK'
  BY <1>0, TerminatedType DEF ExecTypeOK, Stages, Drop, Return, storeVars, eventVars,
     closeVars
<1>2. CallInv'
  BY <1>0, TerminatedType, ExecNumbers DEF CallInv, Fresh, Dead, None, ExecTypeOK, Drop,
     Return, storeVars, eventVars, closeVars
<1>3. DrawnInv'
  BY <1>0, TerminatedType, ExecNumbers DEF DrawnInv, ExecTypeOK, CallInv, Fresh, Drop,
     Return, storeVars, eventVars, closeVars
<1>4. IdInv'
  BY <1>0, ExecNumbers DEF IdInv, Fresh, Under, ExecTypeOK, CallInv, Drop, Return,
     storeVars, eventVars, closeVars
<1>5. EndInv'
  BY <1>0, TerminatedType DEF EndInv, EndOnce, EndOwed, Dead, CallInv, DrawnInv, Fresh,
     ExecTypeOK, Drop, Return, storeVars, eventVars, closeVars
<1>6. LiveIsKept'
  BY <1>0, TerminatedType DEF LiveIsKept, CallInv, Fresh, ExecTypeOK, Drop, Return,
     storeVars, eventVars, closeVars
<1> QED BY <1>1, <1>2, <1>3, <1>4, <1>5, <1>6

(* Using an entry changes nothing but the order.                           *)
LEMMA WriteStep ==
    ASSUME ExecInv, NEW e \in Execs, Write(e)
    PROVE  ExecInv'
<1> USE DEF ExecInv
<1>7. since' \in [Execs -> SUBSET Execs]
  BY SinceType DEF ExecTypeOK, Write
<1>1. ExecTypeOK'
  BY <1>7 DEF ExecTypeOK, Stages, Write, In, eventVars, closeVars, ghostVars
<1>2. CallInv'
  BY ExecNumbers DEF CallInv, Fresh, Dead, None, ExecTypeOK, Write, In, eventVars,
     closeVars, ghostVars
<1>3. DrawnInv'
  BY ExecNumbers DEF DrawnInv, ExecTypeOK, CallInv, Fresh, Write, In, eventVars,
     closeVars, ghostVars
<1>4. IdInv'
  BY ExecNumbers DEF IdInv, Fresh, Under, ExecTypeOK, CallInv, Write, In, eventVars,
     closeVars, ghostVars
<1>5. EndInv'
  BY DEF EndInv, EndOnce, EndOwed, Dead, CallInv, DrawnInv, Fresh, ExecTypeOK, Write, In,
     eventVars, closeVars, ghostVars
<1>6. LiveIsKept'
  BY DEF LiveIsKept, CallInv, Fresh, ExecTypeOK, Write, In, eventVars, closeVars,
     ghostVars
<1> QED BY <1>1, <1>2, <1>3, <1>4, <1>5, <1>6

(* What is drained is kept to be terminated; the call in flight is loose.  *)
LEMMA DrainStoreStep ==
    ASSUME ExecInv, DrainStore
    PROVE  ExecInv'
<1> USE DEF ExecInv
<1>7. since' \in [Execs -> SUBSET Execs]
  BY DEF ExecTypeOK, DrainStore, Left
<1>8. loose' \subseteq Execs
  BY AtDrawn DEF ExecTypeOK, DrainStore
<1>9. closes' \in 0 .. MaxClose /\ closing' \subseteq Execs
  BY DEF ExecTypeOK, DrainStore
<1>1. ExecTypeOK'
  BY <1>7, <1>8, <1>9 DEF ExecTypeOK, Stages, DrainStore, eventVars
<1>2. CallInv'
  BY ExecNumbers DEF CallInv, Fresh, Dead, None, ExecTypeOK, DrainStore, eventVars
<1>3. DrawnInv'
  BY ExecNumbers DEF DrawnInv, ExecTypeOK, CallInv, Fresh, DrainStore, eventVars
<1>4. IdInv'
  BY ExecNumbers DEF IdInv, Fresh, Under, ExecTypeOK, CallInv, DrainStore, eventVars
<1>5. EndInv'
  BY DEF EndInv, EndOnce, EndOwed, Dead, CallInv, DrawnInv, Fresh, ExecTypeOK,
     DrainStore, eventVars
<1>6. LiveIsKept'
  BY DEF LiveIsKept, CallInv, Fresh, ExecTypeOK, DrainStore, eventVars
<1> QED BY <1>1, <1>2, <1>3, <1>4, <1>5, <1>6

(* What was drained dies.                                                  *)
LEMMA TerminateDrainedStep ==
    ASSUME ExecInv, TerminateDrained
    PROVE  ExecInv'
<1> USE DEF ExecInv
<1>1. ExecTypeOK'
  BY TerminatedType DEF ExecTypeOK, Stages, TerminateDrained, storeVars, eventVars,
     ghostVars
<1>2. CallInv'
  BY TerminatedType, ExecNumbers DEF CallInv, Fresh, Dead, None, ExecTypeOK,
     TerminateDrained, storeVars, eventVars, ghostVars
<1>3. DrawnInv'
  BY TerminatedType, ExecNumbers DEF DrawnInv, ExecTypeOK, CallInv, Fresh,
     TerminateDrained, storeVars, eventVars, ghostVars
<1>4. IdInv'
  BY ExecNumbers DEF IdInv, Fresh, Under, ExecTypeOK, CallInv, TerminateDrained,
     storeVars, eventVars, ghostVars
<1>5. EndInv'
  BY TerminatedType DEF EndInv, EndOnce, EndOwed, Dead, CallInv, DrawnInv, Fresh,
     ExecTypeOK, TerminateDrained, storeVars, eventVars, ghostVars
<1>6. LiveIsKept'
  BY TerminatedType DEF LiveIsKept, CallInv, Fresh, ExecTypeOK, TerminateDrained,
     storeVars, eventVars, ghostVars
<1> QED BY <1>1, <1>2, <1>3, <1>4, <1>5, <1>6

(* A process exits.                                                        *)
LEMMA ExitStep ==
    ASSUME ExecInv, NEW e \in Execs, Exit(e)
    PROVE  ExecInv'
<1> USE DEF ExecInv
<1>1. ExecTypeOK'
  BY DEF ExecTypeOK, Stages, Exit, storeVars, eventVars, closeVars, ghostVars
<1>2. CallInv'
  BY ExecNumbers DEF CallInv, Fresh, Dead, None, ExecTypeOK, Exit, storeVars, eventVars,
     closeVars, ghostVars
<1>3. DrawnInv'
  BY ExecNumbers DEF DrawnInv, ExecTypeOK, CallInv, Fresh, Exit, storeVars, eventVars,
     closeVars, ghostVars
<1>4. IdInv'
  BY ExecNumbers DEF IdInv, Fresh, Under, ExecTypeOK, CallInv, Exit, storeVars,
     eventVars, closeVars, ghostVars
<1>5. EndInv'
  BY DEF EndInv, EndOnce, EndOwed, Dead, CallInv, DrawnInv, Fresh, ExecTypeOK, Exit,
     storeVars, eventVars, closeVars, ghostVars
<1>6. LiveIsKept'
  BY DEF LiveIsKept, CallInv, Fresh, ExecTypeOK, Exit, storeVars, eventVars, closeVars,
     ghostVars
<1> QED BY <1>1, <1>2, <1>3, <1>4, <1>5, <1>6

(* The watcher sends the End it owes.                                      *)
LEMMA EndWatchedStep ==
    ASSUME ExecInv, NEW e \in Execs, EndWatched(e)
    PROVE  ExecInv'
<1> USE DEF ExecInv
<1>7. ends[e] + 1 \in 0 .. 2
  BY DEF EndInv, EndWatched
<1>1. ExecTypeOK'
  BY <1>7 DEF ExecTypeOK, Stages, EndWatched, storeVars, closeVars, ghostVars
<1>2. CallInv'
  BY ExecNumbers DEF CallInv, Fresh, Dead, None, ExecTypeOK, EndWatched, storeVars,
     closeVars, ghostVars
<1>3. DrawnInv'
  BY ExecNumbers DEF DrawnInv, ExecTypeOK, CallInv, Fresh, EndWatched, storeVars,
     closeVars, ghostVars
<1>4. IdInv'
  BY ExecNumbers DEF IdInv, Fresh, Under, ExecTypeOK, CallInv, EndWatched, storeVars,
     closeVars, ghostVars
<1>5. EndInv'
  BY DEF EndInv, EndOnce, EndOwed, Dead, CallInv, DrawnInv, Fresh, ExecTypeOK,
     EndWatched, storeVars, closeVars, ghostVars
<1>6. LiveIsKept'
  BY DEF LiveIsKept, CallInv, Fresh, ExecTypeOK, EndWatched, storeVars, closeVars,
     ghostVars
<1> QED BY <1>1, <1>2, <1>3, <1>4, <1>5, <1>6

-----------------------------------------------------------------------------
LEMMA StepInv == ExecInv /\ [Next]_vars => ExecInv'
<1> SUFFICES ASSUME ExecInv, [Next]_vars PROVE ExecInv'
  OBVIOUS
<1>1. CASE UNCHANGED vars
  <2> USE <1>1 DEF ExecInv, vars, storeVars, eventVars, closeVars, ghostVars
  <2>1. ExecTypeOK' BY DEF ExecTypeOK
  <2>2. CallInv' BY DEF CallInv, Dead
  <2>3. DrawnInv' BY DEF DrawnInv
  <2>4. IdInv' BY DEF IdInv, Under
  <2>5. EndInv' BY DEF EndInv, EndOnce, EndOwed, Dead
  <2>6. LiveIsKept' BY DEF LiveIsKept
  <2> QED BY <2>1, <2>2, <2>3, <2>4, <2>5, <2>6
<1>2. CASE Call
  BY <1>2, HandleStep, OpenFailsStep, OpenStep, BeginStep, StoreStep, WarnStep,
     RefreshStep,
     EndShortStep, ReleaseStep, DropStep DEF Call
<1>3. CASE DrainStore \/ TerminateDrained
  BY <1>3, DrainStoreStep, TerminateDrainedStep
<1>4. ASSUME NEW i \in Ids, Allocate(i) PROVE ExecInv'
  BY <1>4, AllocateStep
<1>5. ASSUME NEW e \in Execs, Write(e) \/ Exit(e) \/ EndWatched(e) PROVE ExecInv'
  BY <1>5, WriteStep, ExitStep, EndWatchedStep
<1> QED BY <1>1, <1>2, <1>3, <1>4, <1>5 DEF Next

THEOREM ExecInvariant == Spec => []ExecInv
  BY InitInv, StepInv, PTL DEF Spec

(* Type correctness of the process store, its calls and its events.        *)
THEOREM ExecTypes == Spec => []ExecTypeOK
<1>1. ExecInv => ExecTypeOK BY DEF ExecInv
<1> QED BY <1>1, ExecInvariant, PTL

(* No live process is lost, but one stored under an id that is not         *)
(* reserved (process_manager.rs:657).                                      *)
THEOREM NoProcessLost == Spec => []LiveIsKept
<1>1. ExecInv => LiveIsKept BY DEF ExecInv
<1> QED BY <1>1, ExecInvariant, PTL

(* The client is told of each end once, and only when it is true.          *)
THEOREM OneEnd == Spec => []EndOnce
<1>1. ExecInv => EndOnce BY DEF ExecInv, EndInv
<1> QED BY <1>1, ExecInvariant, PTL

(* Somebody always owes the client an end it has not been told.            *)
THEOREM NoEndForgotten == Spec => []EndOwed
<1>1. ExecInv => EndOwed BY DEF ExecInv, EndInv
<1> QED BY <1>1, ExecInvariant, PTL

-----------------------------------------------------------------------------
(***************************************************************************)
(* The limit of the store, and what pruning takes.                         *)
(***************************************************************************)

(* last_used orders the entries: since[e] are the entries used after e.    *)
UseInv ==
    /\ \A e \in stored : since[e] \subseteq stored /\ e \notin since[e]
    /\ \A e, f \in stored : e = f \/ e \in since[f] \/ f \in since[e]
    /\ \A e, f, g \in stored : f \in since[e] /\ g \in since[f] => g \in since[e]

(* What is in the store runs, or has exited by itself.                     *)
AliveInv ==
    /\ stored \cap closing = {}
    /\ \A e \in stored : os[e] \in {"live", "exited"}

StoreInv == UseInv /\ AliveInv /\ Cardinality(stored) <= MaxProcesses

LEMMA ExecsFinite ==
  ASSUME NEW s \in SUBSET Execs
  PROVE  IsFiniteSet(s) /\ Cardinality(s) \in Nat
<1>1. IsFiniteSet(Execs)
  BY FS_Interval DEF Execs
<1> QED
  BY <1>1, FS_Subset, FS_CardinalityType

LEMMA Fewer ==
  ASSUME NEW s \in SUBSET Execs, NEW u \in SUBSET s, NEW x \in s, x \notin u
  PROVE  Cardinality(u) < Cardinality(s)
<1>1. IsFiniteSet(s) /\ Cardinality(s) \in Nat /\ Cardinality(u) \in Nat
  BY ExecsFinite
<1>2. Cardinality(u) <= Cardinality(s) /\ (Cardinality(s) = Cardinality(u) => s = u)
  BY <1>1, FS_Subset
<1> QED
  BY <1>1, <1>2

(* Among entries there is one after which all the others were used: else   *)
(* two entries would have as many others after them.                       *)
LEMMA OldestExists ==
  ASSUME ExecTypeOK, UseInv, NEW s \in SUBSET stored, s # {}
  PROVE  Oldest(s) # {}
<1> DEFINE n == Cardinality(s)
           After(e) == since[e] \cap s
           rank == [e \in s |-> Cardinality(After(e))]
<1>1. s \in SUBSET Execs /\ IsFiniteSet(s) /\ n \in Nat
  BY ExecsFinite DEF ExecTypeOK
<1>2. n # 0
  BY <1>1, FS_EmptySet
<1>3. SUFFICES ASSUME Oldest(s) = {} PROVE FALSE
  OBVIOUS
<1>4. ASSUME NEW e \in s PROVE rank[e] \in 0 .. n - 2
  <2>1. After(e) \in SUBSET s /\ e \in s \ After(e)
    BY DEF UseInv
  <2>2. PICK x \in s : x \notin After(e) /\ x # e
    BY <1>3 DEF Oldest
  <2>3. s \ {e} \in SUBSET Execs /\ After(e) \in SUBSET (s \ {e}) /\ x \in s \ {e}
    BY <1>1, <2>1, <2>2
  <2>4. Cardinality(After(e)) < Cardinality(s \ {e})
    BY <2>2, <2>3, Fewer
  <2>5. Cardinality(s \ {e}) = n - 1
    BY <1>1, FS_RemoveElement
  <2>6. Cardinality(After(e)) \in Nat
    BY <1>1, <2>1, ExecsFinite
  <2>7. rank[e] = Cardinality(After(e))
    OBVIOUS
  <2> HIDE DEF n, After, rank
  <2> QED
    BY <1>1, <2>4, <2>5, <2>6, <2>7
<1>5. rank \in [s -> 0 .. n - 2]
  BY <1>4
<1>6. IsFiniteSet(0 .. n - 2) /\ Cardinality(0 .. n - 2) < n
  <2> HIDE DEF n
  <2>1. 0 \in Int /\ n - 2 \in Int
    BY <1>1
  <2>2. IsFiniteSet(0 .. n - 2) /\ Cardinality(0 .. n - 2) = IF 0 > n - 2 THEN 0 ELSE n - 2 - 0 + 1
    BY <2>1, FS_Interval
  <2> QED
    BY <1>1, <1>2, <2>2
<1>7. PICK x, y \in s : x # y /\ rank[x] = rank[y]
  <2> HIDE DEF rank
  <2> QED
    BY <1>1, <1>5, <1>6, FS_PigeonHole
<1>8. ASSUME NEW e \in s, NEW f \in s, f \in since[e] PROVE rank[f] < rank[e]
  <2>1. After(f) \in SUBSET After(e) /\ f \in After(e) /\ f \notin After(f)
    BY <1>8 DEF UseInv
  <2>2. After(e) \in SUBSET Execs
    BY <1>1
  <2>3. Cardinality(After(f)) < Cardinality(After(e))
    BY <2>1, <2>2, Fewer
  <2> QED
    BY <2>3
<1>9. rank[x] \in Nat /\ rank[y] \in Nat
  BY <1>5
<1>10. x \in since[y] \/ y \in since[x]
  BY <1>7 DEF UseInv
<1> HIDE DEF rank
<1> QED
  BY <1>7, <1>8, <1>9, <1>10

(* A full store has something to prune.                                    *)
LEMMA FullIsPruned ==
  ASSUME ExecTypeOK, StoreInv, Cardinality(stored) = MaxProcesses
  PROVE  Pruned # {}
<1>1. stored \in SUBSET Execs /\ IsFiniteSet(stored)
  BY ExecsFinite DEF ExecTypeOK
<1>2. stored # {}
  BY FS_EmptySet
<1>3. PICK e : e \in Oldest(stored)
  BY <1>2, OldestExists DEF StoreInv
<1>4. e \in stored /\ since[e] = stored \ {e}
  BY <1>3 DEF Oldest, StoreInv, UseInv
<1>5. Cardinality(since[e]) = MaxProcesses - 1
  BY <1>1, <1>4, FS_RemoveElement
<1>6. e \in Prunable /\ Prunable \in SUBSET stored
  <2>1. MaxProcesses - 1 >= Protected
    OBVIOUS
  <2>2. Cardinality(since[e]) >= Protected
    BY <1>5, <2>1
  <2> QED
    BY <1>4, <2>2 DEF Prunable
<1> DEFINE exited == {f \in Prunable : os[f] = "exited"}
<1>7. exited \in SUBSET stored
  BY <1>6
<1>8. ToPrune = Oldest(IF exited # {} THEN exited ELSE Prunable)
  BY DEF ToPrune
<1> HIDE DEF exited
<1>9. ToPrune # {}
  BY <1>6, <1>7, <1>8, OldestExists DEF StoreInv
<1> QED
  BY <1>9 DEF Pruned

LEMMA FewerStored ==
  ASSUME ExecTypeOK, NEW s \in SUBSET stored, Cardinality(stored) <= MaxProcesses
  PROVE  Cardinality(s) <= MaxProcesses
<1>1. stored \in SUBSET Execs /\ s \in SUBSET Execs
  BY DEF ExecTypeOK
<1>2. IsFiniteSet(stored) /\ Cardinality(stored) \in Nat /\ Cardinality(s) \in Nat
  BY <1>1, ExecsFinite
<1> QED
  BY <1>2, FS_Subset

LEMMA UseTouched ==
  ASSUME ExecTypeOK, UseInv, NEW s \in SUBSET Execs, NEW e \in s, s \subseteq stored \cup {e},
         since' = Touched(s, e), stored' = s
  PROVE  UseInv'
<1>1. \A f \in s : since'[f] = IF f = e THEN {} ELSE (since[f] \cap s) \cup {e}
  BY DEF Touched
<1>2. \A f \in s \ {e} : f \in stored
  OBVIOUS
<1>3. ASSUME NEW f \in s PROVE since'[f] \subseteq s /\ f \notin since'[f]
  <2>1. CASE f = e
    BY <1>1, <2>1
  <2>2. CASE f # e
    <3>1. f \notin since[f] /\ since'[f] = (since[f] \cap s) \cup {e}
      BY <1>1, <1>2, <2>2 DEF UseInv
    <3> QED
      BY <2>2, <3>1
  <2> QED
    BY <2>1, <2>2
<1>4. ASSUME NEW f \in s, NEW g \in s PROVE f = g \/ f \in since'[g] \/ g \in since'[f]
  <2>1. CASE f = e \/ g = e
    BY <1>1, <2>1
  <2>2. CASE f # e /\ g # e
    <3>1. f = g \/ f \in since[g] \/ g \in since[f]
      BY <1>2, <2>2 DEF UseInv
    <3>2. since[f] \cap s \subseteq since'[f] /\ since[g] \cap s \subseteq since'[g]
      BY <1>1, <2>2
    <3> QED
      BY <3>1, <3>2
  <2> QED
    BY <2>1, <2>2
<1>5. ASSUME NEW f \in s, NEW g \in s, NEW h \in s, g \in since'[f], h \in since'[g]
      PROVE  h \in since'[f]
  <2>1. f # e /\ g # e
    BY <1>1, <1>5
  <2>2. g \in since[f] /\ since'[f] = (since[f] \cap s) \cup {e}
    BY <1>1, <1>5, <2>1
  <2>3. CASE h = e
    BY <2>2, <2>3
  <2>4. CASE h # e
    <3>1. h \in since[g]
      BY <1>1, <1>5, <2>1, <2>4
    <3> QED
      BY <1>2, <1>5, <2>1, <2>2, <2>4, <3>1 DEF UseInv
  <2> QED
    BY <2>3, <2>4
<1> QED
  BY <1>3, <1>4, <1>5 DEF UseInv

LEMMA UseLeft ==
  ASSUME ExecTypeOK, UseInv, NEW s \in SUBSET stored, since' = Left(s), stored' = s
  PROVE  UseInv'
<1>1. \A f \in s : since'[f] = since[f] \cap s
  BY DEF Left, ExecTypeOK
<1> QED
  BY <1>1 DEF UseInv

(* A removal takes what is under an id, and ends that alone.               *)
LEMMA RemovalInv ==
  ASSUME ExecTypeOK, StoreInv, NEW i, RemoveId(i), closing' = closing
  PROVE  StoreInv'
<1>1. /\ stored' = stored \ Under(i) /\ since' = Left(stored \ Under(i))
      /\ os' = Terminated(Freed(Under(i)))
  BY DEF RemoveId
<1>2. UseInv'
  BY <1>1, UseLeft DEF StoreInv
<1>3. \A e \in stored' : os'[e] = os[e] /\ e \in stored
  BY <1>1 DEF Terminated, Freed, ExecTypeOK
<1>4. AliveInv'
  BY <1>3 DEF StoreInv, AliveInv
<1>5. Cardinality(stored') <= MaxProcesses
  BY <1>1, FewerStored DEF StoreInv
<1> QED
  BY <1>2, <1>4, <1>5 DEF StoreInv

(* Pruning makes room for the new entry.                                   *)
LEMMA StoreBound ==
  ASSUME ExecInv, StoreInv, Store
  PROVE  StoreInv'
<1> DEFINE gone == Pruned \cup Under(id[at])
           rest == stored \ gone
           killed == Pruned \cup Freed(gone)
<1>0. at \in Execs /\ stage = "store"
  BY AtDrawn DEF Store, In, ExecInv
<1>1. /\ stored' = rest \cup {at} /\ since' = Touched(rest \cup {at}, at)
      /\ os' = Terminated(killed) /\ closing' = closing
  BY DEF Store, closeVars
<1>2. ExecTypeOK /\ at \notin stored \cup closing /\ os[at] \in {"live", "exited"}
  BY <1>0 DEF ExecInv, CallInv, Fresh
<1>3. /\ Pruned \subseteq stored /\ gone \subseteq stored /\ killed \subseteq stored
      /\ killed \subseteq gone
  BY PrunedStored DEF Under, Freed
<1>4. UseInv'
  <2>1. rest \cup {at} \in SUBSET Execs
    BY <1>0, <1>2 DEF ExecTypeOK
  <2> HIDE DEF rest
  <2>2. rest \cup {at} \subseteq stored \cup {at}
    BY DEF rest
  <2> QED
    BY <1>1, <1>2, <2>1, <2>2, UseTouched DEF StoreInv
<1>5. AliveInv'
  <2>1. \A e \in stored' : os'[e] = os[e]
    BY <1>0, <1>1, <1>2, <1>3 DEF Terminated, ExecTypeOK
  <2> QED
    BY <1>1, <1>2, <2>1 DEF StoreInv, AliveInv
<1>6. Cardinality(stored') <= MaxProcesses
  <2>1. IsFiniteSet(rest) /\ Cardinality(rest) \in Nat /\ Cardinality(stored) \in Nat
    BY <1>2, ExecsFinite DEF ExecTypeOK
  <2>2. Cardinality(rest) < MaxProcesses
    <3>1. CASE Cardinality(stored) < MaxProcesses
      <4>1. Cardinality(rest) <= Cardinality(stored)
        BY <1>2, ExecsFinite, FS_Subset DEF ExecTypeOK
      <4> HIDE DEF rest
      <4> QED
        BY <2>1, <3>1, <4>1
    <3>2. CASE Cardinality(stored) = MaxProcesses
      <4>1. PICK x : x \in Pruned
        BY <1>2, <3>2, FullIsPruned
      <4>2. x \in stored /\ x \notin rest /\ stored \in SUBSET Execs /\ rest \in SUBSET stored
        BY <1>2, <1>3, <4>1 DEF ExecTypeOK
      <4> HIDE DEF rest
      <4> QED
        BY <3>2, <4>2, Fewer
    <3> HIDE DEF rest
    <3> QED
      BY <2>1, <3>1, <3>2 DEF StoreInv
  <2>3. Cardinality(rest \cup {at}) = Cardinality(rest) + 1
    BY <1>2, <2>1, FS_AddElement
  <2> HIDE DEF rest
  <2> QED
    BY <1>1, <2>1, <2>2, <2>3
<1> QED
  BY <1>4, <1>5, <1>6 DEF StoreInv

LEMMA StoreInvInit == Init => StoreInv
<1> SUFFICES ASSUME Init PROVE StoreInv
  OBVIOUS
<1>1. stored = {} /\ closing = {}
  BY DEF Init
<1>2. Cardinality({}) = 0
  BY FS_EmptySet
<1> QED
  BY <1>1, <1>2 DEF StoreInv, UseInv, AliveInv

LEMMA StoreInvStep ==
  ASSUME ExecInv, StoreInv, [Next]_vars
  PROVE  StoreInv'
<1>0. ExecTypeOK
  BY DEF ExecInv
(* The steps that leave the store, and what is terminated, alone.          *)
<1>1. ASSUME UNCHANGED <<stored, since, closing>>,
             \A e \in stored : os'[e] \in {os[e], "live", "exited"}
      PROVE  StoreInv'
  BY <1>1 DEF StoreInv, UseInv, AliveInv
<1>2. CASE UNCHANGED vars
  BY <1>1, <1>2 DEF vars, storeVars, closeVars
<1>3. ASSUME NEW i, RemoveId(i), closing' = closing PROVE StoreInv'
  BY <1>0, <1>3, RemovalInv
<1>4. CASE Handle \/ OpenFails \/ Refresh \/ Release
  <2>1. closing' = closing
    BY <1>4 DEF Handle, OpenFails, Refresh, Release, closeVars
  <2>2. CASE UNCHANGED <<storeVars, os>>
    BY <1>1, <2>1, <2>2 DEF storeVars
  <2>3. CASE RemoveId(id[at])
    BY <1>3, <2>1, <2>3
  <2> QED
    BY <1>4, <2>2, <2>3 DEF Handle, OpenFails, Refresh, Release
<1>5. CASE Open \/ Begin \/ Warn \/ EndShort
  <2>1. UNCHANGED <<stored, since, closing>>
    BY <1>5 DEF Open, Begin, Warn, EndShort, storeVars, closeVars
  <2>2. os' = os \/ os' = [os EXCEPT ![at] = "live"] \/ os' = [os EXCEPT ![at] = "exited"]
    BY <1>5 DEF Open, Begin, Warn, EndShort
  <2> QED
    BY <1>0, <1>1, <2>1, <2>2 DEF ExecTypeOK
<1>6. CASE Store
  BY <1>6, StoreBound
<1>7. CASE Drop
  <2>1. UNCHANGED <<stored, since, closing>>
    BY <1>7 DEF Drop, storeVars, closeVars
  <2>2. stage \in {"begin", "store"} => at \notin stored
    BY DEF ExecInv, CallInv, Fresh
  <2>3. \A e \in stored : os'[e] = os[e]
    BY <1>0, <1>7, <2>2 DEF Drop, Terminated, ExecTypeOK
  <2> QED
    BY <1>1, <2>1, <2>3
<1>8. CASE DrainStore
  <2>1. stored' = {}
    BY <1>8 DEF DrainStore
  <2>2. Cardinality({}) = 0
    BY FS_EmptySet
  <2> QED
    BY <2>1, <2>2 DEF StoreInv, UseInv, AliveInv
<1>9. CASE TerminateDrained
  <2>1. /\ UNCHANGED <<stored, since>> /\ closing' = {} /\ os' = Terminated(closing)
    BY <1>9 DEF TerminateDrained, storeVars
  <2>2. \A e \in stored : os'[e] = os[e]
    BY <1>0, <2>1 DEF StoreInv, AliveInv, Terminated, ExecTypeOK
  <2> QED
    BY <2>1, <2>2 DEF StoreInv, UseInv, AliveInv
<1>10. ASSUME NEW i \in Ids, Allocate(i) PROVE StoreInv'
  BY <1>1, <1>10 DEF Allocate, closeVars
<1>11. ASSUME NEW e \in Execs, Write(e) PROVE StoreInv'
  <2>1. e \in stored /\ since' = Touched(stored, e) /\ UNCHANGED <<stored, os, closing>>
    BY <1>11 DEF Write, closeVars
  <2>2. stored \in SUBSET Execs
    BY <1>0 DEF ExecTypeOK
  <2>3. UseInv'
    BY <1>0, <2>1, <2>2, UseTouched DEF StoreInv
  <2> QED
    BY <2>1, <2>3 DEF StoreInv, AliveInv
<1>12. ASSUME NEW e \in Execs, Exit(e) \/ EndWatched(e) PROVE StoreInv'
  <2>1. UNCHANGED <<stored, since, closing>>
    BY <1>12 DEF Exit, EndWatched, storeVars, closeVars
  <2>2. os' = os \/ os' = [os EXCEPT ![e] = "exited"]
    BY <1>12 DEF Exit, EndWatched
  <2> QED
    BY <1>0, <1>1, <2>1, <2>2 DEF ExecTypeOK
<1> QED
  BY <1>2, <1>4, <1>5, <1>6, <1>7, <1>8, <1>9, <1>10, <1>11, <1>12 DEF Next, Call

THEOREM StoreInvariant == Spec => [](ExecInv /\ StoreInv)
  BY InitInv, StepInv, StoreInvInit, StoreInvStep, PTL DEF Spec

(* The store stays within its limit (process_manager.rs:599): when it is   *)
(* full, some entry is not protected, and among those one is the least     *)
(* recently used.                                                          *)
THEOREM StoreWithinLimit == Spec => []StoreBounded
<1>1. StoreInv => StoreBounded
  BY DEF StoreInv, StoreBounded
<1> QED
  BY <1>1, StoreInvariant, PTL

(* Pruning spares the most recently used and prefers what has exited.      *)
THEOREM PruningSpares == Spec => PruneSpares
<1> DEFINE Spares ==
      (stage = "store" /\ stage' \in {"warn", "poll"}) =>
          \A e \in stored \ stored' : id[e] # id[at] =>
             /\ Cardinality(since[e]) >= Protected
             /\ \A f \in stored \ {e} :
                   Cardinality(since[f]) >= Protected
                   => \/ os[e] = "exited" /\ os[f] = "live"
                      \/ os[e] = os[f] /\ f \in since[e]
<1>1. ASSUME ExecInv, StoreInv, [Next]_vars PROVE [Spares]_vars
  <2>1. SUFFICES ASSUME stage = "store", stage' \in {"warn", "poll"},
                        NEW e \in stored \ stored', id[e] # id[at]
                 PROVE  /\ Cardinality(since[e]) >= Protected
                        /\ \A f \in stored \ {e} :
                              Cardinality(since[f]) >= Protected
                              => \/ os[e] = "exited" /\ os[f] = "live"
                                 \/ os[e] = os[f] /\ f \in since[e]
    OBVIOUS
  <2>2. Store
    BY <1>1, <2>1 DEF Next, Call, vars, Allocate, Write, Exit, EndWatched, Handle, OpenFails,
       Open, Begin, Warn, Refresh, EndShort, Release, Drop, DrainStore, TerminateDrained, In,
       Go, Return
  <2>3. e \in Pruned
    BY <2>1, <2>2 DEF Store, Under
  <2>4. e \in ToPrune
    BY <2>3 DEF Pruned
  <2> DEFINE exited == {f \in Prunable : os[f] = "exited"}
  <2>5. e \in Oldest(IF exited # {} THEN exited ELSE Prunable)
    BY <2>4 DEF ToPrune
  <2>6. e \in Prunable
    BY <2>5 DEF Oldest
  <2>7. ASSUME NEW f \in stored \ {e}, Cardinality(since[f]) >= Protected
        PROVE  \/ os[e] = "exited" /\ os[f] = "live"
               \/ os[e] = os[f] /\ f \in since[e]
    <3>1. f \in Prunable /\ os[f] \in {"live", "exited"} /\ os[e] \in {"live", "exited"}
      BY <1>1, <2>7 DEF Prunable, StoreInv, AliveInv
    <3>2. CASE exited # {}
      BY <2>5, <2>7, <3>1, <3>2 DEF Oldest
    <3>3. CASE exited = {}
      BY <2>5, <2>7, <3>1, <3>3 DEF Oldest
    <3> QED
      BY <3>2, <3>3
  <2> QED
    BY <2>6, <2>7 DEF Prunable
<1>2. Spec => [][Spares]_vars
  BY <1>1, StoreInvariant, PTL DEF Spec
<1> QED
  BY <1>2 DEF PruneSpares
=============================================================================
