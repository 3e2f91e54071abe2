-------------------------- MODULE AgentJobsProofs ---------------------------
(***************************************************************************)
(* Proofs about AgentJobs, for any number of callers, permits and spawns.  *)
(*                                                                         *)
(* A permit is held by a spawn in flight or by the watcher of its job, and *)
(* what a watcher has decided is true of its child, which is gone for good *)
(* unless a call on it returned an error.                                  *)
(***************************************************************************)
EXTENDS AgentJobs, FiniteSetTheorems, TLAPS

USE JobsAssumption

Born == {"select", "decided", "set", "sent", "done"}
Knows == {"decided", "set", "sent", "done"}
Says == {"set", "sent", "done"}
Spawning(c) == pc[c] \in {"prepare", "launched"}

(* Permits, and the table.                                                 *)
TableInv ==
    /\ \A j \in Jobs : j > made => j \notin held /\ child[j] = "none" /\ watcher[j] = "unborn"
    /\ \A j \in Jobs : j \in jobs <=> watcher[j] # "unborn"
    /\ \A j \in Jobs : watcher[j] \in Born \ {"done"} => j \in held
    /\ Cardinality(held) <= MaxJobs

(* Where each call stands with the job it is about.                        *)
CallerInv ==
    /\ \A c \in Callers : Spawning(c) =>
          /\ at[c] \in Jobs /\ at[c] <= made /\ at[c] \in held
          /\ watcher[at[c]] = "unborn"
          /\ pc[c] = "prepare" <=> child[at[c]] = "none"
    /\ \A c, d \in Callers : Spawning(c) /\ Spawning(d) /\ at[c] = at[d] => c = d
    /\ \A c \in Callers : pc[c] \in {"close", "await"} => at[c] \in jobs

(* What a watcher has decided is so, and what it has set is what it        *)
(* decided.                                                                *)
True(j) ==
    /\ verdict[j] \in Final
    /\ child[j] \in Ended \/ j \in erred
    /\ verdict[j] = "completed" => child[j] = "good"
    /\ verdict[j] = "failed" => child[j] = "bad" \/ j \in erred
    /\ verdict[j] = "cancelled" => j \in cancelled

Fate(j) ==
    /\ watcher[j] \in Born => child[j] # "none"
    /\ watcher[j] \in Knows => True(j)
    /\ watcher[j] \in Says => status[j] = verdict[j] /\ j \notin pipe
    /\ watcher[j] \notin Says => status[j] = "running"
    /\ j \in completed => watcher[j] \in {"sent", "done"}

WatchInv == \A j \in Jobs : Fate(j)

(* Who has been awaited.                                                   *)
CloseInv ==
    /\ over \subseteq completed
    /\ handles \subseteq jobs
    /\ loop = "awaiting" => handles \ rest \subseteq over
    /\ loop = "closed" => handles \subseteq over

JobsInv == JobsTypeOK /\ TableInv /\ CallerInv /\ WatchInv /\ CloseInv

LEMMA JobNumbers == Jobs \subseteq Nat /\ None \notin Jobs
  BY DEF Jobs, None

LEMMA HeldFinite ==
    ASSUME NEW s \in SUBSET Jobs
    PROVE  IsFiniteSet(s) /\ Cardinality(s) \in Nat
<1>1. IsFiniteSet(Jobs)
  BY FS_Interval DEF Jobs
<1> QED BY <1>1, FS_Subset, FS_CardinalityType

LEMMA FewerHeld ==
    ASSUME JobsTypeOK, TableInv, NEW j
    PROVE  Cardinality(held \ {j}) <= MaxJobs
<1>1. IsFiniteSet(held) /\ Cardinality(held) \in Nat
  BY HeldFinite DEF JobsTypeOK
<1>2. Cardinality(held \ {j}) \in {Cardinality(held), Cardinality(held) - 1}
  BY <1>1, FS_RemoveElement
<1> QED BY <1>1, <1>2 DEF TableInv

LEMMA OneMoreHeld ==
    ASSUME JobsTypeOK, Cardinality(held) < MaxJobs, NEW j
    PROVE  Cardinality(held \cup {j}) <= MaxJobs
<1>1. IsFiniteSet(held) /\ Cardinality(held) \in Nat
  BY HeldFinite DEF JobsTypeOK
<1>2. Cardinality(held \cup {j}) \in {Cardinality(held), Cardinality(held) + 1}
  BY <1>1, FS_AddElement
<1> QED BY <1>1, <1>2

LEMMA KilledChild ==
    ASSUME JobsTypeOK, NEW j \in Jobs, Killed(j)
    PROVE  /\ child' \in [Jobs -> Ended \cup {"none", "running"}]
           /\ \A k \in Jobs : k # j => child'[k] = child[k]
           /\ child'[j] = "none" <=> child[j] = "none"
           /\ child[j] # "none" => child'[j] \in Ended \/ j \in erred'
           /\ child[j] \in Ended => child'[j] = child[j]
           /\ pipe' = pipe /\ erred \subseteq erred' /\ erred' \subseteq Jobs
<1>1. CASE Err(j)
  BY <1>1 DEF JobsTypeOK, Err
<1>2. CASE ~Err(j)
  BY <1>2 DEF JobsTypeOK, Killed, Ended
<1> QED BY <1>1, <1>2

LEMMA MoreCancelled ==
    ASSUME JobsTypeOK, NEW j \in Jobs, CancelUnlessFinal(j)
    PROVE  cancelled \subseteq cancelled' /\ cancelled' \subseteq Jobs
  BY DEF JobsTypeOK, CancelUnlessFinal

(* A spawn in flight has a job of its own, that is not born.               *)
LEMMA SpawnedJob ==
    ASSUME JobsTypeOK, CallerInv, NEW c \in Callers, Spawning(c)
    PROVE  /\ at[c] \in Jobs /\ watcher[at[c]] = "unborn"
           /\ pc[c] = "launched" => child[at[c]] # "none"
  BY DEF CallerInv, Spawning

LEMMA InitInv == Init => JobsInv
<1> SUFFICES ASSUME Init PROVE JobsInv
  OBVIOUS
<1>1. JobsTypeOK
  BY DEF Init, JobsTypeOK, None
<1>2. Cardinality(held) <= MaxJobs
  BY FS_EmptySet DEF Init
<1>3. TableInv
  BY <1>2 DEF Init, TableInv, Born
<1>4. CallerInv
  BY DEF Init, CallerInv, Spawning, At
<1>5. WatchInv
  BY DEF Init, WatchInv, Fate, True, Born, Knows, Says
<1>6. CloseInv
  BY DEF Init, CloseInv
<1> QED BY <1>1, <1>3, <1>4, <1>5, <1>6 DEF JobsInv

(* The new job is nobody's yet, and there was a permit for it.             *)
LEMMA ReserveStep ==
    ASSUME JobsInv, NEW c \in Callers, Reserve(c)
    PROVE  JobsInv'
<1> USE DEF JobsInv
<1>0. made + 1 \in Jobs /\ made' = made + 1 /\ made \in Nat /\ made + 1 # None
  BY DEF Reserve, Jobs, JobsTypeOK, None
<1>9. Cardinality(held') <= MaxJobs
  BY OneMoreHeld DEF Reserve
<1>8. /\ pc' = [pc EXCEPT ![c] = "prepare"] /\ at' = [at EXCEPT ![c] = made + 1]
      /\ held' = held \cup {made + 1} /\ child' = child /\ watcher' = watcher /\ jobs' = jobs
      /\ child[made + 1] = "none" /\ watcher[made + 1] = "unborn"
      /\ pc \in [Callers -> {"idle", "prepare", "launched", "close", "await"}]
      /\ at \in [Callers -> Jobs \cup {None}]
  BY <1>0 DEF Reserve, Begin, TableInv, JobsTypeOK, procVars, watchVars
<1>7. \A d \in Callers : Spawning(d) => at[d] # made + 1
  BY <1>0, JobNumbers DEF CallerInv
<1>1. JobsTypeOK'
  BY <1>0, <1>9, JobNumbers DEF JobsTypeOK, None, Reserve, Begin, At, tableVars,
     fateVars, procVars, watchVars, callVars, loopVars
<1>2. TableInv'
  BY <1>0, <1>9, JobNumbers DEF TableInv, Born, CallerInv, Spawning, WatchInv, Fate,
     True, Ended, Knows, JobsTypeOK, Reserve, Begin, At, tableVars, fateVars,
     procVars, watchVars, callVars, loopVars
<1>3. CallerInv'
  <2>1. ASSUME NEW d \in Callers, Spawning(d)'
        PROVE  /\ at'[d] \in Jobs /\ at'[d] <= made' /\ at'[d] \in held'
               /\ watcher'[at'[d]] = "unborn"
               /\ pc'[d] = "prepare" <=> child'[at'[d]] = "none"
    <3>1. CASE d = c
      BY <1>0, <1>8, <3>1
    <3>2. CASE d # c
      <4>1. Spawning(d) /\ pc'[d] = pc[d] /\ at'[d] = at[d]
        BY <1>8, <2>1, <3>2 DEF Spawning
      <4>2. at[d] \in Nat
        BY <4>1, JobNumbers DEF CallerInv
      <4> QED BY <1>0, <1>8, <4>1, <4>2 DEF CallerInv
    <3> QED BY <3>1, <3>2
  <2>2. ASSUME NEW d \in Callers, NEW e \in Callers, Spawning(d)', Spawning(e)', at'[d] = at'[e]
        PROVE  d = e
    BY <1>7, <1>8, <2>2 DEF CallerInv, Spawning
  <2>3. ASSUME NEW d \in Callers, pc'[d] \in {"close", "await"}
        PROVE  at'[d] \in jobs'
    BY <1>8, <2>3 DEF CallerInv
  <2> QED BY <2>1, <2>2, <2>3 DEF CallerInv
<1>4. WatchInv'
  BY <1>0, <1>9, JobNumbers DEF WatchInv, Fate, True, Born, Knows, Says, TableInv,
     CallerInv, Ended, Final, JobsTypeOK, Reserve, Begin, At, tableVars, fateVars,
     procVars, watchVars, callVars, loopVars
<1>5. CloseInv'
  BY <1>0, <1>9, JobNumbers DEF CloseInv, JobsTypeOK, Reserve, Begin, At, tableVars,
     fateVars, procVars, watchVars, callVars, loopVars
<1> QED BY <1>1, <1>2, <1>3, <1>4, <1>5

(* The spawn that fails lets its permit go; no other spawn has its job.    *)
LEMMA SpawnFailsStep ==
    ASSUME JobsInv, NEW c \in Callers, SpawnFails(c)
    PROVE  JobsInv'
<1> USE DEF JobsInv
<1>9. Cardinality(held') <= MaxJobs
  BY FewerHeld DEF SpawnFails
<1>1. JobsTypeOK'
  BY <1>9, JobNumbers DEF JobsTypeOK, None, SpawnFails, Return, At, tableVars,
     fateVars, procVars, watchVars, callVars, loopVars
<1>2. TableInv'
  BY <1>9, JobNumbers DEF TableInv, Born, CallerInv, Spawning, WatchInv, Fate, True,
     Ended, Knows, JobsTypeOK, SpawnFails, Return, At, tableVars, fateVars,
     procVars, watchVars, callVars, loopVars
<1>3. CallerInv'
  BY <1>9, JobNumbers DEF CallerInv, Spawning, None, TableInv, Born, JobsTypeOK,
     SpawnFails, Return, At, tableVars, fateVars, procVars, watchVars, callVars, loopVars
<1>4. WatchInv'
  BY <1>9, JobNumbers DEF WatchInv, Fate, True, Born, Knows, Says, TableInv,
     CallerInv, Ended, Final, JobsTypeOK, SpawnFails, Return, At, tableVars,
     fateVars, procVars, watchVars, callVars, loopVars
<1>5. CloseInv'
  BY <1>9, JobNumbers DEF CloseInv, JobsTypeOK, SpawnFails, Return, At, tableVars,
     fateVars, procVars, watchVars, callVars, loopVars
<1> QED BY <1>1, <1>2, <1>3, <1>4, <1>5

(* The child starts.                                                       *)
LEMMA LaunchStep ==
    ASSUME JobsInv, NEW c \in Callers, Launch(c)
    PROVE  JobsInv'
<1> USE DEF JobsInv
<1>0. Spawning(c)
  BY DEF Spawning, Launch, At
<1>9. at[c] \in Jobs /\ watcher[at[c]] = "unborn" /\ (pc[c] = "launched" => child[at[c]] # "none")
  BY <1>0, SpawnedJob
<1>1. JobsTypeOK'
  BY <1>9, JobNumbers DEF JobsTypeOK, None, Launch, Go, At, tableVars, fateVars,
     procVars, watchVars, callVars, loopVars, Ended, Final
<1>2. TableInv'
  BY <1>9, JobNumbers DEF TableInv, Born, CallerInv, Spawning, WatchInv, Fate, True,
     Ended, Knows, JobsTypeOK, Launch, Go, At, tableVars, fateVars, procVars, watchVars,
     callVars, loopVars
<1>3. CallerInv'
  BY <1>9, JobNumbers DEF CallerInv, Spawning, None, TableInv, Born, JobsTypeOK,
     Launch, Go, At, tableVars, fateVars, procVars, watchVars, callVars, loopVars
<1>4. WatchInv'
  <2> SUFFICES ASSUME NEW k \in Jobs PROVE Fate(k)'
    BY DEF WatchInv
  <2>0. Fate(k)
    BY DEF WatchInv
  <2>1. CASE k = at[c]
    BY <2>0, <2>1, <1>9, JobNumbers DEF Fate, True, Born, Knows, Says, Ended, Final,
       JobsTypeOK, Launch, Go, At, tableVars, fateVars, procVars, watchVars, callVars,
       loopVars
  <2>2. CASE k # at[c]
    BY <2>0, <2>2, <1>9, JobNumbers DEF Fate, True, Born, Knows, Says, Ended, Final,
       JobsTypeOK, Launch, Go, At, tableVars, fateVars, procVars, watchVars, callVars,
       loopVars
  <2> QED BY <2>1, <2>2
<1>5. CloseInv'
  BY <1>9, JobNumbers DEF CloseInv, JobsTypeOK, Launch, Go, At, tableVars, fateVars,
     procVars, watchVars, callVars, loopVars
<1> QED BY <1>1, <1>2, <1>3, <1>4, <1>5

(* The job enters the table with its watcher.                              *)
LEMMA RegisterStep ==
    ASSUME JobsInv, NEW c \in Callers, Register(c)
    PROVE  JobsInv'
<1> USE DEF JobsInv
<1>0. Spawning(c)
  BY DEF Spawning, Register, At
<1>9. at[c] \in Jobs /\ watcher[at[c]] = "unborn" /\ (pc[c] = "launched" => child[at[c]] # "none")
  BY <1>0, SpawnedJob
<1>1. JobsTypeOK'
  BY <1>9, JobNumbers DEF JobsTypeOK, None, Register, Return, At, tableVars,
     fateVars, procVars, watchVars, callVars, loopVars
<1>2. TableInv'
  BY <1>9, JobNumbers DEF TableInv, Born, CallerInv, Spawning, WatchInv, Fate, True,
     Ended, Knows, JobsTypeOK, Register, Return, At, tableVars, fateVars, procVars, watchVars,
     callVars, loopVars
<1>3. CallerInv'
  BY <1>9, JobNumbers DEF CallerInv, Spawning, None, TableInv, Born, JobsTypeOK,
     Register, Return, At, tableVars, fateVars, procVars, watchVars, callVars, loopVars
<1>4. WatchInv'
  <2> SUFFICES ASSUME NEW k \in Jobs PROVE Fate(k)'
    BY DEF WatchInv
  <2>0. Fate(k)
    BY DEF WatchInv
  <2>1. CASE k = at[c]
    BY <2>0, <2>1, <1>9, JobNumbers DEF Fate, True, Born, Knows, Says, Ended, Final,
       JobsTypeOK, Register, Return, At, tableVars, fateVars, procVars, watchVars, callVars,
       loopVars
  <2>2. CASE k # at[c]
    BY <2>0, <2>2, <1>9, JobNumbers DEF Fate, True, Born, Knows, Says, Ended, Final,
       JobsTypeOK, Register, Return, At, tableVars, fateVars, procVars, watchVars, callVars,
       loopVars
  <2> QED BY <2>1, <2>2
<1>5. CloseInv'
  BY <1>9, JobNumbers DEF CloseInv, JobsTypeOK, Register, Return, At, tableVars,
     fateVars, procVars, watchVars, callVars, loopVars
<1> QED BY <1>1, <1>2, <1>3, <1>4, <1>5

(* A close begins.                                                         *)
LEMMA CloseStep ==
    ASSUME JobsInv, NEW c \in Callers, NEW j \in Jobs, Close(c, j)
    PROVE  JobsInv'
<1> USE DEF JobsInv
<1>1. JobsTypeOK'
  BY JobNumbers DEF JobsTypeOK, None, Close, Begin, At, tableVars, fateVars,
     procVars, watchVars, callVars, loopVars
<1>2. TableInv'
  BY JobNumbers DEF TableInv, Born, CallerInv, Spawning, WatchInv, Fate, True,
     Ended, Knows, JobsTypeOK, Close, Begin, At, tableVars, fateVars, procVars, watchVars,
     callVars, loopVars
<1>3. CallerInv'
  BY JobNumbers DEF CallerInv, Spawning, None, TableInv, Born, JobsTypeOK, Close,
     Begin, At, tableVars, fateVars, procVars, watchVars, callVars, loopVars
<1>4. WatchInv'
  BY JobNumbers DEF WatchInv, Fate, True, Born, Knows, Says, Ended, Final,
     JobsTypeOK, Close, Begin, At, tableVars, fateVars, procVars, watchVars, callVars,
     loopVars
<1>5. CloseInv'
  BY JobNumbers DEF CloseInv, JobsTypeOK, Close, Begin, At, tableVars, fateVars,
     procVars, watchVars, callVars, loopVars
<1> QED BY <1>1, <1>2, <1>3, <1>4, <1>5

(* A close cancels its job.                                                *)
LEMMA CloseCancelsStep ==
    ASSUME JobsInv, NEW c \in Callers, CloseCancels(c)
    PROVE  JobsInv'
<1> USE DEF JobsInv
<1>0. at[c] \in Jobs
  BY DEF CallerInv, CloseCancels, At, JobsTypeOK
<1>9. cancelled \subseteq cancelled' /\ cancelled' \subseteq Jobs
  BY <1>0, MoreCancelled DEF CloseCancels
<1>1. JobsTypeOK'
  BY <1>0, <1>9, JobNumbers DEF JobsTypeOK, None, CloseCancels, Go, At, tableVars,
     fateVars, procVars, watchVars, callVars, loopVars
<1>2. TableInv'
  BY <1>0, <1>9, JobNumbers DEF TableInv, Born, CallerInv, Spawning, WatchInv, Fate,
     True, Ended, Knows, JobsTypeOK, CloseCancels, Go, At, tableVars, fateVars,
     procVars, watchVars, callVars, loopVars
<1>3. CallerInv'
  BY <1>0, <1>9, JobNumbers DEF CallerInv, Spawning, None, TableInv, Born,
     JobsTypeOK, CloseCancels, Go, At, tableVars, fateVars, procVars, watchVars, callVars,
     loopVars
<1>4. WatchInv'
  <2> SUFFICES ASSUME NEW k \in Jobs PROVE Fate(k)'
    BY DEF WatchInv
  <2>0. Fate(k)
    BY DEF WatchInv
  <2>1. CASE k = at[c]
    BY <2>0, <2>1, <1>0, <1>9, JobNumbers DEF Fate, True, Born, Knows, Says, Ended,
       Final, JobsTypeOK, CloseCancels, Go, At, tableVars, fateVars, procVars, watchVars,
       callVars, loopVars
  <2>2. CASE k # at[c]
    BY <2>0, <2>2, <1>0, <1>9, JobNumbers DEF Fate, True, Born, Knows, Says, Ended,
       Final, JobsTypeOK, CloseCancels, Go, At, tableVars, fateVars, procVars, watchVars,
       callVars, loopVars
  <2> QED BY <2>1, <2>2
<1>5. CloseInv'
  BY <1>0, <1>9, JobNumbers DEF CloseInv, JobsTypeOK, CloseCancels, Go, At,
     tableVars, fateVars, procVars, watchVars, callVars, loopVars
<1> QED BY <1>1, <1>2, <1>3, <1>4, <1>5

(* A close has seen the completion.                                        *)
LEMMA CloseReturnsStep ==
    ASSUME JobsInv, NEW c \in Callers, CloseReturns(c)
    PROVE  JobsInv'
<1> USE DEF JobsInv
<1>1. JobsTypeOK'
  BY JobNumbers DEF JobsTypeOK, None, CloseReturns, Return, At, Finished, tableVars,
     fateVars, procVars, watchVars, callVars, loopVars
<1>2. TableInv'
  BY JobNumbers DEF TableInv, Born, CallerInv, Spawning, WatchInv, Fate, True,
     Ended, Knows, JobsTypeOK, CloseReturns, Return, At, Finished, tableVars,
     fateVars, procVars, watchVars, callVars, loopVars
<1>3. CallerInv'
  BY JobNumbers DEF CallerInv, Spawning, None, TableInv, Born, JobsTypeOK,
     CloseReturns, Return, At, Finished, tableVars, fateVars, procVars, watchVars, callVars,
     loopVars
<1>4. WatchInv'
  BY JobNumbers DEF WatchInv, Fate, True, Born, Knows, Says, Ended, Final,
     JobsTypeOK, CloseReturns, Return, At, Finished, tableVars, fateVars, procVars, watchVars,
     callVars, loopVars
<1>5. CloseInv'
  BY JobNumbers DEF CloseInv, JobsTypeOK, CloseReturns, Return, At, Finished,
     tableVars, fateVars, procVars, watchVars, callVars, loopVars
<1> QED BY <1>1, <1>2, <1>3, <1>4, <1>5

(* A call is dropped, and its permit with it.                              *)
LEMMA DropStep ==
    ASSUME JobsInv, NEW c \in Callers, Drop(c)
    PROVE  JobsInv'
<1> USE DEF JobsInv
<1>9. Cardinality(held') <= MaxJobs
  BY FewerHeld DEF Drop, TableInv
<1>8. held' \subseteq held /\ (~Spawning(c) => held' = held)
  BY DEF Drop, Spawning
<1>7. held \ held' \subseteq {at[c]}
  BY DEF Drop
<1>1. JobsTypeOK'
  BY <1>9, <1>8, <1>7, JobNumbers DEF JobsTypeOK, None, Drop, Return, At, tableVars,
     fateVars, procVars, watchVars, callVars, loopVars
<1>2. TableInv'
  BY <1>9, <1>8, <1>7, JobNumbers DEF TableInv, Born, CallerInv, Spawning, WatchInv,
     Fate, True, Ended, Knows, JobsTypeOK, Drop, Return, At, tableVars, fateVars,
     procVars, watchVars, callVars, loopVars
<1>3. CallerInv'
  BY <1>9, <1>8, <1>7, JobNumbers DEF CallerInv, Spawning, None, TableInv, Born,
     JobsTypeOK, Drop, Return, At, tableVars, fateVars, procVars, watchVars, callVars,
     loopVars
<1>4. WatchInv'
  BY <1>9, <1>8, <1>7, JobNumbers DEF WatchInv, Fate, True, Born, Knows, Says,
     TableInv, CallerInv, Ended, Final, JobsTypeOK, Drop, Return, At, tableVars,
     fateVars, procVars, watchVars, callVars, loopVars
<1>5. CloseInv'
  BY <1>9, <1>8, <1>7, JobNumbers DEF CloseInv, JobsTypeOK, Drop, Return, At,
     tableVars, fateVars, procVars, watchVars, callVars, loopVars
<1> QED BY <1>1, <1>2, <1>3, <1>4, <1>5

(* The watcher decides by the exit of the child.                           *)
LEMMA DecideExitStep ==
    ASSUME JobsInv, NEW j \in Jobs, DecideExit(j)
    PROVE  JobsInv'
<1> USE DEF JobsInv
<1>1. JobsTypeOK'
  BY JobNumbers DEF JobsTypeOK, None, DecideExit, Decide, Move, In, tableVars,
     fateVars, procVars, watchVars, callVars, loopVars, Ended, Final
<1>2. TableInv'
  BY JobNumbers DEF TableInv, Born, CallerInv, Spawning, WatchInv, Fate, True,
     Ended, Knows, JobsTypeOK, DecideExit, Decide, Move, In, tableVars, fateVars,
     procVars, watchVars, callVars, loopVars
<1>3. CallerInv'
  BY JobNumbers DEF CallerInv, Spawning, None, TableInv, Born, JobsTypeOK,
     DecideExit, Decide, Move, In, tableVars, fateVars, procVars, watchVars, callVars,
     loopVars
<1>4. WatchInv'
  <2> SUFFICES ASSUME NEW k \in Jobs PROVE Fate(k)'
    BY DEF WatchInv
  <2>0. Fate(k)
    BY DEF WatchInv
  <2>1. CASE k = j
    BY <2>0, <2>1, JobNumbers DEF Fate, True, Born, Knows, Says, Ended, Final,
       JobsTypeOK, DecideExit, Decide, Move, In, tableVars, fateVars, procVars, watchVars,
       callVars, loopVars
  <2>2. CASE k # j
    BY <2>0, <2>2, JobNumbers DEF Fate, True, Born, Knows, Says, Ended, Final,
       JobsTypeOK, DecideExit, Decide, Move, In, tableVars, fateVars, procVars, watchVars,
       callVars, loopVars
  <2> QED BY <2>1, <2>2
<1>5. CloseInv'
  BY JobNumbers DEF CloseInv, JobsTypeOK, DecideExit, Decide, Move, In, tableVars,
     fateVars, procVars, watchVars, callVars, loopVars
<1> QED BY <1>1, <1>2, <1>3, <1>4, <1>5

(* The watcher cannot wait for the child.                                  *)
LEMMA DecideLostStep ==
    ASSUME JobsInv, NEW j \in Jobs, DecideLost(j)
    PROVE  JobsInv'
<1> USE DEF JobsInv
<1>9. /\ child' = child /\ pipe' = pipe /\ erred' = erred \cup {j}
  BY DEF DecideLost, Err
<1>8. /\ watcher[j] = "select" /\ watcher' = [watcher EXCEPT ![j] = "decided"]
      /\ watcher \in [Jobs -> {"unborn"} \cup Born]
      /\ UNCHANGED <<made, held, jobs, pc, at>>
  BY DEF DecideLost, Decide, In, Move, JobsTypeOK, Born, tableVars, callVars
<1>1. JobsTypeOK'
  BY <1>9, JobNumbers DEF JobsTypeOK, None, DecideLost, Decide, Move, In,
     tableVars, fateVars, procVars, watchVars, callVars, loopVars, Ended, Final
<1>2. TableInv'
  BY <1>8, <1>9, JobNumbers DEF TableInv, Spawning, Born
<1>3. CallerInv'
  <2>1. \A k \in Jobs : /\ watcher'[k] = "unborn" <=> watcher[k] = "unborn"
                        /\ child'[k] = "none" <=> child[k] = "none"
    BY <1>8, <1>9
  <2> QED BY <1>8, <2>1 DEF CallerInv, Spawning
<1>4. WatchInv'
  <2> SUFFICES ASSUME NEW k \in Jobs PROVE Fate(k)'
    BY DEF WatchInv
  <2>0. Fate(k)
    BY DEF WatchInv
  <2>1. CASE k = j
    BY <2>0, <2>1, <1>9, JobNumbers DEF Fate, True, Born, Knows, Says, Ended, Final,
       JobsTypeOK, DecideLost, Decide, Move, In, tableVars, fateVars, procVars, watchVars,
       callVars, loopVars
  <2>2. CASE k # j
    <3>1. /\ watcher'[k] = watcher[k] /\ child'[k] = child[k] /\ verdict'[k] = verdict[k]
          /\ status' = status /\ completed' = completed /\ cancelled' = cancelled
          /\ pipe' = pipe /\ erred \subseteq erred'
      BY <2>2, <1>9 DEF JobsTypeOK, DecideLost, Decide, Move, In, fateVars
    <3> QED
      BY <2>0, <3>1 DEF Fate, True, Born, Knows, Says, Ended, Final
  <2> QED BY <2>1, <2>2
<1>5. CloseInv'
  BY <1>9, JobNumbers DEF CloseInv, JobsTypeOK, DecideLost, Decide, Move, In,
     tableVars, fateVars, procVars, watchVars, callVars, loopVars
<1> QED BY <1>1, <1>2, <1>3, <1>4, <1>5

(* The watcher kills the child at its time limit.                          *)
LEMMA DecideTimeoutStep ==
    ASSUME JobsInv, NEW j \in Jobs, DecideTimeout(j)
    PROVE  JobsInv'
<1> USE DEF JobsInv
<1>9. /\ \A k \in Jobs : child'[k] = "none" <=> child[k] = "none"
      /\ \A k \in Jobs : k # j => child'[k] = child[k]
      /\ child' \in [Jobs -> Ended \cup {"none", "running"}]
      /\ child[j] # "none" => child'[j] \in Ended \/ j \in erred'
      /\ child[j] \in Ended => child'[j] = child[j]
      /\ pipe' = pipe /\ erred \subseteq erred' /\ erred' \subseteq Jobs
  BY KilledChild DEF DecideTimeout
<1>8. /\ watcher[j] = "select" /\ watcher' = [watcher EXCEPT ![j] = "decided"]
      /\ watcher \in [Jobs -> {"unborn"} \cup Born]
      /\ UNCHANGED <<made, held, jobs, pc, at>>
  BY DEF DecideTimeout, Decide, In, Move, JobsTypeOK, Born, tableVars, callVars
<1>1. JobsTypeOK'
  BY <1>9, JobNumbers DEF JobsTypeOK, None, DecideTimeout, Decide, Move, In,
     tableVars, fateVars, procVars, watchVars, callVars, loopVars, Ended, Final
<1>2. TableInv'
  BY <1>8, <1>9, JobNumbers DEF TableInv, Spawning, Born
<1>3. CallerInv'
  <2>1. \A k \in Jobs : /\ watcher'[k] = "unborn" <=> watcher[k] = "unborn"
                        /\ child'[k] = "none" <=> child[k] = "none"
    BY <1>8, <1>9
  <2> QED BY <1>8, <2>1 DEF CallerInv, Spawning
<1>4. WatchInv'
  <2> SUFFICES ASSUME NEW k \in Jobs PROVE Fate(k)'
    BY DEF WatchInv
  <2>0. Fate(k)
    BY DEF WatchInv
  <2>1. CASE k = j
    BY <2>0, <2>1, <1>9, JobNumbers DEF Fate, True, Born, Knows, Says, Ended, Final,
       JobsTypeOK, DecideTimeout, Decide, Move, In, tableVars, fateVars, procVars, watchVars,
       callVars, loopVars
  <2>2. CASE k # j
    <3>1. /\ watcher'[k] = watcher[k] /\ child'[k] = child[k] /\ verdict'[k] = verdict[k]
          /\ status' = status /\ completed' = completed /\ cancelled' = cancelled
          /\ pipe' = pipe /\ erred \subseteq erred'
      BY <2>2, <1>9 DEF JobsTypeOK, DecideTimeout, Decide, Move, In, fateVars
    <3> QED
      BY <2>0, <3>1 DEF Fate, True, Born, Knows, Says, Ended, Final
  <2> QED BY <2>1, <2>2
<1>5. CloseInv'
  BY <1>9, JobNumbers DEF CloseInv, JobsTypeOK, DecideTimeout, Decide, Move, In,
     tableVars, fateVars, procVars, watchVars, callVars, loopVars
<1> QED BY <1>1, <1>2, <1>3, <1>4, <1>5

(* The watcher kills the child as it was asked.                            *)
LEMMA DecideCancelStep ==
    ASSUME JobsInv, NEW j \in Jobs, DecideCancel(j)
    PROVE  JobsInv'
<1> USE DEF JobsInv
<1>9. /\ \A k \in Jobs : child'[k] = "none" <=> child[k] = "none"
      /\ \A k \in Jobs : k # j => child'[k] = child[k]
      /\ child' \in [Jobs -> Ended \cup {"none", "running"}]
      /\ child[j] # "none" => child'[j] \in Ended \/ j \in erred'
      /\ child[j] \in Ended => child'[j] = child[j]
      /\ pipe' = pipe /\ erred \subseteq erred' /\ erred' \subseteq Jobs
  BY KilledChild DEF DecideCancel
<1>8. /\ watcher[j] = "select" /\ watcher' = [watcher EXCEPT ![j] = "decided"]
      /\ watcher \in [Jobs -> {"unborn"} \cup Born]
      /\ UNCHANGED <<made, held, jobs, pc, at>>
  BY DEF DecideCancel, Decide, In, Move, JobsTypeOK, Born, tableVars, callVars
<1>1. JobsTypeOK'
  BY <1>9, JobNumbers DEF JobsTypeOK, None, DecideCancel, Decide, Move, In,
     tableVars, fateVars, procVars, watchVars, callVars, loopVars, Ended, Final
<1>2. TableInv'
  BY <1>8, <1>9, JobNumbers DEF TableInv, Spawning, Born
<1>3. CallerInv'
  <2>1. \A k \in Jobs : /\ watcher'[k] = "unborn" <=> watcher[k] = "unborn"
                        /\ child'[k] = "none" <=> child[k] = "none"
    BY <1>8, <1>9
  <2> QED BY <1>8, <2>1 DEF CallerInv, Spawning
<1>4. WatchInv'
  <2> SUFFICES ASSUME NEW k \in Jobs PROVE Fate(k)'
    BY DEF WatchInv
  <2>0. Fate(k)
    BY DEF WatchInv
  <2>1. CASE k = j
    BY <2>0, <2>1, <1>9, JobNumbers DEF Fate, True, Born, Knows, Says, Ended, Final,
       JobsTypeOK, DecideCancel, Decide, Move, In, tableVars, fateVars, procVars, watchVars,
       callVars, loopVars
  <2>2. CASE k # j
    <3>1. /\ watcher'[k] = watcher[k] /\ child'[k] = child[k] /\ verdict'[k] = verdict[k]
          /\ status' = status /\ completed' = completed /\ cancelled' = cancelled
          /\ pipe' = pipe /\ erred \subseteq erred'
      BY <2>2, <1>9 DEF JobsTypeOK, DecideCancel, Decide, Move, In, fateVars
    <3> QED
      BY <2>0, <3>1 DEF Fate, True, Born, Knows, Says, Ended, Final
  <2> QED BY <2>1, <2>2
<1>5. CloseInv'
  BY <1>9, JobNumbers DEF CloseInv, JobsTypeOK, DecideCancel, Decide, Move, In,
     tableVars, fateVars, procVars, watchVars, callVars, loopVars
<1> QED BY <1>1, <1>2, <1>3, <1>4, <1>5

(* The status is set to the verdict.                                       *)
LEMMA SetStatusStep ==
    ASSUME JobsInv, NEW j \in Jobs, SetStatus(j)
    PROVE  JobsInv'
<1> USE DEF JobsInv
<1>1. JobsTypeOK'
  BY JobNumbers DEF JobsTypeOK, None, SetStatus, Move, In, tableVars, fateVars,
     procVars, watchVars, callVars, loopVars, Ended, Final
<1>2. TableInv'
  BY JobNumbers DEF TableInv, Born, CallerInv, Spawning, WatchInv, Fate, True,
     Ended, Knows, JobsTypeOK, SetStatus, Move, In, tableVars, fateVars, procVars, watchVars,
     callVars, loopVars
<1>3. CallerInv'
  BY JobNumbers DEF CallerInv, Spawning, None, TableInv, Born, JobsTypeOK,
     SetStatus, Move, In, tableVars, fateVars, procVars, watchVars, callVars, loopVars
<1>4. WatchInv'
  <2> SUFFICES ASSUME NEW k \in Jobs PROVE Fate(k)'
    BY DEF WatchInv
  <2>0. Fate(k)
    BY DEF WatchInv
  <2>1. CASE k = j
    BY <2>0, <2>1, JobNumbers DEF Fate, True, Born, Knows, Says, Ended, Final,
       JobsTypeOK, SetStatus, Move, In, tableVars, fateVars, procVars, watchVars, callVars,
       loopVars
  <2>2. CASE k # j
    BY <2>0, <2>2, JobNumbers DEF Fate, True, Born, Knows, Says, Ended, Final,
       JobsTypeOK, SetStatus, Move, In, tableVars, fateVars, procVars, watchVars, callVars,
       loopVars
  <2> QED BY <2>1, <2>2
<1>5. CloseInv'
  BY JobNumbers DEF CloseInv, JobsTypeOK, SetStatus, Move, In, tableVars, fateVars,
     procVars, watchVars, callVars, loopVars
<1> QED BY <1>1, <1>2, <1>3, <1>4, <1>5

(* The completion is sent.                                                 *)
LEMMA CompleteStep ==
    ASSUME JobsInv, NEW j \in Jobs, Complete(j)
    PROVE  JobsInv'
<1> USE DEF JobsInv
<1>1. JobsTypeOK'
  BY JobNumbers DEF JobsTypeOK, None, Complete, Move, In, tableVars, fateVars,
     procVars, watchVars, callVars, loopVars
<1>2. TableInv'
  BY JobNumbers DEF TableInv, Born, CallerInv, Spawning, WatchInv, Fate, True,
     Ended, Knows, JobsTypeOK, Complete, Move, In, tableVars, fateVars, procVars, watchVars,
     callVars, loopVars
<1>3. CallerInv'
  BY JobNumbers DEF CallerInv, Spawning, None, TableInv, Born, JobsTypeOK, Complete,
     Move, In, tableVars, fateVars, procVars, watchVars, callVars, loopVars
<1>4. WatchInv'
  <2> SUFFICES ASSUME NEW k \in Jobs PROVE Fate(k)'
    BY DEF WatchInv
  <2>0. Fate(k)
    BY DEF WatchInv
  <2>1. CASE k = j
    BY <2>0, <2>1, JobNumbers DEF Fate, True, Born, Knows, Says, Ended, Final,
       JobsTypeOK, Complete, Move, In, tableVars, fateVars, procVars, watchVars, callVars,
       loopVars
  <2>2. CASE k # j
    BY <2>0, <2>2, JobNumbers DEF Fate, True, Born, Knows, Says, Ended, Final,
       JobsTypeOK, Complete, Move, In, tableVars, fateVars, procVars, watchVars, callVars,
       loopVars
  <2> QED BY <2>1, <2>2
<1>5. CloseInv'
  BY JobNumbers DEF CloseInv, JobsTypeOK, Complete, Move, In, tableVars, fateVars,
     procVars, watchVars, callVars, loopVars
<1> QED BY <1>1, <1>2, <1>3, <1>4, <1>5

(* The permit of a job that is over is free.                               *)
LEMMA FreeStep ==
    ASSUME JobsInv, NEW j \in Jobs, Free(j)
    PROVE  JobsInv'
<1> USE DEF JobsInv
<1>9. Cardinality(held') <= MaxJobs
  BY FewerHeld DEF Free
<1>1. JobsTypeOK'
  BY <1>9, JobNumbers DEF JobsTypeOK, None, Free, Move, In, tableVars, fateVars,
     procVars, watchVars, callVars, loopVars
<1>2. TableInv'
  BY <1>9, JobNumbers DEF TableInv, Born, CallerInv, Spawning, WatchInv, Fate, True,
     Ended, Knows, JobsTypeOK, Free, Move, In, tableVars, fateVars, procVars, watchVars,
     callVars, loopVars
<1>3. CallerInv'
  BY <1>9, JobNumbers DEF CallerInv, Spawning, None, TableInv, Born, JobsTypeOK,
     Free, Move, In, tableVars, fateVars, procVars, watchVars, callVars, loopVars
<1>4. WatchInv'
  <2> SUFFICES ASSUME NEW k \in Jobs PROVE Fate(k)'
    BY DEF WatchInv
  <2>0. Fate(k)
    BY DEF WatchInv
  <2>1. CASE k = j
    BY <2>0, <2>1, <1>9, JobNumbers DEF Fate, True, Born, Knows, Says, Ended, Final,
       JobsTypeOK, Free, Move, In, tableVars, fateVars, procVars, watchVars, callVars,
       loopVars
  <2>2. CASE k # j
    BY <2>0, <2>2, <1>9, JobNumbers DEF Fate, True, Born, Knows, Says, Ended, Final,
       JobsTypeOK, Free, Move, In, tableVars, fateVars, procVars, watchVars, callVars,
       loopVars
  <2> QED BY <2>1, <2>2
<1>5. CloseInv'
  BY <1>9, JobNumbers DEF CloseInv, JobsTypeOK, Free, Move, In, tableVars, fateVars,
     procVars, watchVars, callVars, loopVars
<1> QED BY <1>1, <1>2, <1>3, <1>4, <1>5

(* The shutdown looks at the table.                                        *)
LEMMA CloseAllStep ==
    ASSUME JobsInv, CloseAll
    PROVE  JobsInv'
<1> USE DEF JobsInv
<1>1. JobsTypeOK'
  BY JobNumbers DEF JobsTypeOK, None, CloseAll, tableVars, fateVars, procVars, watchVars,
     callVars, loopVars
<1>2. TableInv'
  BY JobNumbers DEF TableInv, Born, CallerInv, Spawning, WatchInv, Fate, True,
     Ended, Knows, JobsTypeOK, CloseAll, tableVars, fateVars, procVars, watchVars, callVars,
     loopVars
<1>3. CallerInv'
  BY JobNumbers DEF CallerInv, Spawning, None, TableInv, Born, JobsTypeOK, CloseAll,
     tableVars, fateVars, procVars, watchVars, callVars, loopVars
<1>4. WatchInv'
  BY JobNumbers DEF WatchInv, Fate, True, Born, Knows, Says, Ended, Final,
     JobsTypeOK, CloseAll, tableVars, fateVars, procVars, watchVars, callVars, loopVars
<1>5. CloseInv'
  BY JobNumbers DEF CloseInv, JobsTypeOK, CloseAll, tableVars, fateVars, procVars, watchVars,
     callVars, loopVars
<1> QED BY <1>1, <1>2, <1>3, <1>4, <1>5

(* It cancels a job.                                                       *)
LEMMA CancelNextStep ==
    ASSUME JobsInv, CancelNext
    PROVE  JobsInv'
<1> USE DEF JobsInv
<1>1. JobsTypeOK'
  BY JobNumbers DEF JobsTypeOK, None, CancelNext, CancelUnlessFinal, IsFinal,
     tableVars, fateVars, procVars, watchVars, callVars, loopVars, Final
<1>6. UNCHANGED <<made, held, jobs, child, watcher, pc, at>>
  BY DEF CancelNext, tableVars, procVars, watchVars, callVars
<1>2. TableInv'
  BY <1>6 DEF TableInv
<1>3. CallerInv'
  BY <1>6 DEF CallerInv, Spawning
<1>4. WatchInv'
  BY JobNumbers DEF WatchInv, Fate, True, Born, Knows, Says, Ended, Final,
     JobsTypeOK, CancelNext, CancelUnlessFinal, IsFinal, tableVars, fateVars,
     procVars, watchVars, callVars, loopVars
<1>5. CloseInv'
  BY JobNumbers DEF CloseInv, JobsTypeOK, CancelNext, CancelUnlessFinal, IsFinal,
     tableVars, fateVars, procVars, watchVars, callVars, loopVars, Final
<1> QED BY <1>1, <1>2, <1>3, <1>4, <1>5

(* It turns to waiting for all of them.                                    *)
LEMMA AllCancelledStep ==
    ASSUME JobsInv, AllCancelled
    PROVE  JobsInv'
<1> USE DEF JobsInv
<1>1. JobsTypeOK'
  BY JobNumbers DEF JobsTypeOK, None, AllCancelled, tableVars, fateVars, procVars, watchVars,
     callVars, loopVars
<1>2. TableInv'
  BY JobNumbers DEF TableInv, Born, CallerInv, Spawning, WatchInv, Fate, True,
     Ended, Knows, JobsTypeOK, AllCancelled, tableVars, fateVars, procVars, watchVars,
     callVars, loopVars
<1>3. CallerInv'
  BY JobNumbers DEF CallerInv, Spawning, None, TableInv, Born, JobsTypeOK,
     AllCancelled, tableVars, fateVars, procVars, watchVars, callVars, loopVars
<1>4. WatchInv'
  BY JobNumbers DEF WatchInv, Fate, True, Born, Knows, Says, Ended, Final,
     JobsTypeOK, AllCancelled, tableVars, fateVars, procVars, watchVars, callVars, loopVars
<1>5. CloseInv'
  BY JobNumbers DEF CloseInv, JobsTypeOK, AllCancelled, tableVars, fateVars,
     procVars, watchVars, callVars, loopVars
<1> QED BY <1>1, <1>2, <1>3, <1>4, <1>5

(* A job it waited for is over.                                            *)
LEMMA AwaitNextStep ==
    ASSUME JobsInv, AwaitNext
    PROVE  JobsInv'
<1> USE DEF JobsInv
<1>1. JobsTypeOK'
  BY JobNumbers DEF JobsTypeOK, None, AwaitNext, Finished, tableVars, fateVars,
     procVars, watchVars, callVars, loopVars
<1>2. TableInv'
  BY JobNumbers DEF TableInv, Born, CallerInv, Spawning, WatchInv, Fate, True,
     Ended, Knows, JobsTypeOK, AwaitNext, Finished, tableVars, fateVars, procVars, watchVars,
     callVars, loopVars
<1>3. CallerInv'
  BY JobNumbers DEF CallerInv, Spawning, None, TableInv, Born, JobsTypeOK,
     AwaitNext, Finished, tableVars, fateVars, procVars, watchVars, callVars, loopVars
<1>4. WatchInv'
  BY JobNumbers DEF WatchInv, Fate, True, Born, Knows, Says, Ended, Final,
     JobsTypeOK, AwaitNext, Finished, tableVars, fateVars, procVars, watchVars, callVars,
     loopVars
<1>5. CloseInv'
  BY JobNumbers DEF CloseInv, JobsTypeOK, AwaitNext, Finished, tableVars, fateVars,
     procVars, watchVars, callVars, loopVars
<1> QED BY <1>1, <1>2, <1>3, <1>4, <1>5

(* It is over.                                                             *)
LEMMA AllClosedStep ==
    ASSUME JobsInv, AllClosed
    PROVE  JobsInv'
<1> USE DEF JobsInv
<1>1. JobsTypeOK'
  BY JobNumbers DEF JobsTypeOK, None, AllClosed, tableVars, fateVars, procVars, watchVars,
     callVars, loopVars
<1>2. TableInv'
  BY JobNumbers DEF TableInv, Born, CallerInv, Spawning, WatchInv, Fate, True,
     Ended, Knows, JobsTypeOK, AllClosed, tableVars, fateVars, procVars, watchVars, callVars,
     loopVars
<1>3. CallerInv'
  BY JobNumbers DEF CallerInv, Spawning, None, TableInv, Born, JobsTypeOK,
     AllClosed, tableVars, fateVars, procVars, watchVars, callVars, loopVars
<1>4. WatchInv'
  BY JobNumbers DEF WatchInv, Fate, True, Born, Knows, Says, Ended, Final,
     JobsTypeOK, AllClosed, tableVars, fateVars, procVars, watchVars, callVars, loopVars
<1>5. CloseInv'
  BY JobNumbers DEF CloseInv, JobsTypeOK, AllClosed, tableVars, fateVars, procVars, watchVars,
     callVars, loopVars
<1> QED BY <1>1, <1>2, <1>3, <1>4, <1>5

(* A child ends by itself.                                                 *)
LEMMA ExitStep ==
    ASSUME JobsInv, NEW j \in Jobs, Exit(j)
    PROVE  JobsInv'
<1> USE DEF JobsInv
<1>9. PICK x \in {"good", "bad"} : child' = [child EXCEPT ![j] = x]
  BY DEF Exit
<1>1. JobsTypeOK'
  BY <1>9, JobNumbers DEF JobsTypeOK, None, Exit, tableVars, fateVars, procVars, watchVars,
     callVars, loopVars, Ended, Final
<1>2. TableInv'
  BY <1>9, JobNumbers DEF TableInv, Born, CallerInv, Spawning, WatchInv, Fate, True,
     Ended, Knows, JobsTypeOK, Exit, tableVars, fateVars, procVars, watchVars, callVars,
     loopVars
<1>3. CallerInv'
  BY <1>9, JobNumbers DEF CallerInv, Spawning, None, TableInv, Born, JobsTypeOK,
     Exit, tableVars, fateVars, procVars, watchVars, callVars, loopVars
<1>4. WatchInv'
  <2> SUFFICES ASSUME NEW k \in Jobs PROVE Fate(k)'
    BY DEF WatchInv
  <2>0. Fate(k)
    BY DEF WatchInv
  <2>1. CASE k = j
    BY <2>0, <2>1, <1>9, JobNumbers DEF Fate, True, Born, Knows, Says, Ended, Final,
       JobsTypeOK, Exit, tableVars, fateVars, procVars, watchVars, callVars, loopVars
  <2>2. CASE k # j
    BY <2>0, <2>2, <1>9, JobNumbers DEF Fate, True, Born, Knows, Says, Ended, Final,
       JobsTypeOK, Exit, tableVars, fateVars, procVars, watchVars, callVars, loopVars
  <2> QED BY <2>1, <2>2
<1>5. CloseInv'
  BY <1>9, JobNumbers DEF CloseInv, JobsTypeOK, Exit, tableVars, fateVars,
     procVars, watchVars, callVars, loopVars
<1> QED BY <1>1, <1>2, <1>3, <1>4, <1>5

(* The output of a review has ended.                                       *)
LEMMA PipeEndsStep ==
    ASSUME JobsInv, NEW j \in Jobs, PipeEnds(j)
    PROVE  JobsInv'
<1> USE DEF JobsInv
<1>9. /\ pipe' \subseteq pipe /\ child' = child /\ erred' = erred
      /\ UNCHANGED <<tableVars, fateVars, watchVars, callVars, loopVars, over>>
  BY DEF PipeEnds
<1>1. JobsTypeOK'
  BY <1>9 DEF JobsTypeOK, tableVars, fateVars, watchVars, callVars, loopVars
<1>2. TableInv'
  BY <1>9 DEF TableInv, tableVars, watchVars
<1>3. CallerInv'
  BY <1>9 DEF CallerInv, Spawning, tableVars, watchVars, callVars
<1>4. WatchInv'
  BY <1>9 DEF WatchInv, Fate, True, fateVars, watchVars
<1>5. CloseInv'
  BY <1>9 DEF CloseInv, tableVars, fateVars, loopVars
<1> QED BY <1>1, <1>2, <1>3, <1>4, <1>5

-----------------------------------------------------------------------------
LEMMA StepInv == JobsInv /\ [Next]_vars => JobsInv'
<1> SUFFICES ASSUME JobsInv, [Next]_vars PROVE JobsInv'
  OBVIOUS
<1>1. CASE UNCHANGED vars
  <2> USE <1>1 DEF JobsInv, vars, tableVars, fateVars, procVars, watchVars, callVars, loopVars
  <2>1. JobsTypeOK' BY DEF JobsTypeOK
  <2>2. TableInv' BY DEF TableInv
  <2>3. CallerInv' BY DEF CallerInv, Spawning, At
  <2>4. WatchInv' BY DEF WatchInv, Fate, True
  <2>5. CloseInv' BY DEF CloseInv
  <2> QED BY <2>1, <2>2, <2>3, <2>4, <2>5
<1>2. ASSUME NEW c \in Callers, Call(c) PROVE JobsInv'
  <2>1. jobs \subseteq Jobs
    BY DEF JobsInv, JobsTypeOK
  <2> QED BY <1>2, <2>1, ReserveStep, SpawnFailsStep, LaunchStep, RegisterStep, CloseStep,
            CloseCancelsStep, CloseReturnsStep, DropStep DEF Call
<1>3. ASSUME NEW j \in Jobs, Watch(j) \/ Exit(j) \/ PipeEnds(j) PROVE JobsInv'
  BY <1>3, DecideExitStep, DecideLostStep, DecideTimeoutStep, DecideCancelStep, SetStatusStep,
     CompleteStep, FreeStep, ExitStep, PipeEndsStep DEF Watch
<1>4. CASE Shutdown
  BY <1>4, CloseAllStep, CancelNextStep, AllCancelledStep, AwaitNextStep, AllClosedStep
     DEF Shutdown
<1> QED BY <1>1, <1>2, <1>3, <1>4 DEF Next

THEOREM JobsInvariant == Spec => []JobsInv
  BY InitInv, StepInv, PTL DEF Spec

(* Type correctness of the table, its calls and its watchers.              *)
THEOREM JobsTypes == Spec => []JobsTypeOK
<1>1. JobsInv => JobsTypeOK BY DEF JobsInv
<1> QED BY <1>1, JobsInvariant, PTL

(* A final status tells the truth about the child, unless waiting for it   *)
(* or killing it returned an error (agent_jobs/mod.rs:906-942).            *)
THEOREM TrueStatus == Spec => []StatusIsTrue
<1>1. JobsInv => StatusIsTrue
  BY DEF JobsInv, WatchInv, Fate, True, StatusIsTrue, IsFinal, JobsTypeOK, Says, Knows, Born, Final
<1> QED BY <1>1, JobsInvariant, PTL

(* A job that was closed is over, and its child is gone unless waiting for *)
(* it or killing it returned an error (agent_jobs/mod.rs:565).             *)
THEOREM ClosedOver == Spec => []ClosedIsOver
<1>1. JobsInv => ClosedIsOver
  BY DEF JobsInv, CloseInv, WatchInv, Fate, True, ClosedIsOver, IsFinal, JobsTypeOK, Says, Knows, Born
<1> QED BY <1>1, JobsInvariant, PTL

(* Only orphans, and children that could not be awaited or killed, escape  *)
(* the limit of the semaphore (agent_jobs/mod.rs:305).                     *)
THEOREM LimitKept == Spec => []LimitHeld
<1>1. JobsInv => LimitHeld
  <2> SUFFICES ASSUME JobsInv PROVE LimitHeld
    OBVIOUS
  <2> DEFINE running == {j \in Jobs : child[j] = "running" /\ ~Orphan(j) /\ j \notin erred}
  <2>1. running \subseteq held
    BY DEF JobsInv, TableInv, CallerInv, WatchInv, Fate, True, Orphan, JobsTypeOK, Spawning, At, Born,
       Knows, Ended
  <2>2. held \subseteq Jobs /\ Cardinality(held) <= MaxJobs
    BY DEF JobsInv, JobsTypeOK, TableInv
  <2>3. IsFiniteSet(held) /\ Cardinality(held) \in Nat /\ Cardinality(running) \in Nat
    BY <2>1, <2>2, HeldFinite
  <2>4. Cardinality(running) <= Cardinality(held)
    BY <2>1, <2>3, FS_Subset
  <2> QED BY <2>2, <2>3, <2>4 DEF LimitHeld
<1> QED BY <1>1, JobsInvariant, PTL

(* What outlives the shutdown came after it looked, or could not be        *)
(* awaited or killed (agent_jobs/mod.rs:487).                              *)
THEOREM LateSurvivors == Spec => []SurvivorsAreLate
<1>1. JobsInv => SurvivorsAreLate
  BY DEF JobsInv, CloseInv, WatchInv, Fate, True, SurvivorsAreLate, JobsTypeOK, Knows, Born, Ended
<1> QED BY <1>1, JobsInvariant, PTL
=============================================================================
