-------------------------- MODULE MemoryJobsProofs --------------------------
(***************************************************************************)
(* Theorems about MemoryJobs for any number of sessions, threads and       *)
(* updates.                                                                *)
(***************************************************************************)
EXTENDS MemoryJobs, TLAPS

-----------------------------------------------------------------------------
(***************************************************************************)
(* Rows.                                                                   *)
(***************************************************************************)
LEMMA NoRowType == NoRow \in Row
  BY MemoryAssumption DEF NoRow, Row

LEMMA ClaimedType ==
  ASSUME NEW r \in Row, NEW w \in Worker, NEW i \in Nat
  PROVE  Claimed(r, w, i) \in Row
<1> DEFINE left == IF r.status = None THEN Retries ELSE r.left
<1>1. left \in 0 .. Retries
  BY MemoryAssumption DEF Row
<1>2. Claimed(r, w, i) = [r EXCEPT !.status = "running", !.owner = w, !.lease = TRUE,
                                   !.input = i, !.left = left]
  BY DEF Claimed
<1> HIDE DEF left
<1> QED
  BY <1>1, <1>2 DEF Row

LEMMA DisownType ==
  ASSUME NEW r \in Row, NEW w \in Worker
  PROVE  Disown(w, r) \in Row
  BY DEF Disown, Row

LEMMA SucceededType ==
  ASSUME NEW r \in Row, NEW i \in Nat
  PROVE  Succeeded(r, i) \in Row
  BY DEF Succeeded, Row

LEMMA FailedType ==
  ASSUME NEW r \in Row
  PROVE  Failed(r) \in Row
<1> DEFINE left == IF r.left > 0 THEN r.left - 1 ELSE 0
<1>1. left \in 0 .. Retries
  BY MemoryAssumption DEF Row
<1>2. Failed(r) = [r EXCEPT !.status = "error", !.owner = Gone, !.lease = FALSE,
                            !.due = FALSE, !.left = left]
  BY DEF Failed
<1> HIDE DEF left
<1> QED
  BY <1>1, <1>2 DEF Row

LEMMA BumpedType ==
  ASSUME NEW r \in Row, NEW i \in Nat
  PROVE  /\ Bumped(r, i) \in Row
         /\ Bumped(r, i).input > r.input /\ Bumped(r, i).input >= i
         /\ Bumped(r, i).success = r.success
         /\ Bumped(r, i).owner = r.owner /\ Bumped(r, i).lease = r.lease
         /\ r.status = "running" <=> Bumped(r, i).status = "running"
<1> DEFINE status == IF r.status = "running" THEN r.status ELSE "pending"
           due == r.due \/ r.status # "running"
           input == IF i > r.input THEN i ELSE r.input + 1
           left == Maximum(r.left, Retries)
<1>1. input \in Nat /\ input > r.input /\ input >= i
  BY DEF Row
<1>2. left \in 0 .. Retries
  BY MemoryAssumption DEF Row, Maximum
<1>3. due \in BOOLEAN /\ status \in {"running", "pending"}
      /\ (r.status = "running" <=> status = "running")
  OBVIOUS
<1>4. Bumped(r, i) = [r EXCEPT !.status = status, !.due = due, !.input = input, !.left = left]
  BY DEF Bumped
<1> HIDE DEF status, due, input, left
<1> QED
  BY <1>1, <1>2, <1>3, <1>4 DEF Row

LEMMA UpsertedType ==
  ASSUME NEW o \in OutRow \cup {None}, NEW i \in Times
  PROVE  /\ Upserted(o, i) \in OutRow
         /\ o # None => Upserted(o, i).src >= o.src
         /\ Upserted(o, i).src = i \/ (o # None /\ Upserted(o, i).src = o.src)
<1>1. CASE o = None
  <2>1. Upserted(o, i) = [src |-> i, recent |-> TRUE, used |-> None, picked |-> None]
    BY <1>1 DEF Upserted
  <2> QED
    BY <1>1, <2>1 DEF OutRow
<1>2. CASE o # None /\ i >= o.src
  <2>1. Upserted(o, i) = [o EXCEPT !.src = i, !.recent = TRUE]
    BY <1>2 DEF Upserted
  <2> QED
    BY <1>2, <2>1 DEF OutRow
<1>3. CASE o # None /\ ~(i >= o.src)
  <2>1. Upserted(o, i) = o
    BY <1>3 DEF Upserted
  <2> QED
    BY <1>3, <2>1 DEF OutRow, Times
<1> QED
  BY <1>1, <1>2, <1>3

-----------------------------------------------------------------------------
(***************************************************************************)
(* Type correctness, one lemma for each part of the state.                 *)
(***************************************************************************)
OutTypes == out \in [Thread -> OutRow \cup {None}]
JobTypes == job \in [Thread -> Row]
GlobTypes == glob \in Row /\ cooling \in BOOLEAN
SpaceTypes ==
    /\ files \subseteq Memory /\ book \subseteq Memory
    /\ base \in Baseline \cup {None}
    /\ stuck \subseteq Memory
RunTypes ==
    /\ pc \in [Worker -> WorkerPC]
    /\ scan \in [Worker -> SUBSET Memory] /\ claims \in [Worker -> SUBSET Memory]
    /\ mark \in [Worker -> Nat] /\ sel \in [Worker -> SUBSET Memory]
RestTypes ==
    /\ updated \in [Thread -> Times] /\ aged \subseteq Thread
    /\ mode \in [Thread -> {"enabled", "picked", "unpicked", "bumping", "polluted"}]
    /\ faults \in 0 .. MaxFault
    /\ late \subseteq Worker /\ stale \subseteq Worker /\ missed \in BOOLEAN

LEMMA Parts ==
  MemoryTypeOK <=> OutTypes /\ JobTypes /\ GlobTypes /\ SpaceTypes /\ RunTypes /\ RestTypes
  BY DEF MemoryTypeOK, OutTypes, JobTypes, GlobTypes, SpaceTypes, RunTypes, RestTypes

LEMMA MemoryFields ==
  ASSUME NEW m \in Memory
  PROVE  m.thread \in Thread /\ m.src \in Times /\ m.src \in Nat
  BY MemoryAssumption DEF Memory, Times


LEMMA OutStep ==
  ASSUME MemoryTypeOK, [Next]_vars
  PROVE  OutTypes'
<1> USE DEF OutTypes
<1>1. out \in [Thread -> OutRow \cup {None}] /\ claims \in [Worker -> SUBSET Memory]
  BY DEF MemoryTypeOK
<1>2. ASSUME NEW w \in Worker, Start(w) PROVE OutTypes'
  BY <1>1, <1>2 DEF Start
<1>3. ASSUME NEW w \in Worker, NEW m \in claims[w], ExtractSucceeds(w, m) PROVE OutTypes'
  <2>1. m.thread \in Thread /\ m.src \in Times
    BY <1>1, <1>3 DEF Memory
  <2>2. Upserted(out[m.thread], m.src) \in OutRow
    BY <1>1, <2>1, UpsertedType
  <2> QED
    BY <1>1, <1>3, <2>1, <2>2 DEF ExtractSucceeds
<1>4. ASSUME NEW w \in Worker, NEW m \in claims[w], ExtractsNothing(w, m) PROVE OutTypes'
  BY <1>1, <1>4 DEF ExtractsNothing
<1>5. ASSUME NEW w \in Worker, ReportSuccess(w) PROVE OutTypes'
  <2>1. CASE Owns(w, glob)
    <3>1. ASSUME NEW t \in Thread, NEW p \in {out[t].src, None}, out[t] # None
          PROVE  [out[t] EXCEPT !.picked = p] \in OutRow
      BY <1>1, <3>1 DEF OutRow
    <3>2. ASSUME NEW t \in Thread, out[t] # None
          PROVE  [out[t] EXCEPT !.picked = IF [thread |-> t, src |-> out[t].src] \in sel[w]
                                          THEN out[t].src ELSE None] \in OutRow
      BY <3>1, <3>2
    <3> QED
      BY <1>5, <2>1, <3>2 DEF ReportSuccess
  <2>2. CASE ~Owns(w, glob)
    BY <1>1, <1>5, <2>2 DEF ReportSuccess
  <2> QED
    BY <2>1, <2>2
<1>6. ASSUME NEW t \in Thread, Use(t) PROVE OutTypes'
  BY <1>1, <1>6 DEF Use, OutRow
<1>7. ASSUME NEW t \in Thread, Age(t) PROVE OutTypes'
  <2>1. [out[t] EXCEPT !.recent = FALSE, !.used = IF @ = None THEN None ELSE "old"] \in OutRow
    <3> DEFINE used == IF out[t].used = None THEN None ELSE "old"
    <3>1. used \in {None, "recent", "old"}
      OBVIOUS
    <3> HIDE DEF used
    <3>2. [out[t] EXCEPT !.recent = FALSE, !.used = used] \in OutRow
      BY <1>1, <1>7, <3>1 DEF Age, OutRow
    <3> QED
      BY <3>2 DEF used
  <2>2. out' = [out EXCEPT ![t] =
                  [out[t] EXCEPT !.recent = FALSE, !.used = IF @ = None THEN None ELSE "old"]]
    BY <1>1, <1>7 DEF Age
  <2> QED
    BY <1>1, <2>1, <2>2
<1>8. CASE UNCHANGED out
  BY <1>1, <1>8
<1> QED
  BY <1>2, <1>3, <1>4, <1>5, <1>6, <1>7, <1>8
     DEF Next, Work, Startup, Extract, Consolidate, Arrange, Pollute, Pass, vars, dbVars,
            threadVars, Scan, Look, Take, ScanDone, ExtractFails, ScanFails, LookGlobal,
            ClaimGlobal, ReadMark, SelectKeys, SelectRows, Prepare, Prune, Sync, Diff, AgentWrites,
            Heartbeat, Quit, ResetBaseline, Commit, Fault, Quit, ReportFailure, Crash, UserTurn,
            Expire, PolluteReads, PolluteWrites, PolluteBumps, PolluteCrashes, LeaseOver, RetryDue,
            GlobalLeaseOver, GlobalRetryDue, CooldownOver

LEMMA JobStep ==
  ASSUME MemoryTypeOK, [Next]_vars
  PROVE  JobTypes'
<1> USE DEF JobTypes
<1>1. job \in [Thread -> Row] /\ claims \in [Worker -> SUBSET Memory]
      /\ sel \in [Worker -> SUBSET Memory]
  BY DEF MemoryTypeOK
<1>2. ASSUME NEW w \in Worker, Take(w) PROVE JobTypes'
  <2>1. ASSUME NEW m \in sel[w]
        PROVE  m.thread \in Thread /\ Claimed(job[m.thread], w, m.src) \in Row
    <3>1. m \in Memory
      BY <1>1
    <3> QED
      BY <1>1, <3>1, MemoryFields, ClaimedType
  <2>2. PICK m \in sel[w] : \/ job' = [job EXCEPT ![m.thread] = Claimed(job[m.thread], w, m.src)]
                           \/ job' = job
    BY <1>1, <1>2 DEF Take
  <2>3. Claimed(job[m.thread], w, m.src) \in Row
    BY <2>1
  <2> QED
    BY <1>1, <2>2, <2>3
<1>3. ASSUME NEW w \in Worker, ScanFails(w) \/ Crash(w) PROVE JobTypes'
  BY <1>1, <1>3, DisownType DEF ScanFails, Crash
<1>4. ASSUME NEW w \in Worker, NEW m \in claims[w],
             ExtractSucceeds(w, m) \/ ExtractsNothing(w, m) \/ ExtractFails(w, m)
      PROVE  JobTypes'
  <2>1. m.thread \in Thread /\ m.src \in Nat
    <3>1. m \in Memory
      BY <1>1
    <3> QED
      BY <3>1, MemoryFields
  <2>2. job[m.thread] \in Row /\ job[m.thread].input \in Nat
    BY <1>1, <2>1 DEF Row
  <2>3. /\ Succeeded(job[m.thread], m.src) \in Row
        /\ Succeeded(job[m.thread], job[m.thread].input) \in Row
        /\ Failed(job[m.thread]) \in Row /\ Disown(w, job[m.thread]) \in Row
    BY <2>1, <2>2, SucceededType, FailedType, DisownType
  <2>4. \E r \in Row : job' = [job EXCEPT ![m.thread] = r]
    <3>1. CASE ExtractSucceeds(w, m)
      BY <1>1, <2>1, <2>2, <2>3, <3>1 DEF ExtractSucceeds
    <3>2. CASE ExtractsNothing(w, m)
      BY <1>1, <2>1, <2>2, <2>3, <3>2 DEF ExtractsNothing
    <3>3. CASE ExtractFails(w, m)
      BY <1>1, <2>1, <2>2, <2>3, <3>3 DEF ExtractFails
    <3> QED
      BY <1>4, <3>1, <3>2, <3>3
  <2> QED
    BY <1>1, <2>4
<1>5. ASSUME NEW t \in Thread, LeaseOver(t) \/ RetryDue(t) PROVE JobTypes'
  <2>1. [job[t] EXCEPT !.lease = FALSE] \in Row /\ [job[t] EXCEPT !.due = TRUE] \in Row
    BY <1>1 DEF Row
  <2> QED
    BY <1>1, <1>5, <2>1 DEF LeaseOver, RetryDue
<1>6. CASE UNCHANGED job
  BY <1>1, <1>6
<1> QED
  BY <1>2, <1>3, <1>4, <1>5, <1>6
     DEF Next, Work, Startup, Extract, Consolidate, Arrange, Pollute, Pass, vars, dbVars,
            threadVars, Start, Scan, Look, ScanDone, LookGlobal, ClaimGlobal, ReadMark, SelectKeys,
            SelectRows, Prepare, Prune, Sync, Diff, AgentWrites, Heartbeat, Quit, ResetBaseline,
            Commit, ReportSuccess, Fault, Quit, ReportFailure, UserTurn, PolluteReads,
            PolluteWrites, PolluteBumps, PolluteCrashes, Use, Age, Expire, GlobalLeaseOver,
            GlobalRetryDue, CooldownOver

LEMMA CompletionType ==
  ASSUME MemoryTypeOK, NEW w \in Worker, NEW c \in Completion(w)
  PROVE  /\ c \in Nat
         /\ c = mark[w] \/ \E m \in sel[w] : c = m.src
<1>1. mark[w] \in Nat /\ sel[w] \subseteq Memory
  BY DEF MemoryTypeOK
<1>2. c \in {mark[w]} \cup {m.src : m \in sel[w]}
  BY DEF Completion
<1> QED
  BY <1>1, <1>2, MemoryFields

LEMMA ReportedType ==
  ASSUME NEW r \in Row, NEW c \in Nat
  PROVE  LET n == [Succeeded(r, c) EXCEPT !.input = Maximum(@, c)] IN
         /\ n \in Row /\ n.status = "done" /\ n.owner = Gone /\ n.success = c
         /\ n.input = IF r.input > c THEN r.input ELSE c
<1>1. Succeeded(r, c) \in Row /\ r.input \in Nat
  BY SucceededType DEF Row
<1>2. /\ Succeeded(r, c).input = r.input /\ Succeeded(r, c).status = "done"
      /\ Succeeded(r, c).owner = Gone /\ Succeeded(r, c).success = c
  BY DEF Succeeded, Row
<1>3. Maximum(r.input, c) \in Nat /\ Maximum(r.input, c) = IF r.input > c THEN r.input ELSE c
  BY <1>1 DEF Maximum
<1> QED
  BY <1>1, <1>2, <1>3 DEF Row

LEMMA GlobStep ==
  ASSUME MemoryTypeOK, [Next]_vars
  PROVE  GlobTypes'
<1> USE DEF GlobTypes
<1>1. glob \in Row /\ glob.input \in Nat /\ cooling \in BOOLEAN
      /\ job \in [Thread -> Row] /\ claims \in [Worker -> SUBSET Memory]
  BY DEF MemoryTypeOK, Row
<1>2. ASSUME NEW w \in Worker, NEW m \in claims[w],
             ExtractSucceeds(w, m) \/ ExtractsNothing(w, m)
      PROVE  GlobTypes'
  <2>1. m.src \in Nat /\ job[m.thread].input \in Nat
    <3>1. m \in Memory
      BY <1>1
    <3> QED
      BY <1>1, <3>1, MemoryFields DEF Row
  <2>2. Bumped(glob, m.src) \in Row /\ Bumped(glob, job[m.thread].input) \in Row
    BY <1>1, <2>1, BumpedType
  <2> QED
    BY <1>1, <1>2, <2>2 DEF ExtractSucceeds, ExtractsNothing
<1>3. ASSUME NEW w \in Worker, ClaimGlobal(w) PROVE GlobTypes'
  BY <1>1, <1>3, ClaimedType DEF ClaimGlobal
<1>4. ASSUME NEW w \in Worker, Heartbeat(w) PROVE GlobTypes'
  <2>1. [glob EXCEPT !.lease = TRUE] \in Row
    BY <1>1 DEF Row
  <2> QED
    BY <1>1, <1>4, <2>1 DEF Heartbeat, Quit
<1>5. ASSUME NEW w \in Worker, ReportSuccess(w) PROVE GlobTypes'
  <2>1. CASE Owns(w, glob)
    <3>1. PICK c \in Completion(w) :
            glob' = [Succeeded(glob, c) EXCEPT !.input = Maximum(@, c)]
      BY <1>5, <2>1 DEF ReportSuccess
    <3>2. c \in Nat
      BY <3>1, CompletionType
    <3>3. [Succeeded(glob, c) EXCEPT !.input = Maximum(@, c)] \in Row
      BY <1>1, <3>2, ReportedType
    <3> QED
      BY <1>5, <2>1, <3>1, <3>3 DEF ReportSuccess
  <2>2. CASE ~Owns(w, glob)
    BY <1>1, <1>5, <2>2 DEF ReportSuccess
  <2> QED
    BY <2>1, <2>2
<1>6. ASSUME NEW w \in Worker, ReportFailure(w) \/ Crash(w) PROVE GlobTypes'
  BY <1>1, <1>6, FailedType, DisownType DEF ReportFailure, Crash
<1>7. ASSUME NEW t \in Thread, PolluteBumps(t) PROVE GlobTypes'
  BY <1>1, <1>7, BumpedType, MemoryAssumption DEF PolluteBumps
<1>8. ASSUME GlobalLeaseOver \/ GlobalRetryDue PROVE GlobTypes'
  <2>1. [glob EXCEPT !.lease = FALSE] \in Row /\ [glob EXCEPT !.due = TRUE] \in Row
    BY <1>1 DEF Row
  <2> QED
    BY <1>1, <1>8, <2>1 DEF GlobalLeaseOver, GlobalRetryDue
<1>9. CASE UNCHANGED glob /\ cooling' \in {cooling, FALSE}
  BY <1>1, <1>9
<1> QED
  BY <1>2, <1>3, <1>4, <1>5, <1>6, <1>7, <1>8, <1>9
     DEF Next, Work, Startup, Extract, Consolidate, Arrange, Pollute, Pass, vars, dbVars,
            threadVars, Start, Scan, Look, Take, ScanDone, ScanFails, ExtractFails, LookGlobal,
            ReadMark, SelectKeys, SelectRows, Prepare, Prune, Sync, Diff, AgentWrites,
            ResetBaseline, Commit, Fault, Quit, UserTurn, Expire, PolluteReads, PolluteWrites,
            PolluteCrashes, Use, Age, Expire, LeaseOver, RetryDue, CooldownOver

LEMMA SpaceStep ==
  ASSUME MemoryTypeOK, [Next]_vars
  PROVE  SpaceTypes'
<1> USE DEF SpaceTypes
<1>1. SpaceTypes /\ sel \in [Worker -> SUBSET Memory]
  BY DEF MemoryTypeOK
<1>2. ASSUME NEW w \in Worker,
             Arrange(w)
      PROVE  SpaceTypes'
  <2>1. Content \in Baseline
    BY <1>1 DEF Content, Baseline
  <2>2. sel[w] \subseteq Memory
    BY <1>1
  <2> QED
    BY <1>1, <1>2, <2>1, <2>2
       DEF Arrange, Prepare, Prune, Sync, Diff, AgentWrites, ResetBaseline, Commit
<1>3. ASSUME UNCHANGED <<files, book, base, stuck>> PROVE SpaceTypes'
  BY <1>1, <1>3
<1>4. ASSUME NEW w \in Worker,
             Work(w) \/ Heartbeat(w) \/ ScanFails(w) \/ Fault(w) \/ Crash(w),
             ~Arrange(w)
      PROVE  UNCHANGED <<files, book, base, stuck>>
  <2>1. CASE Startup(w) \/ Extract(w)
    BY <2>1 DEF Startup, Extract, Start, Scan, Look, Take, ScanDone, ExtractSucceeds,
                ExtractsNothing, ExtractFails, spaceVars
  <2>2. CASE Consolidate(w)
    BY <1>4, <2>2 DEF Consolidate, LookGlobal, ClaimGlobal, ReadMark, SelectKeys, SelectRows,
                      ReportSuccess, ReportFailure, spaceVars
  <2>3. CASE Heartbeat(w) \/ ScanFails(w) \/ Fault(w) \/ Crash(w)
    BY <2>3 DEF Heartbeat, Quit, ScanFails, Fault, Quit, Crash, spaceVars
  <2> QED
    BY <1>4, <2>1, <2>2, <2>3 DEF Work
<1>5. ASSUME NEW t \in Thread,
             UserTurn(t) \/ Pollute(t) \/ PolluteCrashes(t) \/ Use(t) \/ Age(t) \/ Expire(t)
      PROVE  UNCHANGED <<files, book, base, stuck>>
  BY <1>5
     DEF Pollute, UserTurn, Expire, PolluteReads, PolluteWrites, PolluteBumps, PolluteCrashes, Use,
         Age, Expire, envVars, spaceVars
<1>6. CASE Pass
  BY <1>6, <1>3 DEF Pass, LeaseOver, RetryDue, GlobalLeaseOver, GlobalRetryDue, CooldownOver,
                    envVars, spaceVars
<1>7. CASE UNCHANGED vars
  BY <1>3, <1>7 DEF vars, spaceVars
<1> QED
  BY <1>2, <1>3, <1>4, <1>5, <1>6, <1>7 DEF Next

LEMMA LeaveTypes ==
  ASSUME RunTypes, RestTypes, NEW w \in Worker, Leave(w)
  PROVE  RunTypes' /\ late' \subseteq Worker /\ stale' \subseteq Worker
  BY DEF RunTypes, RestTypes, Leave, WorkerPC

LEMMA RunStep ==
  ASSUME MemoryTypeOK, [Next]_vars
  PROVE  RunTypes'
<1>1. RunTypes /\ RestTypes /\ glob.input \in Nat
  BY Parts DEF MemoryTypeOK, Row
<1> USE DEF RunTypes
<1>2. ASSUME NEW w \in Worker, Startup(w) PROVE RunTypes'
  <2>1. CASE Start(w) \/ ScanDone(w)
    BY <1>1, <2>1 DEF Start, ScanDone, Goto, WorkerPC, claimVars, runVars
  <2>4. CASE Scan(w)
    <3>1. PICK S \in SUBSET Eligible : scan' = [scan EXCEPT ![w] = S]
      BY <2>4 DEF Scan
    <3>2. S \subseteq Memory
      BY <3>1 DEF Eligible
    <3>3. UNCHANGED <<claims, mark, sel>> /\ pc' = [pc EXCEPT ![w] = "claim"]
      BY <2>4 DEF Scan, Goto, runVars
    <3> QED
      BY <1>1, <3>1, <3>2, <3>3 DEF WorkerPC
  <2>2. CASE Look(w)
    BY <1>1, <2>2 DEF Look, Goto, WorkerPC
  <2>3. CASE Take(w)
    BY <1>1, <2>3 DEF Take, Goto, WorkerPC
  <2> QED
    BY <1>2, <2>1, <2>2, <2>3, <2>4 DEF Startup
<1>3. ASSUME NEW w \in Worker, Extract(w) PROVE RunTypes'
  BY <1>1, <1>3 DEF Extract, ExtractSucceeds, ExtractsNothing, ExtractFails, Drop, runVars
<1>4. ASSUME NEW w \in Worker, Consolidate(w) PROVE RunTypes'
  <2>1. CASE LookGlobal(w)
    BY <1>1, <2>1, LeaveTypes DEF LookGlobal, Goto, WorkerPC, claimVars, runVars
  <2>2. CASE ClaimGlobal(w)
    BY <1>1, <2>2, LeaveTypes DEF ClaimGlobal, Goto, WorkerPC, Phase2, claimVars, runVars
  <2>3. CASE ReadMark(w)
    BY <1>1, <2>3 DEF ReadMark, Goto, WorkerPC, Phase2, claimVars
  <2>4. CASE SelectKeys(w)
    BY <1>1, <2>4 DEF SelectKeys, Candidates, Goto, WorkerPC, Phase2, claimVars
  <2>5. CASE SelectRows(w)
    BY <1>1, <2>5 DEF SelectRows, Goto, WorkerPC, Phase2, claimVars
  <2>6. CASE Arrange(w)
    BY <1>1, <2>6
       DEF Arrange, Prepare, Prune, Sync, Diff, AgentWrites, ResetBaseline, Commit, Goto, WorkerPC,
           Phase2, claimVars, runVars
  <2>8. CASE ReportSuccess(w) \/ ReportFailure(w)
    BY <1>1, <2>8, LeaveTypes DEF ReportSuccess, ReportFailure
  <2> QED
    BY <1>4, <2>1, <2>2, <2>3, <2>4, <2>5, <2>6, <2>8 DEF Consolidate
<1>5. ASSUME NEW w \in Worker, Heartbeat(w) PROVE RunTypes'
  BY <1>1, <1>5 DEF Heartbeat, Quit, WorkerPC, Phase2, claimVars, runVars
<1>6. ASSUME NEW w \in Worker, ScanFails(w) \/ Fault(w) \/ Crash(w) PROVE RunTypes'
  BY <1>1, <1>6, LeaveTypes DEF ScanFails, Fault, Quit, Crash, WorkerPC, Phase2, claimVars, runVars
<1>7. ASSUME UNCHANGED <<pc, scan, claims, mark, sel>> PROVE RunTypes'
  BY <1>1, <1>7
<1>8. ASSUME NEW t \in Thread,
             UserTurn(t) \/ Pollute(t) \/ PolluteCrashes(t) \/ Use(t) \/ Age(t) \/ Expire(t)
      PROVE  UNCHANGED <<pc, scan, claims, mark, sel>>
  BY <1>8
     DEF Pollute, UserTurn, Expire, PolluteReads, PolluteWrites, PolluteBumps, PolluteCrashes, Use,
         Age, Expire, envVars, claimVars, runVars
<1>9. CASE Pass
  BY <1>9, <1>7 DEF Pass, LeaseOver, RetryDue, GlobalLeaseOver, GlobalRetryDue, CooldownOver,
                    envVars, claimVars, runVars
<1>10. CASE UNCHANGED vars
  BY <1>7, <1>10 DEF vars, claimVars, runVars
<1> QED
  BY <1>2, <1>3, <1>4, <1>5, <1>6, <1>7, <1>8, <1>9, <1>10 DEF Next, Work

LEMMA RestStep ==
  ASSUME MemoryTypeOK, [Next]_vars
  PROVE  RestTypes'
<1>1. RunTypes /\ RestTypes
  BY Parts
<1> USE DEF RestTypes
<1>2. ASSUME NEW w \in Worker, Startup(w) PROVE RestTypes'
  BY <1>1, <1>2 DEF Startup, Start, Scan, Look, Take, ScanDone, threadVars, ghostVars
<1>3. ASSUME NEW w \in Worker, Extract(w) PROVE RestTypes'
  <2>1. UNCHANGED <<updated, aged, mode, late>>
    BY <1>3 DEF Extract, ExtractSucceeds, ExtractsNothing, ExtractFails, threadVars, ghostVars
  <2>2. faults' \in 0 .. MaxFault
    BY <1>1, <1>3, MemoryAssumption DEF Extract, ExtractSucceeds, ExtractsNothing, ExtractFails
  <2>3. OutputChanged \/ UNCHANGED <<stale, missed>>
    BY <1>3 DEF Extract, ExtractSucceeds, ExtractsNothing, ExtractFails, threadVars, ghostVars
  <2>4. CASE OutputChanged
    <3>1. stale' \subseteq Worker
      BY <1>1, <2>4 DEF OutputChanged
    <3>2. missed' = TRUE
      BY <2>4 DEF OutputChanged
    <3> QED
      BY <1>1, <2>1, <2>2, <3>1, <3>2
  <2>5. CASE UNCHANGED <<stale, missed>>
    BY <1>1, <2>1, <2>2, <2>5
  <2> QED
    BY <2>3, <2>4, <2>5
<1>4. ASSUME NEW w \in Worker, Consolidate(w) PROVE RestTypes'
  <2>1. CASE LookGlobal(w) \/ ClaimGlobal(w) \/ ReportSuccess(w) \/ ReportFailure(w)
    <3>1. late' \subseteq Worker /\ stale' \subseteq Worker
      BY <1>1, <2>1, LeaveTypes DEF LookGlobal, ClaimGlobal, ReportSuccess, ReportFailure
    <3>2. missed' \in BOOLEAN
      BY <1>1, <2>1 DEF LookGlobal, ClaimGlobal, ReportSuccess, ReportFailure
    <3>3. UNCHANGED <<updated, aged, mode, faults>>
      BY <2>1 DEF LookGlobal, ClaimGlobal, ReportSuccess, ReportFailure, threadVars
    <3> QED
      BY <1>1, <3>1, <3>2, <3>3
  <2>2. CASE ReadMark(w) \/ SelectKeys(w) \/ SelectRows(w)
    BY <1>1, <2>2 DEF ReadMark, SelectKeys, SelectRows, threadVars, ghostVars
  <2>3. CASE Arrange(w)
    <3>1. faults' \in 0 .. MaxFault
      BY <1>1, <2>3, MemoryAssumption
         DEF Arrange, Prepare, Prune, Sync, Diff, AgentWrites, ResetBaseline, Commit
    <3>2. UNCHANGED <<updated, aged, mode, late, stale, missed>>
      BY <2>3
         DEF Arrange, Prepare, Prune, Sync, Diff, AgentWrites, ResetBaseline, Commit, threadVars,
             threadVars, ghostVars
    <3> QED
      BY <1>1, <3>1, <3>2
  <2> QED
    BY <1>4, <2>1, <2>2, <2>3 DEF Consolidate
<1>5. ASSUME NEW w \in Worker, Heartbeat(w) PROVE RestTypes'
  BY <1>1, <1>5 DEF Heartbeat, Quit, threadVars
<1>6. ASSUME NEW w \in Worker, ScanFails(w) \/ Fault(w) PROVE RestTypes'
  BY <1>1, <1>6, MemoryAssumption DEF ScanFails, Fault, Quit, threadVars, ghostVars
<1>7. ASSUME NEW w \in Worker, Crash(w) PROVE RestTypes'
  BY <1>1, <1>7, MemoryAssumption, LeaveTypes DEF Crash, threadVars
<1>8. ASSUME NEW t \in Thread, UserTurn(t) PROVE RestTypes'
  BY <1>1, <1>8, MemoryAssumption DEF UserTurn, Times, envVars, threadVars, ghostVars
<1>9. ASSUME NEW t \in Thread, Pollute(t) PROVE RestTypes'
  BY <1>1, <1>9 DEF Pollute, PolluteReads, PolluteWrites, PolluteBumps, envVars, threadVars,
                    ghostVars
<1>10. ASSUME NEW t \in Thread, PolluteCrashes(t) PROVE RestTypes'
  BY <1>1, <1>10, MemoryAssumption DEF PolluteCrashes, threadVars, ghostVars
<1>11. ASSUME NEW t \in Thread, Use(t) \/ Age(t) \/ Expire(t) PROVE RestTypes'
  BY <1>1, <1>11 DEF Use, Age, Expire, envVars, threadVars, ghostVars
<1>12. CASE Pass
  BY <1>1, <1>12 DEF Pass, LeaseOver, RetryDue, GlobalLeaseOver, GlobalRetryDue, CooldownOver,
                     envVars, threadVars, ghostVars
<1>13. CASE UNCHANGED vars
  BY <1>1, <1>13 DEF vars, threadVars, ghostVars
<1> QED
  BY <1>2, <1>3, <1>4, <1>5, <1>6, <1>7, <1>8, <1>9, <1>10, <1>11, <1>12, <1>13
     DEF Next, Work

LEMMA MemoryInit == Init => MemoryTypeOK
<1> SUFFICES ASSUME Init PROVE MemoryTypeOK
  OBVIOUS
<1> USE MemoryAssumption DEF Init
<1>1. OutTypes /\ JobTypes /\ GlobTypes
  BY NoRowType DEF OutTypes, JobTypes, GlobTypes
<1>2. SpaceTypes
  BY DEF SpaceTypes
<1>3. RunTypes
  BY DEF RunTypes, WorkerPC
<1>4. RestTypes
  <2>1. updated \in [Thread -> Times] /\ faults \in 0 .. MaxFault
    BY DEF Times
  <2>2. mode \in [Thread -> {"enabled", "picked", "unpicked", "bumping", "polluted"}]
    OBVIOUS
  <2>3. late \subseteq Worker /\ stale \subseteq Worker /\ missed \in BOOLEAN
    OBVIOUS
  <2> QED
    BY <2>1, <2>2, <2>3 DEF RestTypes
<1> QED
  BY <1>1, <1>2, <1>3, <1>4, Parts

(* Every reachable state has its type: rows, tokens, watermarks, the       *)
(* workspace and the place of every session's task in phase 1 or 2.        *)
THEOREM MemoryTypeCorrect == Spec => []MemoryTypeOK
<1>1. Init => MemoryTypeOK
  BY MemoryInit
<1>2. MemoryTypeOK /\ [Next]_vars => MemoryTypeOK'
  <2> SUFFICES ASSUME MemoryTypeOK, [Next]_vars PROVE MemoryTypeOK'
    OBVIOUS
  <2>1. OutTypes' /\ JobTypes' /\ GlobTypes' /\ SpaceTypes' /\ RunTypes' /\ RestTypes'
    BY OutStep, JobStep, GlobStep, SpaceStep, RunStep, RestStep
  <2> QED
    BY <2>1 DEF MemoryTypeOK, OutTypes, JobTypes, GlobTypes, SpaceTypes, RunTypes, RestTypes
<1> QED
  BY <1>1, <1>2, PTL DEF Spec

-----------------------------------------------------------------------------
(***************************************************************************)
(* The lease of phase 2.  Who consolidates and was never late owns the     *)
(* running job and its lease is ahead: another claim needs the lease to be *)
(* over, which makes the owner late in the same step.                      *)
(***************************************************************************)
LeaseInv == \A w \in Worker : Consolidates(w) => Owns(w, glob) /\ glob.lease

\* Nobody starts to consolidate, and the job stays with its owner.
Undisturbed ==
    /\ \A v \in Worker : Consolidates(v)' => Consolidates(v)
    /\ glob'.owner = glob.owner /\ glob'.lease = glob.lease
    /\ glob'.status = "running" <=> glob.status = "running"

LEMMA UndisturbedKeeps ==
  ASSUME LeaseInv, Undisturbed
  PROVE  LeaseInv'
  BY DEF LeaseInv, Undisturbed, Owns

LEMMA LeaseStep ==
  ASSUME MemoryTypeOK, LeaseInv, [Next]_vars
  PROVE  LeaseInv'
<1> USE DEF LeaseInv, Consolidates
<1>1. /\ pc \in [Worker -> WorkerPC] /\ late \subseteq Worker
      /\ glob \in Row /\ claims \in [Worker -> SUBSET Memory] /\ job \in [Thread -> Row]
  BY DEF MemoryTypeOK
<1>2. ASSUME NEW w \in Worker, Startup(w) PROVE Undisturbed
  <2>1. UNCHANGED <<glob, late>> /\ \A v \in Worker : pc'[v] \notin Phase2 \/ pc'[v] = pc[v]
    BY <1>1, <1>2
       DEF Startup, Start, Scan, Look, Take, ScanDone, Goto, Phase2, dbVars, threadVars, ghostVars
  <2> QED
    BY <2>1 DEF Undisturbed
<1>3. ASSUME NEW w \in Worker, Extract(w) PROVE Undisturbed
  <2>1. PICK m \in claims[w] : ExtractSucceeds(w, m) \/ ExtractsNothing(w, m) \/ ExtractFails(w, m)
    BY <1>3 DEF Extract
  <2>2. m \in Memory
    BY <1>1
  <2>3. m.src \in Nat /\ job[m.thread].input \in Nat
    BY <1>1, <2>2, MemoryFields DEF Row
  <2>4. glob' \in {glob, Bumped(glob, m.src), Bumped(glob, job[m.thread].input)}
    BY <2>1 DEF ExtractSucceeds, ExtractsNothing, ExtractFails
  <2>5. /\ glob'.owner = glob.owner /\ glob'.lease = glob.lease
        /\ glob'.status = "running" <=> glob.status = "running"
    <3>1. CASE glob' = glob
      BY <3>1
    <3>2. ASSUME NEW i \in Nat, glob' = Bumped(glob, i)
          PROVE  /\ glob'.owner = glob.owner /\ glob'.lease = glob.lease
                 /\ glob'.status = "running" <=> glob.status = "running"
      BY <1>1, <3>2, BumpedType
    <3> QED
      BY <2>3, <2>4, <3>1, <3>2
  <2>6. UNCHANGED <<pc, late>>
    BY <2>1 DEF ExtractSucceeds, ExtractsNothing, ExtractFails, ghostVars
  <2> QED
    BY <2>5, <2>6 DEF Undisturbed
<1>4. ASSUME NEW w \in Worker, Leave(w), UNCHANGED glob PROVE Undisturbed
  BY <1>1, <1>4 DEF Leave, Phase2, Undisturbed
<1>5. ASSUME NEW w \in Worker, LookGlobal(w) PROVE Undisturbed
  <2>1. CASE Leave(w)
    BY <1>4, <1>5, <2>1 DEF LookGlobal, dbVars
  <2>2. CASE ~Leave(w)
    BY <1>1, <1>5, <2>2 DEF LookGlobal, Goto, Phase2, dbVars, threadVars, Undisturbed
  <2> QED
    BY <2>1, <2>2
<1>6. ASSUME NEW w \in Worker, ClaimGlobal(w) PROVE LeaseInv'
  <2>1. CASE Claimable(glob)
    <3>1. \A v \in Worker : ~Consolidates(v)
      BY <2>1, MemoryAssumption DEF Claimable, Owns
    <3>2. /\ glob'.status = "running" /\ glob'.owner = w /\ glob'.lease = TRUE
      BY <1>1, <1>6, <2>1 DEF ClaimGlobal, Claimed, Row
    <3>3. \A v \in Worker : v # w => pc'[v] = pc[v]
      BY <1>1, <1>6, <2>1 DEF ClaimGlobal, Goto
    <3>4. late' = late
      BY <1>6, <2>1 DEF ClaimGlobal
    <3> QED
      BY <3>1, <3>2, <3>3, <3>4 DEF Owns
  <2>2. CASE ~Claimable(glob)
    BY <1>4, <1>6, <2>2, UndisturbedKeeps DEF ClaimGlobal
  <2> QED
    BY <2>1, <2>2
<1>7. ASSUME NEW w \in Worker, ReadMark(w) \/ SelectKeys(w) \/ SelectRows(w) \/ Arrange(w)
      PROVE  Undisturbed
  <2>1. UNCHANGED <<glob, late>>
    BY <1>7
       DEF ReadMark, SelectKeys, SelectRows, Arrange, Prepare, Prune, Sync, Diff, AgentWrites,
           ResetBaseline, Commit, dbVars, ghostVars
  <2>2. \E to \in WorkerPC : pc' = [pc EXCEPT ![w] = to]
    BY <1>1, <1>7
       DEF ReadMark, SelectKeys, SelectRows, Arrange, Prepare, Prune, Sync, Diff, AgentWrites,
           ResetBaseline, Commit, Goto, WorkerPC, Phase2
  <2>3. pc[w] \in Phase2 \ {"fail"}
    BY <1>7
       DEF ReadMark, SelectKeys, SelectRows, Arrange, Prepare, Prune, Sync, Diff, AgentWrites,
           ResetBaseline, Commit, Goto, Phase2
  <2> QED
    BY <1>1, <2>1, <2>2, <2>3 DEF Undisturbed
<1>8. ASSUME NEW w \in Worker, Heartbeat(w) PROVE LeaseInv'
  <2>1. CASE Owns(w, glob)
    <3>1. glob'.status = "running" /\ glob'.owner = w /\ glob'.lease = TRUE
      BY <1>1, <1>8, <2>1 DEF Heartbeat, Quit, Owns, Row
    <3>2. \A v \in Worker : v # w => ~Consolidates(v)
      BY <2>1 DEF Owns
    <3>3. \A v \in Worker : v # w => pc'[v] = pc[v] /\ (v \in late' <=> v \in late)
      BY <1>1, <1>8, <2>1 DEF Heartbeat, Quit
    <3> QED
      BY <3>1, <3>2, <3>3 DEF Owns
  <2>2. CASE ~Owns(w, glob)
    <3>1. Undisturbed
      BY <1>1, <1>8, <2>2 DEF Heartbeat, Quit, Undisturbed
    <3> QED
      BY <3>1, UndisturbedKeeps
  <2> QED
    BY <2>1, <2>2
<1>9. ASSUME NEW w \in Worker, ReportSuccess(w) \/ ReportFailure(w) PROVE LeaseInv'
  <2>1. Leave(w)
    BY <1>9 DEF ReportSuccess, ReportFailure
  <2>2. CASE UNCHANGED glob
    BY <1>4, <2>1, <2>2, UndisturbedKeeps
  <2>3. CASE glob' # glob
    <3>1. Owns(w, glob) \/ Owns(None, glob)
      BY <1>9, <2>3 DEF ReportSuccess, ReportFailure
    <3>2. \A v \in Worker : v # w => ~Consolidates(v)
      BY <3>1, MemoryAssumption DEF Owns
    <3>3. \A v \in Worker : ~Consolidates(v)'
      BY <1>1, <2>1, <3>2 DEF Leave, Phase2
    <3> QED
      BY <3>3
  <2> QED
    BY <2>2, <2>3
<1>10. ASSUME NEW w \in Worker, ScanFails(w) \/ Fault(w) PROVE Undisturbed
  BY <1>1, <1>10 DEF ScanFails, Fault, Quit, Phase2, dbVars, threadVars, ghostVars, Undisturbed
<1>11. ASSUME NEW w \in Worker, Crash(w) PROVE LeaseInv'
  <2>1. \A v \in Worker : v # w /\ glob.owner = v => glob' = glob
    BY <1>11 DEF Crash, Disown
  <2>2. \A v \in Worker : Consolidates(v)' => v # w /\ Consolidates(v)
    BY <1>1, <1>11 DEF Crash, Leave, Phase2
  <2> QED
    BY <2>1, <2>2 DEF Owns
<1>12. ASSUME NEW t \in Thread,
              UserTurn(t) \/ Pollute(t) \/ PolluteCrashes(t) \/ Use(t) \/ Age(t) \/ Expire(t)
       PROVE  Undisturbed
  <2>1. UNCHANGED <<pc, late>>
    BY <1>12
       DEF Pollute, UserTurn, Expire, PolluteReads, PolluteWrites, PolluteBumps, PolluteCrashes,
           Use, Age, Expire, envVars, ghostVars
  <2>2. glob' = glob \/ glob' = Bumped(glob, MaxUpdate + 1)
    BY <1>12
       DEF Pollute, UserTurn, Expire, PolluteReads, PolluteWrites, PolluteBumps, PolluteCrashes,
           Use, Age, dbVars
  <2> QED
    BY <1>1, <2>1, <2>2, BumpedType, MemoryAssumption DEF Undisturbed
<1>13. CASE GlobalLeaseOver
  <2>1. \A v \in Worker : ~Consolidates(v)'
    BY <1>13 DEF GlobalLeaseOver, Owns
  <2> QED
    BY <2>1
<1>14. ASSUME Pass, ~GlobalLeaseOver PROVE Undisturbed
  <2>1. UNCHANGED <<pc, late>>
    BY <1>14 DEF Pass, LeaseOver, RetryDue, GlobalRetryDue, CooldownOver, envVars, ghostVars
  <2>2. glob' = glob \/ glob' = [glob EXCEPT !.due = TRUE]
    BY <1>14 DEF Pass, LeaseOver, RetryDue, GlobalRetryDue, CooldownOver
  <2> QED
    BY <1>1, <2>1, <2>2 DEF Undisturbed, Row
<1>15. CASE UNCHANGED vars
  BY <1>15 DEF vars, dbVars, threadVars, ghostVars, Owns
<1> QED
  BY <1>2, <1>3, <1>5, <1>6, <1>7, <1>8, <1>9, <1>10, <1>11, <1>12, <1>13, <1>14, <1>15,
     UndisturbedKeeps DEF Next, Work, Consolidate

LEMMA LeaseInvariant == Spec => []LeaseInv
<1>1. Init => LeaseInv
  BY DEF Init, LeaseInv, Consolidates, Phase2
<1>2. MemoryTypeOK /\ LeaseInv /\ [Next]_vars => LeaseInv'
  BY LeaseStep
<1> QED
  BY <1>1, <1>2, MemoryTypeCorrect, PTL DEF Spec

(* However many sessions start, crash or fall behind: of those that        *)
(* consolidate the memories, one at most has kept its lease.               *)
THEOREM OneConsolidatorHolds == Spec => []OneConsolidator
<1>1. LeaseInv => OneConsolidator
  BY DEF LeaseInv, OneConsolidator, Owns
<1> QED
  BY <1>1, LeaseInvariant, PTL

-----------------------------------------------------------------------------
(***************************************************************************)
(* Outputs.                                                                *)
(***************************************************************************)
OutputKept == \A t \in Thread : out[t] # None /\ out'[t] # None => out'[t].src >= out[t].src

(* A consolidation touches the marks of the outputs, not their source.     *)
LEMMA ReportKeepsSources ==
  ASSUME out \in [Thread -> OutRow \cup {None}], NEW w \in Worker, ReportSuccess(w),
         NEW t \in Thread, out'[t] # None
  PROVE  out[t] # None /\ out'[t].src = out[t].src
<1>1. CASE out' = out
  BY <1>1
<1>2. CASE ~(out' = out)
  <2>1. PICK x : out'[t] = IF out[t] = None THEN None ELSE [out[t] EXCEPT !.picked = x]
    BY <1>2 DEF ReportSuccess
  <2>2. out[t] # None /\ out[t] \in OutRow
    BY <2>1
  <2> QED
    BY <2>1, <2>2 DEF OutRow
<1> QED
  BY <1>1, <1>2

LEMMA OutputStep ==
  ASSUME MemoryTypeOK, [Next]_vars
  PROVE  OutputKept
<1> USE DEF OutputKept
<1>1. /\ out \in [Thread -> OutRow \cup {None}] /\ claims \in [Worker -> SUBSET Memory]
      /\ \A t \in Thread : out[t] # None => out[t].src \in Nat
  BY MemoryAssumption DEF MemoryTypeOK, OutRow, Times
<1>2. ASSUME NEW w \in Worker, Start(w) PROVE OutputKept
  BY <1>1, <1>2 DEF Start
<1>3. ASSUME NEW w \in Worker, NEW m \in claims[w], ExtractSucceeds(w, m) PROVE OutputKept
  <2>1. m \in Memory
    BY <1>1
  <2>2. m.thread \in Thread /\ m.src \in Times
    BY <2>1, MemoryFields
  <2>3. out[m.thread] # None => Upserted(out[m.thread], m.src).src >= out[m.thread].src
    BY <1>1, <2>2, UpsertedType
  <2>4. out' = [out EXCEPT ![m.thread] = Upserted(out[m.thread], m.src)] \/ out' = out
    BY <1>3 DEF ExtractSucceeds
  <2> QED
    BY <1>1, <2>2, <2>3, <2>4
<1>4. ASSUME NEW w \in Worker, NEW m \in claims[w], ExtractsNothing(w, m) PROVE OutputKept
  BY <1>1, <1>4 DEF ExtractsNothing
<1>5. ASSUME NEW w \in Worker, ReportSuccess(w) PROVE OutputKept
  <2>1. \A t \in Thread : out'[t] # None => out[t] # None /\ out'[t].src = out[t].src
    BY <1>1, <1>5, ReportKeepsSources
  <2> QED
    BY <1>1, <2>1
<1>6. ASSUME NEW t \in Thread, Use(t) \/ Age(t) \/ Expire(t) PROVE OutputKept
  <2>1. \A u \in Thread : out'[u] # None /\ out[u] # None => out'[u].src = out[u].src
    BY <1>1, <1>6 DEF Use, Age, Expire, OutRow, dbVars
  <2> QED
    BY <1>1, <2>1
<1>7. CASE UNCHANGED out
  BY <1>1, <1>7
<1> QED
  BY <1>2, <1>3, <1>4, <1>5, <1>6, <1>7
     DEF Next, Work, Startup, Extract, Consolidate, Arrange, Pollute, Pass, vars, dbVars,
            threadVars, Scan, Look, Take, ScanDone, ExtractFails, ScanFails, LookGlobal,
            ClaimGlobal, ReadMark, SelectKeys, SelectRows, Prepare, Prune, Sync, Diff, AgentWrites,
            Heartbeat, Quit, ResetBaseline, Commit, Fault, Quit, ReportFailure, Crash, UserTurn,
            Expire, PolluteReads, PolluteWrites, PolluteBumps, PolluteCrashes, LeaseOver, RetryDue,
            GlobalLeaseOver, GlobalRetryDue, CooldownOver

(* A memory is never replaced by one of an earlier turn, although the read *)
(* of what needs an update and the claim are two statements.               *)
THEOREM OutputNeverOlderHolds == Spec => OutputNeverOlder
<1>1. MemoryTypeOK /\ [Next]_vars => [OutputKept]_vars
  BY OutputStep
<1>2. [][OutputKept]_vars => OutputNeverOlder
  BY PTL DEF OutputNeverOlder, OutputKept
<1> QED
  BY <1>1, <1>2, MemoryTypeCorrect, PTL DEF Spec

-----------------------------------------------------------------------------
(***************************************************************************)
(* The watermarks.  The input watermark is at least every output, every    *)
(* claimed watermark and every selected source, and above those of a       *)
(* worker that missed a change, because every change raises it.            *)
(***************************************************************************)
SourcesInv == \A t \in Thread : out[t] # None => out[t].src <= glob.input
MarkInv == glob.success <= glob.input /\ \A w \in Worker : mark[w] <= glob.input
SelectedInv ==
    \A w \in Worker : pc[w] \in Chosen => \A m \in sel[w] : m.src <= glob.input
StaleInv ==
    \A w \in Worker : w \in stale =>
        /\ pc[w] \in Chosen \cup {"fail"}
        /\ pc[w] \in Chosen => /\ mark[w] < glob.input
                               /\ \A m \in sel[w] : m.src < glob.input
WatermarkInv == SourcesInv /\ MarkInv /\ SelectedInv /\ StaleInv /\ MissedIsVisible

\* Nothing the watermarks speak about changes, but the input watermark may rise.
Quiet ==
    /\ \A t \in Thread : out'[t] # None => out[t] # None /\ out'[t].src = out[t].src
    /\ glob'.input \in Nat /\ glob'.input >= glob.input /\ glob'.success = glob.success
    /\ missed' = missed

\* Nor do the runs of the workers, except that one may go on.
Still(w) ==
    /\ \A v \in Worker : v # w =>
         pc'[v] = pc[v] /\ mark'[v] = mark[v] /\ sel'[v] = sel[v] /\ (v \in stale' <=> v \in stale)
    /\ mark'[w] \in {0, mark[w], glob.input}
    /\ \/ pc'[w] \notin Chosen /\ w \notin stale'
       \/ /\ pc'[w] \in Chosen /\ pc[w] \in Chosen /\ mark'[w] = mark[w]
          /\ sel'[w] \subseteq sel[w] /\ (w \in stale' => w \in stale)
       \/ pc'[w] = "fail"

LEMMA QuietStill ==
  ASSUME MemoryTypeOK, WatermarkInv, NEW w \in Worker, Quiet, Still(w)
  PROVE  WatermarkInv'
<1>1. /\ glob.input \in Nat /\ glob.success \in Nat
      /\ \A v \in Worker : mark[v] \in Nat /\ \A m \in sel[v] : m.src \in Nat
      /\ \A t \in Thread : out[t] # None => out[t].src \in Nat
  <2>1. \A v \in Worker : \A m \in sel[v] : m \in Memory
    BY DEF MemoryTypeOK
  <2> QED
    BY <2>1, MemoryFields, MemoryAssumption DEF MemoryTypeOK, Row, OutRow, Times
<1>2. SourcesInv'
  BY <1>1 DEF WatermarkInv, SourcesInv, Quiet
<1>3. MarkInv'
  BY <1>1 DEF WatermarkInv, MarkInv, Quiet, Still
<1>4. SelectedInv'
  BY <1>1 DEF WatermarkInv, SelectedInv, Quiet, Still, Chosen, Phase2
<1>5. StaleInv'
  BY <1>1 DEF WatermarkInv, StaleInv, Quiet, Still, Chosen, Phase2
<1>6. MissedIsVisible'
  BY <1>1 DEF WatermarkInv, MissedIsVisible, Quiet
<1> QED
  BY <1>2, <1>3, <1>4, <1>5, <1>6 DEF WatermarkInv

LEMMA QuietStep ==
  ASSUME MemoryTypeOK, WatermarkInv, Quiet, UNCHANGED <<pc, mark, sel, stale>>
  PROVE  WatermarkInv'
<1>1. /\ glob.input \in Nat /\ glob.success \in Nat
      /\ \A v \in Worker : mark[v] \in Nat /\ \A m \in sel[v] : m.src \in Nat
      /\ \A t \in Thread : out[t] # None => out[t].src \in Nat
  <2>1. \A v \in Worker : \A m \in sel[v] : m \in Memory
    BY DEF MemoryTypeOK
  <2> QED
    BY <2>1, MemoryFields, MemoryAssumption DEF MemoryTypeOK, Row, OutRow, Times
<1> QED
  BY <1>1 DEF WatermarkInv, SourcesInv, MarkInv, SelectedInv, StaleInv, MissedIsVisible, Quiet

\* A change raises the input watermark and marks who did not see it.
LEMMA ChangeStep ==
  ASSUME MemoryTypeOK, WatermarkInv, NEW i \in Nat, glob' = Bumped(glob, i),
         \A t \in Thread :
           out'[t] # None => out'[t].src = i \/ (out[t] # None /\ out'[t].src = out[t].src),
         OutputChanged, UNCHANGED <<pc, mark, sel>>
  PROVE  WatermarkInv'
<1>1. /\ glob.input \in Nat /\ glob.success \in Nat
      /\ \A v \in Worker : mark[v] \in Nat /\ \A m \in sel[v] : m.src \in Nat
      /\ \A t \in Thread : out[t] # None => out[t].src \in Nat
  <2>1. \A v \in Worker : \A m \in sel[v] : m \in Memory
    BY DEF MemoryTypeOK
  <2> QED
    BY <2>1, MemoryFields, MemoryAssumption DEF MemoryTypeOK, Row, OutRow, Times
<1>2. /\ glob'.input \in Nat /\ glob'.input > glob.input /\ glob'.input >= i
      /\ glob'.success = glob.success
  <2>1. glob \in Row
    BY DEF MemoryTypeOK
  <2>2. /\ glob' \in Row /\ glob'.input > glob.input /\ glob'.input >= i
        /\ glob'.success = glob.success
    BY <2>1, BumpedType
  <2> QED
    BY <2>2 DEF Row
<1>3. SourcesInv'
  BY <1>1, <1>2 DEF WatermarkInv, SourcesInv
<1>4. MarkInv'
  BY <1>1, <1>2 DEF WatermarkInv, MarkInv
<1>5. SelectedInv'
  BY <1>1, <1>2 DEF WatermarkInv, SelectedInv
<1>6. \A w \in Worker : w \in stale' => w \in stale \/ pc[w] \in Chosen
  BY DEF OutputChanged
<1>7. StaleInv'
  BY <1>1, <1>2, <1>6 DEF WatermarkInv, StaleInv, SelectedInv, MarkInv
<1>8. MissedIsVisible'
  BY <1>1, <1>2 DEF WatermarkInv, MissedIsVisible, MarkInv
<1> QED
  BY <1>3, <1>4, <1>5, <1>7, <1>8 DEF WatermarkInv

LEMMA GlobInputs ==
  ASSUME NEW r \in Row, NEW w \in Worker
  PROVE  /\ r.input \in Nat
         /\ Disown(w, r).input = r.input /\ Disown(w, r).success = r.success
         /\ Failed(r).input = r.input /\ Failed(r).success = r.success
         /\ Claimed(r, w, r.input).input = r.input /\ Claimed(r, w, r.input).success = r.success
         /\ \A b \in BOOLEAN : /\ [r EXCEPT !.lease = b].input = r.input
                               /\ [r EXCEPT !.lease = b].success = r.success
                               /\ [r EXCEPT !.due = b].input = r.input
                               /\ [r EXCEPT !.due = b].success = r.success
<1>1. r.input \in Nat
  BY DEF Row
<1>2. Disown(w, r).input = r.input /\ Disown(w, r).success = r.success
  BY DEF Disown, Row
<1>3. Failed(r).input = r.input /\ Failed(r).success = r.success
  BY DEF Failed, Row
<1>4. Claimed(r, w, r.input).input = r.input /\ Claimed(r, w, r.input).success = r.success
  BY DEF Claimed, Row
<1> QED
  BY <1>1, <1>2, <1>3, <1>4 DEF Row

LEMMA LeaveStill ==
  ASSUME MemoryTypeOK, NEW w \in Worker, Leave(w)
  PROVE  Still(w)
  BY DEF MemoryTypeOK, Leave, Still, Chosen, Phase2

LEMMA WatermarkStep ==
  ASSUME MemoryTypeOK, WatermarkInv, [Next]_vars
  PROVE  WatermarkInv'
<1>1. /\ pc \in [Worker -> WorkerPC] /\ late \subseteq Worker /\ stale \subseteq Worker
      /\ mark \in [Worker -> Nat] /\ sel \in [Worker -> SUBSET Memory]
      /\ glob \in Row /\ glob.input \in Nat /\ out \in [Thread -> OutRow \cup {None}]
      /\ job \in [Thread -> Row] /\ claims \in [Worker -> SUBSET Memory]
  BY DEF MemoryTypeOK, Row
<1>2. \A w \in Worker : w \in stale => pc[w] \in Chosen \cup {"fail"}
  BY DEF WatermarkInv, StaleInv
<1>3. ASSUME UNCHANGED <<out, glob, missed>> PROVE Quiet
  BY <1>1, <1>3 DEF Quiet
<1>4. ASSUME NEW w \in Worker, Startup(w) PROVE WatermarkInv'
  <2>1. Quiet
    <3>1. CASE Start(w)
      BY <1>1, <3>1 DEF Start, Quiet, ghostVars
    <3>2. CASE Scan(w) \/ Look(w) \/ Take(w) \/ ScanDone(w)
      BY <1>3, <3>2 DEF Scan, Look, Take, ScanDone, dbVars, threadVars, ghostVars
    <3> QED
      BY <1>4, <3>1, <3>2 DEF Startup
  <2>2. /\ pc[w] \in {"off", "scan", "claim", "take"}
        /\ pc'[w] \in {"scan", "claim", "take", "extract"}
        /\ \A v \in Worker : v # w => pc'[v] = pc[v] /\ sel'[v] = sel[v]
        /\ UNCHANGED <<mark, stale>>
    BY <1>1, <1>4 DEF Startup, Start, Scan, Look, Take, ScanDone, Goto, runVars, ghostVars
  <2>3. w \notin stale
    BY <1>2, <2>2 DEF Chosen, Phase2
  <2>4. Still(w)
    BY <2>2, <2>3 DEF Still, Chosen, Phase2
  <2> QED
    BY <2>1, <2>4, QuietStill
<1>5. ASSUME NEW w \in Worker, NEW m \in claims[w], ExtractSucceeds(w, m) \/ ExtractsNothing(w, m)
      PROVE  WatermarkInv'
  <2>1. m \in Memory
    BY <1>1
  <2>2. m.thread \in Thread /\ m.src \in Times /\ m.src \in Nat /\ job[m.thread].input \in Nat
    BY <1>1, <2>1, MemoryFields DEF Row
  <2>3. UNCHANGED <<pc, mark, sel>>
    BY <1>5 DEF ExtractSucceeds, ExtractsNothing, runVars
  <2>4. CASE UNCHANGED <<out, glob, stale, missed>>
    BY <1>3, <2>3, <2>4, QuietStep
  <2>5. CASE ExtractSucceeds(w, m) /\ ~UNCHANGED <<out, glob, stale, missed>>
    <3>1. /\ out' = [out EXCEPT ![m.thread] = Upserted(out[m.thread], m.src)]
          /\ glob' = Bumped(glob, m.src) /\ OutputChanged
      BY <2>5 DEF ExtractSucceeds
    <3>2. \/ Upserted(out[m.thread], m.src).src = m.src
          \/ out[m.thread] # None /\ Upserted(out[m.thread], m.src).src = out[m.thread].src
      BY <1>1, <2>2, UpsertedType
    <3>3. \A t \in Thread :
            out'[t] # None => out'[t].src = m.src \/ (out[t] # None /\ out'[t].src = out[t].src)
      BY <1>1, <2>2, <3>1, <3>2
    <3> QED
      BY <2>2, <2>3, <3>1, <3>3, ChangeStep
  <2>6. CASE ExtractsNothing(w, m) /\ ~UNCHANGED <<out, glob, stale, missed>>
    <3>1. out' = [out EXCEPT ![m.thread] = None]
      BY <2>6 DEF ExtractsNothing
    <3>2. \A t \in Thread : out'[t] # None => out[t] # None /\ out'[t].src = out[t].src
      BY <1>1, <2>2, <3>1
    <3>3. CASE glob' = Bumped(glob, job[m.thread].input) /\ OutputChanged
      BY <2>2, <2>3, <3>2, <3>3, ChangeStep
    <3>4. CASE UNCHANGED <<glob, stale, missed>>
      <4>1. Quiet
        BY <1>1, <3>2, <3>4 DEF Quiet
      <4> QED
        BY <2>3, <3>4, <4>1, QuietStep
    <3> QED
      BY <2>6, <3>3, <3>4 DEF ExtractsNothing
  <2> QED
    BY <1>5, <2>4, <2>5, <2>6
<1>6. ASSUME NEW w \in Worker, NEW m \in claims[w], ExtractFails(w, m) PROVE WatermarkInv'
  BY <1>3, <1>6, QuietStep DEF ExtractFails, runVars, ghostVars
<1>7. ASSUME NEW w \in Worker, LookGlobal(w) PROVE WatermarkInv'
  <2>1. Quiet
    BY <1>3, <1>7 DEF LookGlobal, dbVars
  <2>2. Still(w)
    <3>1. CASE Leave(w)
      BY <3>1, LeaveStill
    <3>2. CASE ~Leave(w)
      BY <1>1, <1>2, <1>7, <3>2 DEF LookGlobal, Goto, Still, Chosen, Phase2, runVars
    <3> QED
      BY <3>1, <3>2
  <2> QED
    BY <2>1, <2>2, QuietStill
<1>8. ASSUME NEW w \in Worker, ClaimGlobal(w) PROVE WatermarkInv'
  <2>1. Quiet
    BY <1>1, <1>8, GlobInputs DEF ClaimGlobal, Quiet
  <2>2. Still(w)
    <3>1. CASE Leave(w)
      BY <3>1, LeaveStill
    <3>2. CASE ~Leave(w)
      BY <1>1, <1>2, <1>8, <3>2 DEF ClaimGlobal, Goto, Still, Chosen, Phase2, runVars
    <3> QED
      BY <3>1, <3>2
  <2> QED
    BY <2>1, <2>2, QuietStill
<1>9. ASSUME NEW w \in Worker, ReadMark(w) PROVE WatermarkInv'
  <2>1. Quiet
    BY <1>3, <1>9 DEF ReadMark, dbVars, threadVars, ghostVars
  <2>2. Still(w)
    BY <1>1, <1>2, <1>9 DEF ReadMark, Goto, Still, Chosen, Phase2, ghostVars
  <2> QED
    BY <2>1, <2>2, QuietStill
<1>10. ASSUME NEW w \in Worker, SelectKeys(w) PROVE WatermarkInv'
  <2>1. UNCHANGED <<out, glob, missed, mark, stale>>
    BY <1>10 DEF SelectKeys, dbVars, threadVars, ghostVars
  <2>2. pc[w] = "keys" /\ pc' = [pc EXCEPT ![w] = "rows"]
    BY <1>10 DEF SelectKeys, Goto
  <2>3. sel'[w] \subseteq Candidates /\ \A v \in Worker : v # w => sel'[v] = sel[v]
    BY <1>1, <1>10 DEF SelectKeys
  <2>4. \A m \in sel'[w] : m.src <= glob.input
    <3>1. ASSUME NEW m \in Candidates PROVE m.src <= glob.input
      <4>1. m \in Memory /\ out[m.thread] # None /\ out[m.thread].src = m.src
        BY DEF Candidates
      <4> QED
        BY <4>1, MemoryFields DEF WatermarkInv, SourcesInv
    <3> QED
      BY <2>3, <3>1
  <2>5. w \notin stale
    BY <1>2, <2>2 DEF Chosen, Phase2
  <2>6. SelectedInv' /\ StaleInv'
    BY <1>1, <2>1, <2>2, <2>3, <2>4, <2>5
       DEF WatermarkInv, SelectedInv, StaleInv, Chosen, Phase2
  <2>7. SourcesInv' /\ MarkInv' /\ MissedIsVisible'
    BY <2>1 DEF WatermarkInv, SourcesInv, MarkInv, MissedIsVisible
  <2> QED
    BY <2>6, <2>7 DEF WatermarkInv
<1>11. ASSUME NEW w \in Worker, SelectRows(w) \/ Arrange(w) PROVE WatermarkInv'
  <2>1. Quiet
    BY <1>3, <1>11
       DEF SelectRows, Arrange, Prepare, Prune, Sync, Diff, AgentWrites, ResetBaseline, Commit,
           dbVars, ghostVars
  <2>2. CASE ~Prepare(w)
    <3>1. /\ pc[w] \in Chosen /\ pc'[w] \in Chosen /\ UNCHANGED <<mark, stale>>
          /\ sel'[w] \subseteq sel[w]
          /\ \A v \in Worker : v # w => pc'[v] = pc[v] /\ sel'[v] = sel[v]
      BY <1>1, <1>11, <2>2
         DEF SelectRows, Arrange, Prepare, Prune, Sync, Diff, AgentWrites, ResetBaseline, Commit,
             Goto, Chosen, Phase2, runVars, ghostVars
    <3>2. Still(w)
      BY <3>1 DEF Still
    <3> QED
      BY <2>1, <3>2, QuietStill
  <2>3. CASE Prepare(w)
    <3>1. Still(w)
      BY <1>1, <1>2, <2>3 DEF Prepare, Goto, Still, Chosen, Phase2, runVars, ghostVars
    <3> QED
      BY <2>1, <3>1, QuietStill
  <2> QED
    BY <2>2, <2>3
<1>12. ASSUME NEW w \in Worker, Heartbeat(w) PROVE WatermarkInv'
  <2>1. glob' = glob \/ glob' = [glob EXCEPT !.lease = TRUE]
    BY <1>12 DEF Heartbeat, Quit
  <2>2. glob'.input = glob.input /\ glob'.success = glob.success /\ glob.input \in Nat
    BY <1>1, <2>1 DEF Row
  <2>3. UNCHANGED <<out, missed>>
    BY <1>12 DEF Heartbeat, Quit
  <2>4. Quiet
    BY <2>2, <2>3 DEF Quiet
  <2>5. Still(w)
    BY <1>1, <1>12 DEF Heartbeat, Quit, Still, Chosen, Phase2, runVars
  <2> QED
    BY <2>4, <2>5, QuietStill
<1>13. ASSUME NEW w \in Worker, ReportSuccess(w) PROVE WatermarkInv'
  <2>1. Leave(w)
    BY <1>13 DEF ReportSuccess
  <2>2. CASE ~Owns(w, glob)
    BY <1>3, <1>13, <2>1, <2>2, LeaveStill, QuietStill DEF ReportSuccess
  <2>3. CASE Owns(w, glob)
    <3>1. PICK c \in Completion(w) :
            glob' = [Succeeded(glob, c) EXCEPT !.input = Maximum(@, c)]
      BY <1>13, <2>3 DEF ReportSuccess
    <3>2. c \in Nat /\ (c = mark[w] \/ \E m \in sel[w] : c = m.src)
      BY <3>1, CompletionType
    <3>3. glob'.success = c /\ glob'.input = IF glob.input > c THEN glob.input ELSE c
      BY <1>1, <3>1, <3>2, ReportedType
    <3>4. pc[w] \in Chosen
      BY <1>13 DEF ReportSuccess, Chosen, Phase2
    <3>5. c <= glob.input /\ (w \in stale => c < glob.input)
      BY <1>1, <3>2, <3>4 DEF WatermarkInv, MarkInv, SelectedInv, StaleInv
    <3>6. glob'.input = glob.input
      BY <1>1, <3>2, <3>3, <3>5
    <3>7. \A t \in Thread : out'[t] # None => out[t] # None /\ out'[t].src = out[t].src
      BY <1>1, <1>13, ReportKeepsSources
    <3>8. /\ \A v \in Worker : v # w =>
               pc'[v] = pc[v] /\ mark'[v] = mark[v] /\ sel'[v] = sel[v]
               /\ (v \in stale' <=> v \in stale)
          /\ pc'[w] = "off" /\ mark'[w] = 0 /\ w \notin stale'
      BY <1>1, <2>1 DEF Leave
    <3>9. SourcesInv' /\ MarkInv'
      BY <1>1, <3>2, <3>3, <3>5, <3>6, <3>7, <3>8 DEF WatermarkInv, SourcesInv, MarkInv
    <3>10. SelectedInv' /\ StaleInv'
      BY <1>1, <3>6, <3>8 DEF WatermarkInv, SelectedInv, StaleInv, Chosen, Phase2
    <3>11. MissedIsVisible'
      BY <1>13, <2>3, <3>3, <3>5, <3>6 DEF ReportSuccess, MissedIsVisible
    <3> QED
      BY <3>9, <3>10, <3>11 DEF WatermarkInv
  <2> QED
    BY <2>2, <2>3
<1>14. ASSUME NEW w \in Worker, ReportFailure(w) \/ Crash(w) PROVE WatermarkInv'
  <2>1. Leave(w)
    BY <1>14 DEF ReportFailure, Crash
  <2>2. glob'.input = glob.input /\ glob'.success = glob.success
    BY <1>1, <1>14, GlobInputs DEF ReportFailure, Crash
  <2>3. Quiet
    BY <1>1, <1>14, <2>2 DEF ReportFailure, Crash, Quiet
  <2> QED
    BY <2>1, <2>3, LeaveStill, QuietStill
<1>15. ASSUME NEW w \in Worker, ScanFails(w) PROVE WatermarkInv'
  <2>1. Quiet
    BY <1>3, <1>15 DEF ScanFails, ghostVars
  <2>2. Still(w)
    BY <1>1, <1>2, <1>15 DEF ScanFails, Still, Chosen, Phase2, ghostVars
  <2> QED
    BY <2>1, <2>2, QuietStill
<1>16. ASSUME NEW w \in Worker, Fault(w) PROVE WatermarkInv'
  <2>1. Quiet
    BY <1>3, <1>16 DEF Fault, Quit, dbVars, threadVars, ghostVars
  <2>2. Still(w)
    BY <1>1, <1>16 DEF Fault, Quit, Still, runVars, ghostVars
  <2> QED
    BY <2>1, <2>2, QuietStill
<1>17. ASSUME NEW t \in Thread,
              UserTurn(t) \/ Pollute(t) \/ PolluteCrashes(t) \/ Use(t) \/ Age(t) \/ Expire(t)
       PROVE  WatermarkInv'
  <2>1. UNCHANGED <<pc, mark, sel, stale, missed>>
    BY <1>17
       DEF Pollute, UserTurn, Expire, PolluteReads, PolluteWrites, PolluteBumps, PolluteCrashes,
           Use, Age, Expire, envVars, runVars, ghostVars
  <2>2. glob' = glob \/ glob' = Bumped(glob, MaxUpdate + 1)
    BY <1>17
       DEF Pollute, UserTurn, Expire, PolluteReads, PolluteWrites, PolluteBumps, PolluteCrashes,
           Use, Age, dbVars
  <2>3. glob'.input \in Nat /\ glob'.input >= glob.input /\ glob'.success = glob.success
    <3>1. CASE glob' = glob
      BY <1>1, <3>1 DEF Row
    <3>2. CASE glob' = Bumped(glob, MaxUpdate + 1)
      <4>1. MaxUpdate + 1 \in Nat
        BY MemoryAssumption
      <4>2. PICK i \in Nat : i = MaxUpdate + 1
        BY <4>1
      <4>3. glob' = Bumped(glob, i)
        BY <3>2, <4>2
      <4>4. glob' \in Row /\ glob'.input > glob.input /\ glob'.success = glob.success
        BY <1>1, <4>3, BumpedType
      <4> QED
        BY <1>1, <4>4 DEF Row
    <3> QED
      BY <2>2, <3>1, <3>2
  <2>4. \A u \in Thread : out'[u] # None => out[u] # None /\ out'[u].src = out[u].src
    <3>1. CASE Use(t) \/ Age(t) \/ Expire(t)
      BY <1>1, <3>1 DEF Use, Age, Expire, OutRow, dbVars
    <3>2. CASE UNCHANGED out
      BY <3>2
    <3> QED
      BY <1>17, <3>1, <3>2
         DEF Pollute, UserTurn, Expire, PolluteReads, PolluteWrites, PolluteBumps, PolluteCrashes,
             dbVars
  <2>5. Quiet
    BY <2>1, <2>3, <2>4 DEF Quiet
  <2> QED
    BY <2>1, <2>5, QuietStep
<1>18. CASE Pass
  <2>1. UNCHANGED <<pc, mark, sel, stale, missed, out>>
    BY <1>18 DEF Pass, LeaseOver, RetryDue, GlobalLeaseOver, GlobalRetryDue, CooldownOver,
                 envVars, runVars, ghostVars
  <2>2. glob'.input = glob.input /\ glob'.success = glob.success
    BY <1>1, <1>18 DEF Pass, LeaseOver, RetryDue, GlobalLeaseOver, GlobalRetryDue, CooldownOver,
                       Row
  <2>3. Quiet
    BY <1>1, <2>1, <2>2 DEF Quiet
  <2> QED
    BY <2>1, <2>3, QuietStep
<1>19. CASE UNCHANGED vars
  BY <1>3, <1>19, QuietStep DEF vars, dbVars, threadVars, runVars, ghostVars
<1> QED
  BY <1>4, <1>5, <1>6, <1>7, <1>8, <1>9, <1>10, <1>11, <1>12, <1>13, <1>14, <1>15, <1>16, <1>17,
     <1>18, <1>19 DEF Next, Work, Extract, Consolidate

(* Every output that an extraction wrote or withdrew since the last        *)
(* consolidation chose its inputs leaves the input watermark above the     *)
(* watermark of that consolidation.                                        *)
THEOREM MissedIsVisibleHolds == Spec => []MissedIsVisible
<1>1. Init => WatermarkInv
  BY DEF Init, NoRow, WatermarkInv, SourcesInv, MarkInv, SelectedInv, StaleInv, MissedIsVisible,
         Chosen, Phase2
<1>2. MemoryTypeOK /\ WatermarkInv /\ [Next]_vars => WatermarkInv'
  BY WatermarkStep
<1>3. WatermarkInv => MissedIsVisible
  BY DEF WatermarkInv
<1> QED
  BY <1>1, <1>2, <1>3, MemoryTypeCorrect, PTL DEF Spec

-----------------------------------------------------------------------------
(***************************************************************************)
(* The workspace, where no worker outlives its lease: whoever works on it  *)
(* is then alone, and the baseline is only ever reset to inputs and a      *)
(* handbook that agree, so that a workspace without changes is up to date. *)
(***************************************************************************)
Using == {"agent", "confirm", "reset", "commit", "report"}
Prepared == {"keys", "rows", "prune", "sync", "agent", "confirm", "reset"}

BaseInv ==
    /\ late = {}
    /\ base = None => book = files
    /\ base # None => base.book = base.files
PreparedInv == \A w \in Worker : pc[w] \in Prepared => base # None
SyncedInv ==
    \A w \in Worker :
        /\ pc[w] \in Using \cup {"sync"} => files \subseteq sel[w] \cup stuck
        /\ pc[w] \in Using => sel[w] \subseteq files
WrittenInv ==
    \A w \in Worker :
        /\ pc[w] \in {"confirm", "reset", "commit", "report"} => book = files
        /\ pc[w] = "report" => base = Content
SpaceInv == BaseInv /\ PreparedInv /\ SyncedInv /\ WrittenInv

\* The places from which a worker relies on the workspace.
Reliant == Using \cup Prepared

\* The workspace is left alone, and nobody comes to use it.
Elsewhere ==
    /\ UNCHANGED <<files, book, base, stuck>> /\ late' \subseteq late
    /\ \A v \in Worker : pc'[v] \in Using \cup {"sync"} => pc'[v] = pc[v] /\ sel'[v] = sel[v]
    /\ \A v \in Worker : pc'[v] \in Prepared => pc[v] \in Prepared

LEMMA ElsewhereKeeps ==
  ASSUME SpaceInv, Elsewhere
  PROVE  SpaceInv'
<1>1. BaseInv' /\ PreparedInv'
  BY DEF SpaceInv, BaseInv, PreparedInv, Elsewhere
<1>2. SyncedInv'
  BY DEF SpaceInv, SyncedInv, Elsewhere
<1>3. WrittenInv'
  BY DEF SpaceInv, WrittenInv, Content, Elsewhere, Using
<1> QED
  BY <1>1, <1>2, <1>3 DEF SpaceInv

LEMMA Alone ==
  ASSUME LeaseInv, BaseInv, NEW v \in Worker, NEW w \in Worker,
         pc[v] \in Phase2 \ {"fail"}, pc[w] \in Phase2 \ {"fail"}
  PROVE  v = w
  BY DEF LeaseInv, BaseInv, Consolidates, Owns

\* One worker alone relies on the workspace, before and after its step.
AloneAt(w) ==
    /\ \A v \in Worker : pc'[v] \in Reliant => v = w
    /\ late' = {}

\* What the step of that worker has to show.
LEMMA AloneKeeps ==
  ASSUME NEW w \in Worker, AloneAt(w), BaseInv',
         pc'[w] \in Prepared => base' # None,
         pc'[w] \in Using \cup {"sync"} => files' \subseteq sel'[w] \cup stuck',
         pc'[w] \in Using => sel'[w] \subseteq files',
         pc'[w] \in {"confirm", "reset", "commit", "report"} => book' = files',
         pc'[w] = "report" => base' = Content'
  PROVE  SpaceInv'
<1>1. PreparedInv' /\ SyncedInv'
  BY DEF AloneAt, PreparedInv, SyncedInv, Reliant, Using, Prepared
<1>2. WrittenInv'
  BY DEF AloneAt, WrittenInv, Reliant, Using, Prepared
<1> QED
  BY <1>1, <1>2 DEF SpaceInv

LEMMA SpaceKept ==
  ASSUME MemoryTypeOK, LeaseInv, SpaceInv, [Next]_vars, ~Slow
  PROVE  SpaceInv'
<1>1. /\ pc \in [Worker -> WorkerPC] /\ sel \in [Worker -> SUBSET Memory]
      /\ base \in Baseline \cup {None}
  BY DEF MemoryTypeOK
<1>2. late = {}
  BY DEF SpaceInv, BaseInv
<1>3. ASSUME NEW w \in Worker, Startup(w) PROVE Elsewhere
  BY <1>1, <1>3 DEF Startup, Start, Scan, Look, Take, ScanDone, Goto, Elsewhere, Using, Prepared,
                    spaceVars, runVars, ghostVars
<1>4. ASSUME NEW w \in Worker, Extract(w) PROVE Elsewhere
  BY <1>1, <1>4 DEF Extract, ExtractSucceeds, ExtractsNothing, ExtractFails, Elsewhere, spaceVars,
                    runVars, ghostVars
<1>5. ASSUME NEW w \in Worker, Leave(w), UNCHANGED spaceVars PROVE Elsewhere
  BY <1>1, <1>5 DEF Leave, Elsewhere, Using, Prepared, spaceVars
<1>6. ASSUME NEW w \in Worker, LookGlobal(w) \/ ClaimGlobal(w) PROVE Elsewhere
  <2>1. UNCHANGED spaceVars
    BY <1>6 DEF LookGlobal, ClaimGlobal
  <2>2. CASE Leave(w)
    BY <1>5, <2>1, <2>2
  <2>3. CASE ~Leave(w)
    BY <1>1, <1>6, <2>1, <2>3 DEF LookGlobal, ClaimGlobal, Goto, Elsewhere, Using, Prepared,
                                  spaceVars, runVars
  <2> QED
    BY <2>2, <2>3
<1>7. ASSUME NEW w \in Worker, ReadMark(w) \/ SelectKeys(w) \/ SelectRows(w) PROVE Elsewhere
  BY <1>1, <1>7 DEF ReadMark, SelectKeys, SelectRows, Goto, Elsewhere, Using, Prepared, spaceVars,
                    ghostVars
<1>8. ASSUME NEW w \in Worker, Arrange(w) PROVE AloneAt(w)
  <2>1. pc[w] \in Phase2 \ {"fail"}
    BY <1>8
       DEF Arrange, Prepare, Prune, Sync, Diff, AgentWrites, ResetBaseline, Commit, Goto, Phase2
  <2>2. \A v \in Worker : v # w => pc'[v] = pc[v]
    BY <1>1, <1>8
       DEF Arrange, Prepare, Prune, Sync, Diff, AgentWrites, ResetBaseline, Commit, Goto
  <2>3. late' = {}
    BY <1>2, <1>8 DEF Arrange, Prepare, Prune, Sync, Diff, AgentWrites, ResetBaseline, Commit,
                      ghostVars
  <2>4. \A v \in Worker : v # w => pc[v] \notin Reliant
    BY <2>1, Alone DEF SpaceInv, Reliant, Using, Prepared, Phase2
  <2> QED
    BY <2>2, <2>3, <2>4 DEF AloneAt
<1>9. ASSUME NEW w \in Worker, Prepare(w) PROVE SpaceInv'
  <2>1. AloneAt(w)
    BY <1>8, <1>9 DEF Arrange
  <2>2. /\ UNCHANGED <<files, book, stuck, sel>> /\ pc'[w] = "keys"
        /\ base' = IF base = None THEN Content ELSE base
    BY <1>1, <1>9 DEF Prepare, Goto, runVars
  <2>3. base' # None /\ base'.book = base'.files
    <3>1. Content \in Baseline /\ Content.book = book /\ Content.files = files
      BY DEF MemoryTypeOK, Content, Baseline
    <3> QED
      BY <1>1, <2>2, <3>1, BaselineAssumption DEF SpaceInv, BaseInv
  <2>4. BaseInv'
    BY <2>1, <2>3 DEF BaseInv, AloneAt
  <2> QED
    BY <2>1, <2>2, <2>3, <2>4, AloneKeeps DEF Using
<1>10. ASSUME NEW w \in Worker, Prune(w) PROVE SpaceInv'
  <2>1. AloneAt(w)
    BY <1>8, <1>10 DEF Arrange
  <2>2. UNCHANGED <<book, base, sel>> /\ base # None
    BY <1>10 DEF Prune, runVars, SpaceInv, PreparedInv, Prepared
  <2>3. BaseInv'
    BY <2>1, <2>2 DEF SpaceInv, BaseInv, AloneAt
  <2>4. \/ pc'[w] = "prune"
        \/ pc'[w] = "sync" /\ UNCHANGED files /\ stuck' = files \ sel[w]
    BY <1>1, <1>10 DEF Prune, Goto
  <2>5. pc'[w] = "sync" => files' \subseteq sel'[w] \cup stuck'
    BY <2>2, <2>4
  <2> QED
    BY <2>1, <2>2, <2>3, <2>4, <2>5, AloneKeeps DEF Using
<1>11. ASSUME NEW w \in Worker, Sync(w) PROVE SpaceInv'
  <2>1. AloneAt(w)
    BY <1>8, <1>11 DEF Arrange
  <2>2. UNCHANGED <<book, base, sel, stuck>> /\ pc'[w] = "sync" /\ base # None
    BY <1>1, <1>11 DEF Sync, runVars, SpaceInv, PreparedInv, Prepared
  <2>3. BaseInv'
    BY <2>1, <2>2 DEF SpaceInv, BaseInv, AloneAt
  <2>4. files' \subseteq sel'[w] \cup stuck'
    BY <1>11, <2>2 DEF Sync, SpaceInv, SyncedInv
  <2> QED
    BY <2>1, <2>2, <2>3, <2>4, AloneKeeps DEF Using
<1>12. ASSUME NEW w \in Worker, Diff(w) PROVE SpaceInv'
  <2>1. AloneAt(w)
    BY <1>8, <1>12 DEF Arrange
  <2>2. UNCHANGED <<files, book, stuck, sel>> /\ base # None /\ sel[w] \subseteq files
        /\ files \subseteq sel[w] \cup stuck
    BY <1>12 DEF Diff, Goto, runVars, SpaceInv, SyncedInv, PreparedInv, Prepared
  <2>3. base' = base
    BY <1>12, <2>2 DEF Diff
  <2>4. BaseInv'
    BY <2>1, <2>2, <2>3 DEF SpaceInv, BaseInv, AloneAt
  <2>5. pc'[w] = "agent" \/ (pc'[w] = "report" /\ base = Content)
    BY <1>1, <1>12, <2>2 DEF Diff, Goto
  <2>6. pc'[w] = "report" => book' = files' /\ base' = Content'
    BY <2>2, <2>3, <2>5 DEF SpaceInv, BaseInv, Content
  <2> QED
    BY <2>1, <2>2, <2>3, <2>4, <2>5, <2>6, AloneKeeps
<1>13. ASSUME NEW w \in Worker, AgentWrites(w) PROVE SpaceInv'
  <2>1. AloneAt(w)
    BY <1>8, <1>13 DEF Arrange
  <2>2. UNCHANGED <<files, base, stuck, sel>> /\ book' = files /\ base # None
        /\ sel[w] \subseteq files /\ files \subseteq sel[w] \cup stuck /\ pc'[w] = "confirm"
    BY <1>1, <1>13
       DEF AgentWrites, Goto, runVars, SpaceInv, SyncedInv, PreparedInv, Prepared, Using
  <2>3. BaseInv'
    BY <2>1, <2>2 DEF SpaceInv, BaseInv, AloneAt
  <2> QED
    BY <2>1, <2>2, <2>3, AloneKeeps
<1>14. ASSUME NEW w \in Worker, ResetBaseline(w) PROVE SpaceInv'
  <2>1. AloneAt(w)
    BY <1>8, <1>14 DEF Arrange
  <2>2. UNCHANGED <<files, book, stuck, sel>> /\ base' = None /\ book = files
        /\ sel[w] \subseteq files /\ files \subseteq sel[w] \cup stuck /\ pc'[w] = "commit"
    BY <1>1, <1>14 DEF ResetBaseline, Goto, runVars, SpaceInv, SyncedInv, WrittenInv, Using
  <2>3. BaseInv'
    BY <2>1, <2>2 DEF BaseInv, AloneAt
  <2> QED
    BY <2>1, <2>2, <2>3, AloneKeeps DEF Prepared
<1>15. ASSUME NEW w \in Worker, Commit(w) PROVE SpaceInv'
  <2>1. AloneAt(w)
    BY <1>8, <1>15 DEF Arrange
  <2>2. UNCHANGED <<files, book, stuck, sel>> /\ base' = Content /\ book = files
        /\ sel[w] \subseteq files /\ files \subseteq sel[w] \cup stuck /\ pc'[w] = "report"
    BY <1>1, <1>15 DEF Commit, Goto, runVars, SpaceInv, SyncedInv, WrittenInv, Using
  <2>3. base' = Content' /\ base' # None /\ base'.book = base'.files
    <3>1. Content \in Baseline /\ Content.book = book /\ Content.files = files
          /\ Content' = Content
      BY <2>2 DEF MemoryTypeOK, Content, Baseline
    <3> QED
      BY <2>2, <3>1, BaselineAssumption
  <2>4. BaseInv'
    BY <2>1, <2>2, <2>3 DEF BaseInv, AloneAt
  <2> QED
    BY <2>1, <2>2, <2>3, <2>4, AloneKeeps DEF Prepared
<1>16. ASSUME NEW w \in Worker, Heartbeat(w) PROVE SpaceInv'
  <2>1. CASE Owns(w, glob)
    <3>1. /\ UNCHANGED <<files, book, base, stuck, sel>> /\ late' = {}
          /\ \A v \in Worker : v # w => pc'[v] = pc[v]
          /\ pc'[w] = IF pc[w] = "confirm" THEN "reset" ELSE "agent"
      BY <1>1, <1>2, <1>16, <2>1 DEF Heartbeat, spaceVars, runVars
    <3>2. pc[w] \in {"agent", "confirm"}
      BY <1>16 DEF Heartbeat
    <3>3. \A v \in Worker : v # w => pc[v] \notin Reliant
      BY <3>2, Alone DEF SpaceInv, Reliant, Using, Prepared, Phase2
    <3>4. AloneAt(w)
      BY <3>1, <3>3 DEF AloneAt
    <3>5. BaseInv'
      BY <3>1 DEF SpaceInv, BaseInv
    <3>6. /\ base # None /\ sel[w] \subseteq files /\ files \subseteq sel[w] \cup stuck
          /\ pc[w] = "confirm" => book = files
      BY <3>2 DEF SpaceInv, SyncedInv, WrittenInv, PreparedInv, Prepared, Using
    <3> QED
      BY <3>1, <3>2, <3>4, <3>5, <3>6, AloneKeeps
  <2>2. CASE ~Owns(w, glob)
    <3>1. Elsewhere
      BY <1>1, <1>16, <2>2 DEF Heartbeat, Quit, Elsewhere, Using, Prepared, spaceVars
    <3> QED
      BY <3>1, ElsewhereKeeps
  <2> QED
    BY <2>1, <2>2
<1>17. ASSUME NEW w \in Worker, ReportSuccess(w) \/ ReportFailure(w) \/ Crash(w) PROVE Elsewhere
  BY <1>5, <1>17 DEF ReportSuccess, ReportFailure, Crash
<1>18. ASSUME NEW w \in Worker, ScanFails(w) \/ Fault(w) PROVE Elsewhere
  BY <1>1, <1>18 DEF ScanFails, Fault, Quit, Elsewhere, Using, Prepared, spaceVars, runVars,
                     ghostVars
<1>19. ASSUME NEW t \in Thread,
              UserTurn(t) \/ Pollute(t) \/ PolluteCrashes(t) \/ Use(t) \/ Age(t) \/ Expire(t)
       PROVE  Elsewhere
  BY <1>19
     DEF Pollute, UserTurn, Expire, PolluteReads, PolluteWrites, PolluteBumps, PolluteCrashes, Use,
         Age, envVars, spaceVars, runVars, ghostVars, Elsewhere
<1>20. ASSUME Pass PROVE Elsewhere
  <2>1. UNCHANGED <<files, book, base, stuck, pc, sel>>
    BY <1>20 DEF Pass, GlobalLeaseOver, LeaseOver, RetryDue, GlobalRetryDue, CooldownOver, envVars,
                 spaceVars, runVars
  <2>2. late' \subseteq late
    BY <1>20, MemoryAssumption DEF Pass, GlobalLeaseOver, LeaseOver, RetryDue, GlobalRetryDue,
                                   CooldownOver, envVars, ghostVars
  <2> QED
    BY <2>1, <2>2 DEF Elsewhere
<1>21. ASSUME UNCHANGED vars PROVE Elsewhere
  <2>1. UNCHANGED <<files, book, base, stuck, pc, sel, late>>
    BY <1>21 DEF vars, spaceVars, runVars, ghostVars
  <2> QED
    BY <2>1 DEF Elsewhere
<1> QED
  BY <1>3, <1>4, <1>6, <1>7, <1>9, <1>10, <1>11, <1>12, <1>13, <1>14, <1>15, <1>16, <1>17, <1>18,
     <1>19, <1>20, <1>21, ElsewhereKeeps DEF Next, Work, Consolidate, Arrange

RecordedIsConsolidated == \A w \in Worker : Records(w) => Consolidated(w)

(* Where no session outlives its lease, a consolidation recorded as a      *)
(* success left the selected memories in the inputs, and beside them only  *)
(* summaries whose removal failed; the handbook is that of these inputs    *)
(* and the baseline holds both, however many sessions start, crash or fail *)
(* at any step, between two files or between two repositories.             *)
THEOREM SuccessMeansConsolidatedHolds ==
  ASSUME ~Slow
  PROVE  Spec => SuccessMeansConsolidated
<1>1. Init => SpaceInv
  BY DEF Init, SpaceInv, BaseInv, PreparedInv, SyncedInv, WrittenInv, Using, Prepared
<1>2. MemoryTypeOK /\ LeaseInv /\ SpaceInv /\ [Next]_vars => SpaceInv'
  BY SpaceKept
<1>3. SpaceInv => [RecordedIsConsolidated]_vars
  BY DEF SpaceInv, SyncedInv, WrittenInv, Using, Records, RecordedIsConsolidated, Consolidated
<1>4. [][RecordedIsConsolidated]_vars => SuccessMeansConsolidated
  BY PTL DEF SuccessMeansConsolidated, RecordedIsConsolidated
<1> QED
  BY <1>1, <1>2, <1>3, <1>4, MemoryTypeCorrect, LeaseInvariant, PTL DEF Spec
=============================================================================
