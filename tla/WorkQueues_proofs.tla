-------------------------- MODULE WorkQueues_proofs --------------------------
(***************************************************************************)
(* Proofs about WorkQueues, for any of the queues, any records and any     *)
(* number of runs and of loads in flight.                                  *)
(***************************************************************************)
EXTENDS WorkQueues, FiniteSetTheorems, TLAPS

RunState == [stage : RunStages, selected : SUBSET Ids,
             readFrom : Queues \cup {NoQueue}, queue : Queues \cup {NoQueue},
             refused : SUBSET (1..Cardinality(Ids)), denied : SUBSET Ids]
LoadState == [Queues \X {"offices", "list"} -> 0..MaxQueueLoads]

(* The requestId of a record is a number up to how many records there are. *)
LEMMA RequestIdRange ==
  ASSUME QueuesAssumption, NEW batch \in SUBSET Ids, NEW x \in batch
  PROVE  RequestId(batch, x) \in 1..Cardinality(Ids)
  <1> DEFINE upTo == {y \in batch : y <= x}
  <1>a. IsFiniteSet(Ids) /\ Ids \subseteq Nat
    BY DEF QueuesAssumption
  <1>b. x \in Nat /\ upTo \subseteq Ids
    BY <1>a
  <1>c. x <= x
    BY <1>b
  <1>1. upTo \subseteq Ids /\ IsFiniteSet(Ids) /\ x \in upTo
    BY <1>a, <1>b, <1>c
  <1>2. IsFiniteSet(upTo) /\ Cardinality(upTo) <= Cardinality(Ids)
    BY <1>1, FS_Subset
  <1>3. Cardinality(upTo) \in Nat /\ Cardinality(Ids) \in Nat /\ Cardinality(upTo) # 0
    BY <1>1, <1>2, FS_CardinalityType, FS_EmptySet
  <1> QED
    BY <1>2, <1>3 DEF RequestId

(* No two records of a batch have the same requestId. *)
LEMMA RequestIdInjective ==
  ASSUME QueuesAssumption, NEW batch \in SUBSET Ids, NEW x \in batch, NEW y \in batch,
         RequestId(batch, x) = RequestId(batch, y)
  PROVE  x = y
  <1>0. x \in Nat /\ y \in Nat
    BY DEF QueuesAssumption
  <1>1. ASSUME NEW a \in batch, NEW b \in batch, a < b,
               RequestId(batch, a) = RequestId(batch, b)
        PROVE  FALSE
    <2> DEFINE A == {z \in batch : z <= a}
               B == {z \in batch : z <= b}
    <2>0. batch \subseteq Nat /\ a \in Nat /\ b \in Nat
      BY DEF QueuesAssumption
    <2>a. IsFiniteSet(Ids)
      BY DEF QueuesAssumption
    <2>d. ASSUME NEW z \in batch, z <= a
          PROVE  z <= b
      BY <1>1, <2>0, <2>d
    <2>e. A \subseteq B
      BY <2>d
    <2>f. B \subseteq Ids
      OBVIOUS
    <2>b. A \subseteq B /\ B \subseteq Ids
      BY <2>e, <2>f
    <2>c. b <= b /\ ~(b <= a)
      BY <1>1, <2>0
    <2>1. A \subseteq B /\ B \subseteq Ids /\ IsFiniteSet(Ids) /\ b \in B /\ b \notin A
      BY <2>a, <2>b, <2>c
    <2>2. IsFiniteSet(B)
      BY <2>1, FS_Subset
    <2>3. A = B
      BY <1>1, <2>1, <2>2, FS_Subset DEF RequestId
    <2> QED
      BY <2>1, <2>3
  <1> QED
    BY <1>0, <1>1

(* What a run becomes when it is over, and before it is used. *)
LEMMA RunStatesOver ==
  ASSUME NEW denied \in SUBSET Ids
  PROVE  OverRun(denied) \in RunState /\ Unrun \in RunState
  BY DEF OverRun, Unrun, RunState, RunStages

LEMMA OverRunHolds ==
  ASSUME NEW denied
  PROVE  OverRun(denied).stage = "over" /\ OverRun(denied).queue = NoQueue
  BY DEF OverRun, Unrun

-----------------------------------------------------------------------------
(* Type correctness *)

LEMMA QueuesTypeInit ==
  ASSUME QueuesAssumption, QueuesInit
  PROVE  QueuesTypeOK
  <1>1. run \in [Runs -> RunState]
    BY RunStatesOver DEF QueuesInit
  <1>2. FirstLoad("loanApproval") \in Queues \X {"offices", "list"}
    BY DEF FirstLoad, QueuesAssumption
  <1>3. loads \in LoadState
    BY <1>2 DEF QueuesInit, NoQueueLoads, LoadState, QueuesAssumption
  <1>4. lastResult \in [run : 0..MaxRuns, names : SUBSET Ids]
    BY DEF QueuesInit, NoResult, QueuesAssumption
  <1> QED
    BY <1>1, <1>3, <1>4 DEF QueuesInit, QueuesTypeOK, RunState, LoadState,
                            QueuesAssumption

(* A load moves only what it should, and within its bound. *)
LEMMA LoadTyped ==
  ASSUME QueuesAssumption, QueuesTypeOK, NEW q \in Queues, LoadQueue(q)
  PROVE  /\ loads' \in LoadState /\ isLoading' \in BOOLEAN
         /\ rows' = {} /\ selected' = {} /\ readFrom' = NoQueue
  <1>1. FirstLoad(q) \in Queues \X {"offices", "list"}
    BY DEF FirstLoad
  <1>2. loads[FirstLoad(q)] \in 0..MaxQueueLoads /\ loads[FirstLoad(q)] + 1 \in 0..MaxQueueLoads
    BY <1>1 DEF QueuesTypeOK, LoadQueue, QueuesAssumption
  <1> QED
    BY <1>1, <1>2 DEF LoadQueue, QueuesTypeOK, LoadState

LEMMA QueuesTypeStep ==
  ASSUME QueuesAssumption, QueuesTypeOK, [QueuesNext]_queuesVars
  PROVE  QueuesTypeOK'
  <1>0. run \in [Runs -> RunState] /\ loads \in LoadState
    BY DEF QueuesTypeOK, RunState, LoadState
  <1>k. ASSUME activeQueue' \in Queues, readFrom' \in Queues \cup {NoQueue},
               rows' \subseteq Ids, selected' \subseteq rows', isLoading' \in BOOLEAN,
               isRunning' \in BOOLEAN, officeNames' \in BOOLEAN,
               lastResult' \in [run : 0..MaxRuns, names : SUBSET Ids],
               loads' \in LoadState, run' \in [Runs -> RunState],
               pending' \in [Queues -> SUBSET Ids]
        PROVE  QueuesTypeOK'
    BY <1>k DEF QueuesTypeOK, RunState, LoadState
  <1>l. ASSUME NEW q \in Queues, NEW stage \in {"offices", "list"}, loads[<<q, stage>>] > 0
        PROVE  [loads EXCEPT ![<<q, stage>>] = @ - 1] \in LoadState
    <2>1. loads[<<q, stage>>] \in 0..MaxQueueLoads
      BY <1>0 DEF LoadState
    <2>2. loads[<<q, stage>>] - 1 \in 0..MaxQueueLoads
      BY <1>l, <2>1 DEF QueuesAssumption
    <2> QED
      BY <1>0, <2>2 DEF LoadState
  <1>1. CASE \E q \in Queues : OnQueueChange(q)
    <2>1. PICK q \in Queues : OnQueueChange(q)
      BY <1>1
    <2>2. /\ loads' \in LoadState /\ isLoading' \in BOOLEAN
          /\ rows' = {} /\ selected' = {} /\ readFrom' = NoQueue
      BY <2>1, LoadTyped DEF OnQueueChange
    <2>3. lastResult' \in [run : 0..MaxRuns, names : SUBSET Ids]
      BY <2>1 DEF OnQueueChange, NoResult, QueuesAssumption
    <2> QED
      BY <1>0, <1>k, <2>1, <2>2, <2>3 DEF OnQueueChange, QueuesTypeOK
  <1>2. CASE \E q \in Queues : OfficesArrive(q)
    <2>1. PICK q \in Queues : OfficesArrive(q)
      BY <1>2
    <2>2. /\ loads[<<q, "offices">>] \in 0..MaxQueueLoads
          /\ loads[<<q, "list">>] \in 0..MaxQueueLoads
      BY <1>0 DEF LoadState
    <2>3. /\ loads[<<q, "offices">>] - 1 \in 0..MaxQueueLoads
          /\ loads[<<q, "list">>] + 1 \in 0..MaxQueueLoads
      BY <2>1, <2>2 DEF OfficesArrive, QueuesAssumption
    <2>4. loads' \in LoadState
      BY <1>0, <2>1, <2>3 DEF OfficesArrive, LoadState
    <2> QED
      BY <1>0, <1>k, <2>1, <2>4 DEF OfficesArrive, QueuesTypeOK, queueScreen
  <1>3. CASE \E q \in Queues : OfficesFail(q)
    BY <1>0, <1>3, <1>k, <1>l DEF OfficesFail, QueuesTypeOK, queueScreen
  <1>4. CASE \E q \in Queues : QueueArrives(q)
    <2>1. PICK q \in Queues : QueueArrives(q)
      BY <1>4
    <2>2. loads' \in LoadState
      BY <1>l, <2>1 DEF QueueArrives
    <2>3. rows' \subseteq Ids /\ selected' \subseteq rows' /\ readFrom' \in Queues
      BY <2>1 DEF QueueArrives, QueuesTypeOK
    <2> QED
      BY <1>0, <1>k, <2>1, <2>2, <2>3 DEF QueueArrives, QueuesTypeOK
  <1>5. CASE \E q \in Queues : QueueFails(q)
    <2>1. PICK q \in Queues : QueueFails(q)
      BY <1>5
    <2>2. loads' \in LoadState
      BY <1>l, <2>1 DEF QueueFails
    <2> QED
      BY <1>0, <1>k, <2>1, <2>2 DEF QueueFails, QueuesTypeOK, queueScreen
  <1>6. CASE \E id \in Ids : OnSelectRow(id)
    BY <1>0, <1>6, <1>k DEF OnSelectRow, QueuesTypeOK
  <1>7. CASE \E checked \in BOOLEAN : OnSelectAll(checked)
    BY <1>0, <1>7, <1>k DEF OnSelectAll, QueuesTypeOK
  <1>8. CASE \E n \in Runs : RunStep(n)
    <2>1. PICK n \in Runs : RunStep(n)
      BY <1>8
    <2>r. ASSUME NEW r \in RunState
          PROVE  [run EXCEPT ![n] = r] \in [Runs -> RunState]
      BY <1>0
    <2>2. run[n] \in RunState
      BY <1>0
    <2>3. CASE OnRun(n)
      <3>1. [Unrun EXCEPT !.stage = "opening", !.selected = selected,
                          !.readFrom = readFrom] \in RunState
        BY RunStatesOver DEF QueuesTypeOK, RunState, RunStages
      <3> QED
        BY <1>k, <2>3, <2>r, <3>1, <1>0 DEF OnRun, QueuesTypeOK, queueScreen
    <2>4. CASE DialogOpens(n)
      <3>1. [run[n] EXCEPT !.stage = "open"] \in RunState
        BY <2>2 DEF RunState, RunStages
      <3> QED
        BY <1>0, <1>k, <2>4, <2>r, <3>1 DEF DialogOpens, QueuesTypeOK, queueScreen
    <2>5. CASE Declined(n)
      BY <1>0, <1>k, <2>5, <2>r, RunStatesOver DEF Declined, QueuesTypeOK, queueScreen
    <2>6. CASE Confirmed(n)
      <3>1. [run[n] EXCEPT !.stage = "sent", !.queue = BatchQueue] \in RunState
        BY <2>2 DEF RunState, RunStages, BatchQueue, QueuesTypeOK
      <3>2. run' = [run EXCEPT ![n] = [run[n] EXCEPT !.stage = "sent", !.queue = BatchQueue]]
        BY <1>0, <2>6 DEF Confirmed, RunState
      <3> QED
        BY <1>0, <1>k, <2>6, <2>r, <3>1, <3>2 DEF Confirmed, QueuesTypeOK, queueScreen
    <2>7. CASE Execute(n)
      <3> DEFINE done == run[n].selected \cap pending[run[n].queue]
                 denied == run[n].selected \ done
                 refused == {RequestId(run[n].selected, x) : x \in denied}
      <3>1. denied \in SUBSET Ids /\ run[n].selected \in SUBSET Ids
        BY <2>2 DEF RunState
      <3>2. refused \in SUBSET (1..Cardinality(Ids))
        BY <3>1, RequestIdRange
      <3>3. [run[n] EXCEPT !.stage = "executed", !.denied = denied, !.refused = refused]
              \in RunState
        BY <2>2, <3>1, <3>2 DEF RunState, RunStages
      <3>4. run' = [run EXCEPT ![n] = [run[n] EXCEPT !.stage = "executed",
                                         !.denied = denied, !.refused = refused]]
        BY <1>0, <2>7 DEF Execute, RunState
      <3>5. run' \in [Runs -> RunState]
        BY <2>r, <3>3, <3>4
      <3>6. pending' \in [Queues -> SUBSET Ids]
        BY <2>7, <3>1 DEF Execute, QueuesTypeOK
      <3> QED
        BY <1>0, <1>k, <2>7, <3>5, <3>6 DEF Execute, QueuesTypeOK, queueScreen
    <2>8. CASE BatchAnswers(n)
      <3>1. OverRun(run[n].denied) \in RunState
        BY <2>2, RunStatesOver DEF RunState
      <3>2. run' \in [Runs -> RunState]
        BY <2>8, <2>r, <3>1 DEF BatchAnswers
      <3>3. lastResult' \in [run : 0..MaxRuns, names : SUBSET Ids]
        BY <2>2, <2>8 DEF BatchAnswers, Named, RunState, Runs, QueuesAssumption
      <3>4. /\ loads' \in LoadState /\ isLoading' \in BOOLEAN
            /\ rows' = {} /\ selected' = {} /\ readFrom' = NoQueue
        BY <2>8, LoadTyped DEF BatchAnswers, QueuesTypeOK
      <3> QED
        BY <1>k, <2>8, <3>2, <3>3, <3>4 DEF BatchAnswers, QueuesTypeOK
    <2>9. CASE BatchFails(n)
      BY <1>0, <1>k, <2>9, <2>r, RunStatesOver DEF BatchFails, QueuesTypeOK, queueScreen
    <2> QED
      BY <2>1, <2>3, <2>4, <2>5, <2>6, <2>7, <2>8, <2>9 DEF RunStep
  <1>9. CASE \E q \in Queues, id \in Ids : DealtWithElsewhere(q, id)
    BY <1>0, <1>9, <1>k DEF DealtWithElsewhere, QueuesTypeOK, queueScreen
  <1>10. CASE UNCHANGED queuesVars
    BY <1>10 DEF queuesVars, queueScreen, QueuesTypeOK
  <1> QED
    BY <1>1, <1>2, <1>3, <1>4, <1>5, <1>6, <1>7, <1>8, <1>9, <1>10
    DEF QueuesNext, Arrival

(* Every variable of the screen keeps its type, whatever loads, runs and answers *)
(* interleave: a selection is never of rows that are not there.                  *)
THEOREM QueuesTypeCorrect ==
  ASSUME QueuesAssumption
  PROVE  QueuesSafe => []QueuesTypeOK
  <1>1. QueuesInit => QueuesTypeOK
    BY QueuesTypeInit
  <1>2. QueuesTypeOK /\ [QueuesNext]_queuesVars => QueuesTypeOK'
    BY QueuesTypeStep
  <1> QED
    BY <1>1, <1>2, PTL DEF QueuesSafe

-----------------------------------------------------------------------------
(* Failures are named *)

\* The report on screen is of a run that is over, and names what it was denied; of a
\* run that was executed, the requestIds refused are those of the records denied.
RunReported(r) ==
  r.stage = "executed" =>
    /\ r.denied \subseteq r.selected
    /\ r.refused = {RequestId(r.selected, x) : x \in r.denied}
Reported ==
  /\ \A n \in Runs : RunReported(run[n])
  /\ lastResult.run # 0 => /\ run[lastResult.run].stage = "over"
                           /\ lastResult.names = run[lastResult.run].denied

(* The names of an executed run are those of the records it was denied. *)
LEMMA NamedAreDenied ==
  ASSUME QueuesAssumption, QueuesTypeOK, Reported, NEW n \in Runs,
         run[n].stage = "executed"
  PROVE  Named(n) = run[n].denied
  <1> DEFINE batch == run[n].selected
  <1>0. RunReported(run[n])
    BY DEF Reported
  <1>1. batch \in SUBSET Ids /\ run[n].denied \subseteq batch
    BY <1>0 DEF QueuesTypeOK, RunReported
  <1>2. run[n].refused = {RequestId(batch, x) : x \in run[n].denied}
    BY <1>0 DEF RunReported
  <1>3. ASSUME NEW x \in batch, RequestId(batch, x) \in run[n].refused
        PROVE  x \in run[n].denied
    <2>1. PICK y \in run[n].denied : RequestId(batch, x) = RequestId(batch, y)
      BY <1>2, <1>3
    <2>2. x \in batch /\ y \in batch /\ batch \in SUBSET Ids
      BY <1>1, <1>3, <2>1
    <2>3. x = y
      BY <2>1, <2>2, RequestIdInjective
    <2> QED
      BY <2>3
  <1>4. ASSUME NEW x \in run[n].denied
        PROVE  x \in batch /\ RequestId(batch, x) \in run[n].refused
    BY <1>1, <1>2
  <1> QED
    BY <1>3, <1>4 DEF Named

LEMMA ReportedStep ==
  ASSUME QueuesAssumption, QueuesTypeOK, Reported, [QueuesNext]_queuesVars
  PROVE  Reported'
  <1>0. /\ run \in [Runs -> RunState]
        /\ lastResult \in [run : 0..MaxRuns, names : SUBSET Ids]
        /\ lastResult.run # 0 => lastResult.run \in Runs
    BY DEF QueuesTypeOK, RunState, Runs, QueuesAssumption
  <1>u. ASSUME UNCHANGED <<run, lastResult>>
        PROVE  Reported'
    BY <1>u DEF Reported
  <1>r. ASSUME NEW n \in Runs, NEW r, run' = [run EXCEPT ![n] = r],
               run[n].stage # "over", UNCHANGED lastResult, RunReported(r)
        PROVE  Reported'
    <2>1. lastResult.run # 0 => lastResult.run # n /\ run'[lastResult.run] = run[lastResult.run]
      BY <1>0, <1>r DEF Reported
    <2>2. \A k \in Runs : run'[k] = IF k = n THEN r ELSE run[k]
      BY <1>0, <1>r
    <2> QED
      BY <1>0, <1>r, <2>1, <2>2 DEF Reported
  <1>1. CASE \E q \in Queues : OnQueueChange(q)
    BY <1>1 DEF OnQueueChange, NoResult, Reported
  <1>2. CASE \E q \in Queues : Arrival(q)
    BY <1>2, <1>u DEF Arrival, OfficesArrive, OfficesFail, QueueArrives, QueueFails
  <1>3. CASE \E id \in Ids : OnSelectRow(id)
    BY <1>3, <1>u DEF OnSelectRow
  <1>4. CASE \E checked \in BOOLEAN : OnSelectAll(checked)
    BY <1>4, <1>u DEF OnSelectAll
  <1>5. CASE \E n \in Runs : RunStep(n)
    <2>1. PICK n \in Runs : RunStep(n)
      BY <1>5
    <2>2. run[n] \in RunState
      BY <1>0
    <2>3. CASE OnRun(n)
      <3>1. RunReported([Unrun EXCEPT !.stage = "opening", !.selected = selected,
                                      !.readFrom = readFrom])
        BY DEF Unrun, RunReported
      <3> QED
        BY <1>r, <2>3, <3>1 DEF OnRun
    <2>4. CASE DialogOpens(n)
      <3>1. run' = [run EXCEPT ![n] = [run[n] EXCEPT !.stage = "open"]]
        BY <1>0, <2>4 DEF DialogOpens, RunState
      <3>2. RunReported([run[n] EXCEPT !.stage = "open"])
        BY <2>2 DEF RunState, RunReported
      <3> QED
        BY <1>r, <2>4, <3>1, <3>2 DEF DialogOpens
    <2>5. CASE Declined(n)
      <3>1. RunReported(OverRun({}))
        BY DEF OverRun, Unrun, RunReported
      <3> QED
        BY <1>r, <2>5, <3>1 DEF Declined
    <2>6. CASE Confirmed(n)
      <3>1. run' = [run EXCEPT ![n] = [run[n] EXCEPT !.stage = "sent", !.queue = BatchQueue]]
        BY <1>0, <2>6 DEF Confirmed, RunState
      <3>2. RunReported([run[n] EXCEPT !.stage = "sent", !.queue = BatchQueue])
        BY <2>2 DEF RunState, RunReported
      <3> QED
        BY <1>r, <2>6, <3>1, <3>2 DEF Confirmed
    <2>7. CASE Execute(n)
      <3> DEFINE denied == run[n].selected \ (run[n].selected \cap pending[run[n].queue])
                 refused == {RequestId(run[n].selected, x) : x \in denied}
                 r == [run[n] EXCEPT !.stage = "executed", !.denied = denied,
                                     !.refused = refused]
      <3>1. run' = [run EXCEPT ![n] = r]
        BY <1>0, <2>7 DEF Execute, RunState
      <3>2. r.denied = denied /\ r.selected = run[n].selected /\ r.refused = refused
        BY <2>2 DEF RunState
      <3>3. r.denied \subseteq r.selected
        BY <3>2
      <3>4. r.refused = {RequestId(r.selected, x) : x \in r.denied}
        BY <3>2
      <3>5. RunReported(r)
        BY <3>3, <3>4 DEF RunReported
      <3> QED
        BY <1>r, <2>7, <3>1, <3>5 DEF Execute
    <2>8. CASE BatchAnswers(n)
      <3>1. run' = [run EXCEPT ![n] = OverRun(run[n].denied)]
            /\ lastResult' = [run |-> n, names |-> Named(n)]
        BY <2>8 DEF BatchAnswers
      <3>2. Named(n) = run[n].denied
        BY <2>8, NamedAreDenied DEF BatchAnswers
      <3>3. /\ OverRun(run[n].denied).stage = "over"
            /\ OverRun(run[n].denied).denied = run[n].denied
            /\ RunReported(OverRun(run[n].denied))
        BY DEF OverRun, Unrun, RunReported
      <3>4. \A k \in Runs : run'[k] = IF k = n THEN OverRun(run[n].denied) ELSE run[k]
        BY <1>0, <3>1
      <3> QED
        BY <1>0, <2>8, <3>1, <3>2, <3>3, <3>4 DEF Reported
    <2>9. CASE BatchFails(n)
      <3>1. RunReported(OverRun({}))
        BY DEF OverRun, Unrun, RunReported
      <3> QED
        BY <1>r, <2>9, <3>1 DEF BatchFails
    <2> QED
      BY <2>1, <2>3, <2>4, <2>5, <2>6, <2>7, <2>8, <2>9 DEF RunStep
  <1>6. CASE \E q \in Queues, id \in Ids : DealtWithElsewhere(q, id)
    BY <1>6, <1>u DEF DealtWithElsewhere
  <1>7. CASE UNCHANGED queuesVars
    BY <1>7, <1>u DEF queuesVars
  <1> QED
    BY <1>1, <1>2, <1>3, <1>4, <1>5, <1>6, <1>7 DEF QueuesNext

(* A partial failure names exactly the records the platform refused, however many *)
(* runs overlap and whatever is selected, reloaded or switched to meanwhile.      *)
THEOREM RefusedAreNamed ==
  ASSUME QueuesAssumption
  PROVE  QueuesSafe => []FailuresAreNamed
  <1>1. QueuesInit => QueuesTypeOK /\ Reported
    <2>1. ASSUME QueuesInit
          PROVE  Reported
      <3>1. \A n \in Runs : run[n] = Unrun
        BY <2>1 DEF QueuesInit
      <3>2. RunReported(Unrun)
        BY DEF RunReported, Unrun
      <3>3. lastResult.run = 0
        BY <2>1 DEF QueuesInit, NoResult
      <3> QED
        BY <3>1, <3>2, <3>3 DEF Reported
    <2> QED
      BY <2>1, QueuesTypeInit
  <1>2. QueuesTypeOK /\ Reported /\ [QueuesNext]_queuesVars => QueuesTypeOK' /\ Reported'
    BY QueuesTypeStep, ReportedStep
  <1>3. Reported => FailuresAreNamed
    BY DEF Reported, FailuresAreNamed
  <1> QED
    BY <1>1, <1>2, <1>3, PTL DEF QueuesSafe

-----------------------------------------------------------------------------
(* Batches address their rows *)

\* What a user who waits keeps true: whatever is loaded, on screen or being run is of
\* the active queue.
OneQueue ==
  /\ \A q \in Queues, stage \in {"offices", "list"} : loads[<<q, stage>>] > 0 => q = activeQueue
  /\ rows # {} => readFrom = activeQueue
  /\ \A n \in Runs :
       /\ run[n].stage \notin {"unused", "over"} => run[n].readFrom = activeQueue
       /\ run[n].queue # NoQueue =>
            run[n].stage \in {"sent", "executed"} /\ run[n].queue = run[n].readFrom

LEMMA OneQueueStep ==
  ASSUME QueuesAssumption, Patient, QueuesTypeOK, OneQueue, [QueuesNext]_queuesVars
  PROVE  OneQueue'
  <1>0. run \in [Runs -> RunState] /\ loads \in LoadState
    BY DEF QueuesTypeOK, RunState, LoadState
  \* A load of the active queue.
  <1>l. ASSUME NEW q \in Queues, LoadQueue(q)
        PROVE  /\ rows' = {}
               /\ \A p \in Queues, stage \in {"offices", "list"} :
                    loads'[<<p, stage>>] > 0 => p = q \/ loads[<<p, stage>>] > 0
    <2>1. FirstLoad(q) \in {<<q, "offices">>, <<q, "list">>}
      BY DEF FirstLoad
    <2> QED
      BY <1>0, <1>l, <2>1 DEF LoadQueue, LoadState
  \* The runs that a step leaves alone, and the one it does not.
  <1>r. ASSUME NEW n \in Runs, NEW r, run' = [run EXCEPT ![n] = r], UNCHANGED activeQueue,
               r.stage \notin {"unused", "over"} => r.readFrom = activeQueue,
               r.queue # NoQueue => r.stage \in {"sent", "executed"} /\ r.queue = r.readFrom
        PROVE  \A k \in Runs :
                 /\ run'[k].stage \notin {"unused", "over"} => run'[k].readFrom = activeQueue'
                 /\ run'[k].queue # NoQueue =>
                      run'[k].stage \in {"sent", "executed"} /\ run'[k].queue = run'[k].readFrom
    <2>1. \A k \in Runs : run'[k] = IF k = n THEN r ELSE run[k]
      BY <1>0, <1>r
    <2> QED
      BY <1>r, <2>1 DEF OneQueue
  <1>1. CASE \E q \in Queues : OnQueueChange(q)
    <2>1. PICK q \in Queues : OnQueueChange(q)
      BY <1>1
    <2>2. QueuesAtRest /\ LoadQueue(q) /\ activeQueue' = q /\ UNCHANGED run
      BY <2>1 DEF OnQueueChange
    <2>3. \A p \in Queues, stage \in {"offices", "list"} : loads[<<p, stage>>] = 0
      BY <1>0, <2>2 DEF QueuesAtRest, LoadState
    <2>4. \A n \in Runs : run[n].stage \in {"unused", "over"}
      BY <2>2 DEF QueuesAtRest
    <2> QED
      BY <1>l, <2>2, <2>3, <2>4 DEF OneQueue
  <1>2. CASE \E q \in Queues : Arrival(q)
    <2>1. PICK q \in Queues : Arrival(q)
      BY <1>2
    <2>2. q = activeQueue /\ UNCHANGED <<run, activeQueue>>
      BY <2>1 DEF Arrival, OfficesArrive, OfficesFail, QueueArrives, QueueFails, OneQueue,
                  queueScreen
    <2>3. \A p \in Queues, stage \in {"offices", "list"} :
            loads'[<<p, stage>>] > 0 => p = q \/ loads[<<p, stage>>] > 0
      BY <1>0, <2>1 DEF Arrival, OfficesArrive, OfficesFail, QueueArrives, QueueFails,
                        LoadState
    <2>4. rows' # {} => readFrom' = activeQueue
      BY <2>1, <2>2 DEF Arrival, OfficesArrive, OfficesFail, QueueArrives, QueueFails,
                        OneQueue, queueScreen
    <2> QED
      BY <2>2, <2>3, <2>4 DEF OneQueue
  <1>3. CASE \E id \in Ids : OnSelectRow(id)
    BY <1>3 DEF OnSelectRow, OneQueue
  <1>4. CASE \E checked \in BOOLEAN : OnSelectAll(checked)
    BY <1>4 DEF OnSelectAll, OneQueue
  <1>5. CASE \E n \in Runs : RunStep(n)
    <2>1. PICK n \in Runs : RunStep(n)
      BY <1>5
    <2>2. run[n] \in RunState
      BY <1>0
    <2>3. CASE OnRun(n)
      <3> DEFINE r == [Unrun EXCEPT !.stage = "opening", !.selected = selected,
                                    !.readFrom = readFrom]
      <3>1. readFrom = activeQueue
        BY <2>3 DEF OnRun, OneQueue, QueuesTypeOK
      <3>2. r.readFrom = readFrom /\ r.queue = NoQueue
        BY DEF Unrun
      <3>3. run' = [run EXCEPT ![n] = r] /\ UNCHANGED <<queueScreen, loads>>
        BY <2>3 DEF OnRun
      <3> QED
        BY <1>r, <3>1, <3>2, <3>3 DEF OneQueue, queueScreen
    <2>4. CASE DialogOpens(n)
      <3> DEFINE r == [run[n] EXCEPT !.stage = "open"]
      <3>1. r.readFrom = run[n].readFrom /\ r.queue = run[n].queue
        BY <2>2 DEF RunState
      <3>2. run' = [run EXCEPT ![n] = r] /\ UNCHANGED <<queueScreen, loads>>
        BY <1>0, <2>4 DEF DialogOpens, RunState
      <3>3. run[n].readFrom = activeQueue /\ run[n].queue = NoQueue
        BY <2>4 DEF DialogOpens, OneQueue
      <3> QED
        BY <1>r, <3>1, <3>2, <3>3 DEF OneQueue, queueScreen
    <2>5. CASE Declined(n)
      BY <1>r, <2>5, OverRunHolds DEF Declined, OneQueue, queueScreen
    <2>6. CASE Confirmed(n)
      <3> DEFINE r == [run[n] EXCEPT !.stage = "sent", !.queue = BatchQueue]
      <3>1. r.readFrom = run[n].readFrom /\ r.queue = activeQueue /\ r.stage = "sent"
        BY <2>2 DEF RunState, BatchQueue
      <3>2. run' = [run EXCEPT ![n] = r] /\ UNCHANGED <<queueScreen, loads>>
        BY <1>0, <2>6 DEF Confirmed, RunState
      <3>3. run[n].readFrom = activeQueue
        BY <2>6 DEF Confirmed, OneQueue
      <3> QED
        BY <1>r, <3>1, <3>2, <3>3 DEF OneQueue, queueScreen
    <2>7. CASE Execute(n)
      <3> DEFINE denied == run[n].selected \ (run[n].selected \cap pending[run[n].queue])
                 refused == {RequestId(run[n].selected, x) : x \in denied}
                 r == [run[n] EXCEPT !.stage = "executed", !.denied = denied,
                                     !.refused = refused]
      <3>1. r.readFrom = run[n].readFrom /\ r.queue = run[n].queue /\ r.stage = "executed"
        BY <2>2 DEF RunState
      <3>2. run' = [run EXCEPT ![n] = r] /\ UNCHANGED <<queueScreen, loads>>
        BY <1>0, <2>7 DEF Execute, RunState
      <3>3. /\ run[n].readFrom = activeQueue
            /\ run[n].queue # NoQueue => run[n].queue = run[n].readFrom
        BY <2>7 DEF Execute, OneQueue
      <3> QED
        BY <1>r, <3>1, <3>2, <3>3 DEF OneQueue, queueScreen
    <2>8. CASE BatchAnswers(n)
      <3>1. LoadQueue(activeQueue) /\ activeQueue \in Queues /\ UNCHANGED activeQueue
        BY <2>8 DEF BatchAnswers, QueuesTypeOK
      <3>2. run' = [run EXCEPT ![n] = OverRun(run[n].denied)]
        BY <2>8 DEF BatchAnswers
      <3> QED
        BY <1>l, <1>r, <3>1, <3>2, OverRunHolds DEF OneQueue
    <2>9. CASE BatchFails(n)
      BY <1>r, <2>9, OverRunHolds DEF BatchFails, OneQueue, queueScreen
    <2> QED
      BY <2>1, <2>3, <2>4, <2>5, <2>6, <2>7, <2>8, <2>9 DEF RunStep
  <1>6. CASE \E q \in Queues, id \in Ids : DealtWithElsewhere(q, id)
    BY <1>6 DEF DealtWithElsewhere, OneQueue, queueScreen
  <1>7. CASE UNCHANGED queuesVars
    BY <1>7 DEF queuesVars, queueScreen, OneQueue
  <1> QED
    BY <1>1, <1>2, <1>3, <1>4, <1>5, <1>6, <1>7 DEF QueuesNext

LEMMA PatientUser ==
  ASSUME QueuesAssumption, Patient
  PROVE  QueuesSafe => []OneQueue
  <1>1. QueuesInit => QueuesTypeOK /\ OneQueue
    <2>1. ASSUME QueuesInit
          PROVE  OneQueue
      <3>1. FirstLoad("loanApproval") \in {<<"loanApproval", "offices">>, <<"loanApproval", "list">>}
        BY DEF FirstLoad
      <3> QED
        BY <2>1, <3>1 DEF QueuesInit, OneQueue, NoQueueLoads, Unrun
    <2> QED
      BY <2>1, QueuesTypeInit
  <1>2. QueuesTypeOK /\ OneQueue /\ [QueuesNext]_queuesVars => QueuesTypeOK' /\ OneQueue'
    BY QueuesTypeStep, OneQueueStep
  <1> QED
    BY <1>1, <1>2, PTL DEF QueuesSafe

(* While the user changes queue only at rest, every batch was built for the queue *)
(* its rows were read from: loads that are not cancelled, and confirmations that  *)
(* are awaited, have no other way to mix two queues.                              *)
THEOREM PatientBatchesAddress ==
  ASSUME QueuesAssumption, Patient
  PROVE  QueuesSafe => []BatchAddressesItsRows
  <1>1. OneQueue => BatchAddressesItsRows
    BY DEF OneQueue, BatchAddressesItsRows
  <1> QED
    BY <1>1, PatientUser, PTL

(* And the rows on screen are those of the active queue. *)
THEOREM PatientRowsAreOfTheQueue ==
  ASSUME QueuesAssumption, Patient
  PROVE  QueuesSafe => []RowsAreOfTheActiveQueue
  <1>1. OneQueue => RowsAreOfTheActiveQueue
    BY DEF OneQueue, RowsAreOfTheActiveQueue
  <1> QED
    BY <1>1, PatientUser, PTL
=============================================================================
