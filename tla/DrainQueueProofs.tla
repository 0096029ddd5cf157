-------------------------- MODULE DrainQueueProofs --------------------------
(* The queue moves its workers only as DrainWorker allows, so the theorems   *)
(* about workers hold of every worker the queue creates; and the queue       *)
(* forgets no live worker.                                                   *)
EXTENDS DrainQueue, DrainWorkerProofs

(* The table of workers is well formed initially.                           *)
LEMMA TableInit == QInit => TableOK
BY DrainAssumption DEF QInit, TableOK, Payloads, NoPayload

(* The number the next edit gets is a payload.                              *)
LEMMA NextEdit ==
  ASSUME NEW n \in Payloads, n < MaxVersion
  PROVE  n + 1 \in Versions
BY DrainAssumption DEF Payloads, Versions, NoPayload

(* Every step of the queue is a step of its workers or leaves them alone.    *)
LEMMA QueueStep == TableOK /\ [QNext]_qvars => TableOK' /\ [Next]_vars
<1> SUFFICES ASSUME TableOK, [QNext]_qvars
             PROVE  TableOK' /\ [Next]_vars
  OBVIOUS
<1>1. ASSUME NEW i \in Instances, Enqueue(i)
      PROVE  TableOK' /\ [Next]_vars
  <2>0. edits[i] + 1 \in Versions /\ edits' = [edits EXCEPT ![i] = edits[i] + 1] /\ UNCHANGED <<todo, disposed>>
    BY <1>1, NextEdit DEF Enqueue, TableOK, loopVars
  <2>1. edits' \in [Instances -> Payloads]
    BY <2>0 DEF TableOK, Payloads
  <2>2. CASE table[i] # None
    <3>1. HandleTrigger(table[i], edits[i] + 1) /\ table[i] \in Workers /\ UNCHANGED <<table, owner>>
      BY <1>1, <2>2 DEF Enqueue, TableOK, tableVars
    <3>2. Next
      BY <2>0, <3>1 DEF Next
    <3> QED
      BY <2>0, <2>1, <3>1, <3>2 DEF TableOK
  <2>3. CASE table[i] = None
    <3> DEFINE o == CHOOSE f \in Fresh : TRUE
    <3>1. /\ o \in Workers
          /\ HandleTrigger(o, edits[i] + 1)
          /\ table' = [table EXCEPT ![i] = o]
          /\ owner' = [owner EXCEPT ![o] = i]
      BY <1>1, <2>3 DEF Enqueue, Fresh
    <3> HIDE DEF o
    <3>2. Next
      BY <2>0, <3>1 DEF Next
    <3> QED
      BY <2>0, <2>1, <3>1, <3>2 DEF TableOK
  <2> QED
    BY <2>2, <2>3
<1>2. ASSUME NEW i \in Instances, Evict(i)
      PROVE  TableOK' /\ [Next]_vars
  <2>1. /\ table[i] \in Workers /\ Dispose(table[i])
        /\ table' = [table EXCEPT ![i] = None]
        /\ UNCHANGED <<owner, edits, todo, disposed>>
    BY <1>2 DEF Evict, TableOK, loopVars
  <2> QED
    BY <2>1 DEF TableOK, Next
<1>3. ASSUME NEW i \in Instances, NEW c \in Callers, FlushOne(i, c)
      PROVE  TableOK' /\ [Next]_vars
  <2>1. UNCHANGED <<table, owner, edits, todo, disposed>>
    BY <1>3 DEF FlushOne, tableVars, loopVars, historyVars
  <2>2. CASE table[i] = None
    BY <1>3, <2>1, <2>2 DEF FlushOne, TableOK
  <2>3. CASE table[i] # None
    <3>1. table[i] \in Workers /\ Flush(table[i], c)
      BY <1>3, <2>3 DEF FlushOne, TableOK
    <3> QED
      BY <2>1, <3>1 DEF TableOK, Next
  <2> QED
    BY <2>2, <2>3
<1>4. ASSUME NEW c \in Callers, FlushRefused(c) \/ FlushAll(c)
      PROVE  TableOK' /\ [Next]_vars
  <2>1. UNCHANGED <<table, owner, edits, disposed>> /\ UNCHANGED vars /\ todo' \subseteq Workers
    BY <1>4 DEF FlushRefused, FlushAll, tableVars, loopVars, historyVars, TableOK, Live
  <2> QED
    BY <2>1 DEF TableOK
<1>5. CASE FlushAllStep
  <2>1. PICK o \in todo : Flush(o, looping) /\ todo' = todo \ {o}
    BY <1>5 DEF FlushAllStep
  <2>2. o \in Workers /\ looping \in Callers /\ UNCHANGED <<table, owner, edits, disposed>>
    BY <1>5 DEF FlushAllStep, TableOK, tableVars, historyVars
  <2> QED
    BY <2>1, <2>2 DEF TableOK, Next
<1>6. CASE QueueDispose
  BY <1>6 DEF QueueDispose, TableOK, Live, historyVars
<1>7. CASE QueueDisposeStep
  <2>1. PICK o \in todo : Dispose(o) /\ todo' = todo \ {o}
    BY <1>7 DEF QueueDisposeStep
  <2>2. o \in Workers /\ UNCHANGED <<table, owner, edits, disposed>>
    BY <1>7 DEF QueueDisposeStep, TableOK, tableVars, historyVars
  <2> QED
    BY <2>1, <2>2 DEF TableOK, Next
<1>8. ASSUME NEW s \in saves, Lands(s)
      PROVE  TableOK' /\ [Next]_vars
  <2>1. SaveLands(s) /\ UNCHANGED <<table, owner, edits, todo, disposed>>
    BY <1>8 DEF Lands, tableVars, loopVars, historyVars
  <2> QED
    BY <2>1 DEF TableOK, Next
<1>9. ASSUME NEW o \in Workers, Returns(o) \/ Retries(o) \/ \E c \in Callers : GivesUp(o, c)
      PROVE  TableOK' /\ [Next]_vars
  <2>1. /\ SaveReturns(o) \/ RetryFires(o) \/ \E c \in Callers : BarrierGivesUp(o, c)
        /\ UNCHANGED <<table, owner, edits, todo, disposed>>
    BY <1>9 DEF Returns, Retries, GivesUp, tableVars, loopVars, historyVars
  <2> QED
    BY <2>1 DEF TableOK, Next
<1>10. CASE UNCHANGED qvars
  BY <1>10 DEF qvars, tableVars, loopVars, historyVars, TableOK
<1> QED
  BY <1>1, <1>2, <1>3, <1>4, <1>5, <1>6, <1>7, <1>8, <1>9, <1>10 DEF QNext

(* The table of workers is always well formed.                              *)
LEMMA TableInvariance == QSpec => []TableOK
BY TableInit, QueueStep, PTL DEF QSpec

(* The queue refines its workers: whatever sequence of enqueue, evict, flush *)
(* and dispose it is driven through, each worker sees a behaviour that       *)
(* DrainWorker allows.                                                       *)
LEMMA QueueRunsWorkers == QSpec => Spec
<1>1. QInit => Init
  BY DEF QInit
<1> QED
  BY <1>1, QueueStep, TableInvariance, PTL DEF QSpec, Spec

(* Hence, under the queue, no worker has two writes outstanding, a resolved  *)
(* flush of a worker is durable, and no barrier is orphaned.                 *)
THEOREM QueueWorkersSafe == QSpec => [](SingleFlight /\ FlushMeansDurable /\ NoOrphanBarrier)
BY QueueRunsWorkers, OneWriteAtATime, FlushIsDurable, BarrierNeverOrphaned, PTL

(* And the queue, whose table and loops stutter, implements the durable      *)
(* registers that its workers do.                                            *)
THEOREM QueueImplementsRegister == QSpec => RegisterSpec
BY QueueRunsWorkers, WorkerImplementsRegister, PTL

-----------------------------------------------------------------------------
(* No forgotten worker.                                                      *)

(* Apart from dispose, what a worker does neither begins nor ends its life,  *)
(* and touches no other worker.                                              *)
Lives(o) == /\ \A p \in Workers \ {o} : state'[p] = state[p]
            /\ state'[o] # "DISPOSED" <=> state[o] # "DISPOSED"

(* A trigger does not bring a disposed worker back.                         *)
LEMMA TriggerLives ==
  ASSUME IInv, NEW o \in Workers, NEW v, HandleTrigger(o, v)
  PROVE  Lives(o)
BY DEF HandleTrigger, StartCycle, Coalesce, CoalesceRetrying, Lives, IInv, TypeOK

(* The answer to a write does not bring a disposed worker back.             *)
LEMMA ReturnLives ==
  ASSUME IInv, NEW o \in Workers, SaveReturns(o)
  PROVE  Lives(o) /\ state[o] # "IDLE"
<1>1. PICK s \in saves : s.worker = o /\ (SaveIgnored(s) \/ SaveSucceeds(s) \/ SaveFails(s))
  BY DEF SaveReturns, SavesOf
<1>2. state[o] # "IDLE"
  BY <1>1 DEF IInv, SaveWhileWriting
<1>3. CASE SaveIgnored(s)
  BY <1>2, <1>3 DEF SaveIgnored, workerVars, Lives
<1>4. CASE SaveSucceeds(s)
  BY <1>1, <1>2, <1>4 DEF SaveSucceeds, Lives, IInv, TypeOK
<1>5. CASE SaveFails(s)
  BY <1>1, <1>2, <1>5 DEF SaveFails, Lives, IInv, TypeOK
<1> QED
  BY <1>1, <1>2, <1>3, <1>4, <1>5

(* A retry does not bring a disposed worker back.                           *)
LEMMA RetryLives ==
  ASSUME IInv, NEW o \in Workers, RetryFires(o)
  PROVE  Lives(o) /\ state[o] # "IDLE"
BY DEF RetryFires, Lives, IInv, TypeOK, RetryArmed

(* Disposing a worker leaves it disposed.                                   *)
LEMMA DisposeEnds ==
  ASSUME IInv, NEW o \in Workers, Dispose(o)
  PROVE  /\ \A p \in Workers \ {o} : state'[p] = state[p]
         /\ state'[o] = "DISPOSED"
BY DEF Dispose, IInv, TypeOK

(* The queue's invariant holds initially.                                   *)
LEMMA QInvInit == QInit => QInv
<1> SUFFICES ASSUME QInit PROVE QInv
  OBVIOUS
<1>1. TableOK
  BY TableInit
<1>2. OwnerOK /\ LoopOK /\ LifeOK
  BY DEF QInit, Init, OwnerOK, LoopOK, LifeOK
<1> QED
  BY <1>1, <1>2 DEF QInv

(* A step that leaves table, owner and loop alone and that is a step of one  *)
(* worker already constructed.                                               *)
LEMMA WorkerStepKeeps ==
  ASSUME QInv, NEW o \in Workers, Lives(o), owner[o] # None,
         UNCHANGED <<table, owner, todo, looping>>
  PROVE  OwnerOK' /\ LoopOK' /\ LifeOK'
<1>1. OwnerOK' /\ LoopOK'
  BY DEF QInv, OwnerOK, LoopOK
<1>2. LifeOK'
  BY DEF QInv, LifeOK, ToDispose, Lives
<1> QED
  BY <1>1, <1>2

(* Every step of the queue keeps the queue's invariant.                     *)
LEMMA QInvStep == IInv /\ QInv /\ TableOK' /\ [QNext]_qvars => QInv'
<1> SUFFICES ASSUME IInv, QInv, TableOK', [QNext]_qvars
             PROVE  OwnerOK' /\ LoopOK' /\ LifeOK'
  BY DEF QInv
<1> USE QueueAssumption
<1>1. ASSUME NEW i \in Instances, Enqueue(i)
      PROVE  OwnerOK' /\ LoopOK' /\ LifeOK'
  <2>0. todo = {} /\ UNCHANGED <<todo, looping>>
    BY <1>1 DEF Enqueue, Ready, loopVars
  <2>1. CASE table[i] # None
    <3>1. /\ table[i] \in Workers /\ HandleTrigger(table[i], edits[i] + 1)
          /\ UNCHANGED <<table, owner>> /\ owner[table[i]] # None
      BY <1>1, <2>1 DEF Enqueue, QInv, TableOK, OwnerOK, tableVars
    <3> QED
      BY <2>0, <3>1, TriggerLives, WorkerStepKeeps
  <2>2. CASE table[i] = None
    <3> DEFINE o == CHOOSE f \in Fresh : TRUE
    <3>1. /\ o \in Workers /\ owner[o] = None
          /\ HandleTrigger(o, edits[i] + 1)
          /\ table' = [table EXCEPT ![i] = o]
          /\ owner' = [owner EXCEPT ![o] = i]
      BY <1>1, <2>2 DEF Enqueue, Fresh
    <3> HIDE DEF o
    <3>2. Lives(o) /\ state[o] = "IDLE" /\ \A j \in Instances : table[j] # o
      BY <3>1, TriggerLives DEF QInv, LifeOK, OwnerOK
    <3>3. OwnerOK'
      BY <3>1, <3>2 DEF QInv, OwnerOK, TableOK
    <3>4. LoopOK'
      BY <2>0 DEF LoopOK
    <3>5. LifeOK'
      <4> SUFFICES ASSUME NEW p \in Workers
                   PROVE  /\ owner'[p] = None => state'[p] = "IDLE"
                          /\ owner'[p] # None => (state'[p] # "DISPOSED" <=> table'[owner'[p]] = p)
        BY <2>0 DEF LifeOK, ToDispose
      <4>1. CASE p = o
        BY <3>1, <3>2, <4>1 DEF QInv, TableOK, Lives
      <4>2. CASE p # o
        <5>1. owner'[p] = owner[p] /\ state'[p] = state[p]
          BY <3>1, <3>2, <4>2 DEF QInv, TableOK, Lives
        <5>2. owner[p] # None => (table'[owner[p]] = p <=> table[owner[p]] = p)
          BY <2>2, <3>1, <4>2 DEF QInv, TableOK
        <5> QED
          BY <2>0, <5>1, <5>2 DEF QInv, LifeOK, ToDispose
      <4> QED
        BY <4>1, <4>2
    <3> QED
      BY <3>3, <3>4, <3>5
  <2> QED
    BY <2>1, <2>2
<1>2. ASSUME NEW i \in Instances, Evict(i)
      PROVE  OwnerOK' /\ LoopOK' /\ LifeOK'
  <2> DEFINE o == table[i]
  <2>1. /\ o \in Workers /\ owner[o] = i /\ Dispose(o)
        /\ table' = [table EXCEPT ![i] = None]
        /\ UNCHANGED <<owner, todo, looping>>
        /\ todo = {}
    BY <1>2 DEF Evict, QInv, TableOK, OwnerOK, loopVars, Ready
  <2>2. state'[o] = "DISPOSED" /\ \A p \in Workers \ {o} : state'[p] = state[p]
    BY <2>1, DisposeEnds
  <2>3. OwnerOK' /\ LoopOK'
    BY <2>1 DEF QInv, TableOK, OwnerOK, LoopOK
  <2>4. LifeOK'
    <3> SUFFICES ASSUME NEW p \in Workers
                 PROVE  /\ owner[p] = None => state'[p] = "IDLE"
                        /\ owner[p] # None => (state'[p] # "DISPOSED" <=> table'[owner[p]] = p)
      BY <2>1 DEF LifeOK, ToDispose
    <3>1. CASE p = o
      BY <2>1, <2>2, <3>1 DEF QInv, TableOK
    <3>2. CASE p # o
      <4>1. owner[p] # None => (table'[owner[p]] = p <=> table[owner[p]] = p)
        BY <2>1, <3>2 DEF QInv, TableOK
      <4> QED
        BY <2>1, <2>2, <3>2, <4>1 DEF QInv, LifeOK, ToDispose
    <3> QED
      BY <3>1, <3>2
  <2> QED
    BY <2>3, <2>4
<1>3. ASSUME NEW i \in Instances, NEW c \in Callers, FlushOne(i, c)
      PROVE  OwnerOK' /\ LoopOK' /\ LifeOK'
  <2>1. UNCHANGED <<table, owner, todo, looping, state>>
    BY <1>3 DEF FlushOne, Flush, tableVars, loopVars, vars, workerVars
  <2> QED
    BY <2>1 DEF QInv, OwnerOK, LoopOK, LifeOK, ToDispose
<1>4. ASSUME NEW c \in Callers, FlushRefused(c)
      PROVE  OwnerOK' /\ LoopOK' /\ LifeOK'
  <2>1. UNCHANGED <<table, owner, todo, looping, state>>
    BY <1>4 DEF FlushRefused, tableVars, loopVars, vars, workerVars
  <2> QED
    BY <2>1 DEF QInv, OwnerOK, LoopOK, LifeOK, ToDispose
<1>5. ASSUME NEW c \in Callers, FlushAll(c)
      PROVE  OwnerOK' /\ LoopOK' /\ LifeOK'
  <2>1. /\ UNCHANGED <<table, owner, state>> /\ todo = {}
        /\ looping' = c /\ c # None /\ todo' = Live
    BY <1>5 DEF FlushAll, Ask, Ready, tableVars, vars, workerVars
  <2>2. \A o \in Live : owner[o] # None
    BY DEF Live, QInv, TableOK, OwnerOK
  <2> QED
    BY <2>1, <2>2 DEF QInv, OwnerOK, LoopOK, LifeOK, ToDispose
<1>6. CASE FlushAllStep
  <2>1. /\ looping # None /\ todo' \subseteq todo
        /\ UNCHANGED <<table, owner, looping, state>>
    BY <1>6 DEF FlushAllStep, Flush, tableVars
  <2> QED
    BY <2>1 DEF QInv, OwnerOK, LoopOK, LifeOK, ToDispose
<1>7. CASE QueueDispose
  <2>1. /\ UNCHANGED <<owner, state>> /\ todo = {}
        /\ looping' = None /\ todo' = Live
        /\ table' = [i \in Instances |-> None]
    BY <1>7 DEF QueueDispose, Ready, vars, workerVars
  <2>2. \A o \in Live : owner[o] \in Instances /\ table[owner[o]] = o
    BY DEF Live, QInv, TableOK, OwnerOK
  <2>3. OwnerOK' /\ LoopOK'
    BY <2>1, <2>2 DEF OwnerOK, LoopOK
  <2>4. LifeOK'
    <3>1. \A o \in Workers : owner[o] # None => (o \in Live <=> table[owner[o]] = o)
      BY <2>2 DEF Live, QInv, TableOK
    <3>2. \A o \in Workers : owner[o] # None => table'[owner[o]] # o
      BY <2>1 DEF QInv, TableOK
    <3> QED
      BY <2>1, <3>1, <3>2 DEF QInv, LifeOK, ToDispose
  <2> QED
    BY <2>3, <2>4
<1>8. CASE QueueDisposeStep
  <2>1. PICK o \in todo : Dispose(o) /\ todo' = todo \ {o}
    BY <1>8 DEF QueueDisposeStep
  <2>2. /\ o \in Workers /\ owner[o] # None /\ looping = None
        /\ UNCHANGED <<table, owner, looping>>
    BY <1>8 DEF QueueDisposeStep, QInv, TableOK, LoopOK, tableVars
  <2>3. state'[o] = "DISPOSED" /\ \A p \in Workers \ {o} : state'[p] = state[p]
    BY <2>1, <2>2, DisposeEnds
  <2>4. table[owner[o]] = None
    BY <2>1, <2>2 DEF QInv, LoopOK, TableOK
  <2>5. OwnerOK' /\ LoopOK'
    BY <2>1, <2>2 DEF QInv, OwnerOK, LoopOK
  <2>6. LifeOK'
    BY <2>1, <2>2, <2>3, <2>4 DEF QInv, LifeOK, ToDispose
  <2> QED
    BY <2>5, <2>6
<1>9. ASSUME NEW s \in saves, Lands(s)
      PROVE  OwnerOK' /\ LoopOK' /\ LifeOK'
  <2>1. UNCHANGED <<table, owner, todo, looping, state>>
    BY <1>9 DEF Lands, SaveLands, tableVars, loopVars, workerVars
  <2> QED
    BY <2>1 DEF QInv, OwnerOK, LoopOK, LifeOK, ToDispose
<1>10. ASSUME NEW o \in Workers, Returns(o) \/ Retries(o)
       PROVE  OwnerOK' /\ LoopOK' /\ LifeOK'
  <2>1. /\ SaveReturns(o) \/ RetryFires(o)
        /\ UNCHANGED <<table, owner, todo, looping>>
    BY <1>10 DEF Returns, Retries, tableVars, loopVars
  <2>2. Lives(o) /\ owner[o] # None
    BY <2>1, ReturnLives, RetryLives DEF QInv, LifeOK
  <2> QED
    BY <2>1, <2>2, WorkerStepKeeps
<1>11. ASSUME NEW o \in Workers, NEW c \in Callers, GivesUp(o, c)
       PROVE  OwnerOK' /\ LoopOK' /\ LifeOK'
  <2>1. UNCHANGED <<table, owner, todo, looping, state>>
    BY <1>11 DEF GivesUp, BarrierGivesUp, tableVars, loopVars
  <2> QED
    BY <2>1 DEF QInv, OwnerOK, LoopOK, LifeOK, ToDispose
<1>12. CASE UNCHANGED qvars
  <2>1. UNCHANGED <<table, owner, todo, looping, state>>
    BY <1>12 DEF qvars, tableVars, loopVars, vars, workerVars
  <2> QED
    BY <2>1 DEF QInv, OwnerOK, LoopOK, LifeOK, ToDispose
<1> QED
  BY <1>1, <1>2, <1>3, <1>4, <1>5, <1>6, <1>7, <1>8, <1>9, <1>10, <1>11, <1>12 DEF QNext

(* A worker that was created and is no longer in the table is disposed, and  *)
(* one in the table is not (SerializedDrainQueue.enqueue, evict, dispose).   *)
THEOREM NoWorkerForgotten == QSpec => []NoForgottenWorker
<1>1. QInv => NoForgottenWorker
  BY QueueAssumption DEF QInv, LifeOK, OwnerOK, TableOK, ToDispose, NoForgottenWorker, Ready, Live
<1>2. QSpec => []IInv
  BY QueueRunsWorkers, Invariance, PTL
<1>3. QSpec => []QInv
  BY <1>2, QInvInit, QInvStep, TableInvariance, PTL DEF QSpec
<1> QED
  BY <1>1, <1>3, PTL

-----------------------------------------------------------------------------
(* What a caller of flush may rely on.                                       *)

RestTyped ==
  /\ looping \in Callers \cup {None}
  /\ awaits  \in [Callers -> SUBSET Workers]
  /\ calls   \in [Callers -> Calls]
  /\ disk    \in [Instances -> Payloads]
  /\ wants   \in [Callers -> [Instances -> Payloads]]
  /\ evicted \subseteq Instances

Emptied == disposed => \A i \in Instances : table[i] = None

Unowned == \A o \in Workers : owner[o] = None => latest[o] = NoPayload /\ durable[o] = NoPayload

(* An instance that was never evicted has had one worker or none, whose      *)
(* writes are what the store holds of it.                                    *)
Served ==
  \A i \in Instances \ evicted :
    /\ \A o \in Workers : owner[o] = i =>
         /\ disk[i] = durable[o] /\ latest[o] = edits[i]
         /\ ~disposed => table[i] = o
         /\ \A p \in Workers : owner[p] = i => p = o
    /\ (\A o \in Workers : owner[o] # i) => edits[i] = NoPayload /\ disk[i] = NoPayload

(* What a caller wants of an instance is what it told the worker to flush,   *)
(* or will as soon as its loop reaches the worker.                           *)
AskedOf(c, i) ==
  /\ wants[c][i] <= edits[i]
  /\ calls[c] = "uncalled" => wants[c][i] = NoPayload
  /\ wants[c][i] # NoPayload =>
       \E o \in awaits[c] : /\ owner[o] = i
                            /\ goal[o][c] >= wants[c][i] \/ (looping = c /\ o \in todo)

Asked == \A c \in Callers : \A i \in Instances \ evicted : AskedOf(c, i)

ServedInv == RestTyped /\ Emptied /\ Unowned /\ Served /\ Asked

LEMMA FlushInit == QInit => ServedInv
<1> SUFFICES ASSUME QInit PROVE ServedInv
  OBVIOUS
<1>1. NoPayload \in Payloads /\ NoPayload <= NoPayload
  BY DrainAssumption DEF Payloads, NoPayload
<1> QED
  BY <1>1, QueueAssumption
     DEF QInit, Init, ServedInv, RestTyped, Emptied, Unowned, Served, Asked, AskedOf, Calls

(* Numbers of edits compare as natural numbers.                              *)
LEMMA Numbered ==
  ASSUME IInv, QInv, ServedInv
  PROVE  /\ \A o \in Workers : latest[o] \in Nat /\ durable[o] \in Nat
         /\ \A o \in Workers, c \in Callers : goal[o][c] \in Nat
         /\ \A i \in Instances : edits[i] \in Nat /\ disk[i] \in Nat
         /\ \A c \in Callers, i \in Instances : wants[c][i] \in Nat
<1>1. Payloads \subseteq Nat
  BY PayloadsAreNat
<1>2. /\ latest \in [Workers -> Payloads] /\ durable \in [Workers -> Payloads]
      /\ goal \in [Workers -> [Callers -> Payloads]]
  BY DEF IInv, TypeOK
<1>3. /\ edits \in [Instances -> Payloads] /\ disk \in [Instances -> Payloads]
      /\ wants \in [Callers -> [Instances -> Payloads]]
  BY DEF QInv, TableOK, ServedInv, RestTyped
<1> QED
  BY <1>1, <1>2, <1>3

(* A step that moves neither the table nor what was handed to and written by *)
(* the workers, nor what was asked.                                          *)
LEMMA FlushStill ==
  ASSUME ServedInv,
         UNCHANGED <<table, owner, disposed, todo, looping, awaits, calls, disk, edits, wants,
                     evicted, latest, goal, durable>>
  PROVE  ServedInv'
BY DEF ServedInv, RestTyped, Emptied, Unowned, Served, Asked, AskedOf

LEMMA EnqueueServes ==
  ASSUME IInv, QInv, ServedInv, NEW i \in Instances, Enqueue(i)
  PROVE  ServedInv'
<1>1. PICK o \in Workers :
        /\ HandleTrigger(o, edits[i] + 1)
        /\ \/ table[i] = o /\ UNCHANGED <<table, owner>>
           \/ /\ table[i] = None /\ owner[o] = None
              /\ table' = [table EXCEPT ![i] = o] /\ owner' = [owner EXCEPT ![o] = i]
  <2>1. CASE table[i] # None
    BY <2>1 DEF Enqueue, QInv, TableOK, tableVars
  <2>2. CASE table[i] = None
    <3> DEFINE o == CHOOSE f \in Fresh : TRUE
    <3>1. o \in Workers /\ owner[o] = None
      BY <2>2 DEF Enqueue, Fresh
    <3> HIDE DEF o
    <3> QED
      BY <2>2, <3>1 DEF Enqueue, o
  <2> QED
    BY <2>1, <2>2
<1>2. /\ latest' = [latest EXCEPT ![o] = edits[i] + 1] /\ UNCHANGED <<goal, durable>>
      /\ edits' = [edits EXCEPT ![i] = edits[i] + 1] /\ ~disposed /\ todo = {}
      /\ UNCHANGED <<disposed, todo, looping, awaits, calls, wants, disk, evicted>>
  BY <1>1 DEF HandleTrigger, Enqueue, Ready, loopVars, callVars
<1>3. /\ edits'[i] = edits[i] + 1 /\ \A j \in Instances \ {i} : edits'[j] = edits[j]
      /\ latest'[o] = edits[i] + 1 /\ \A p \in Workers \ {o} : latest'[p] = latest[p]
  BY <1>2 DEF IInv, TypeOK, QInv, TableOK
<1>4. owner'[o] = i /\ table'[i] = o
  BY <1>1, QueueAssumption DEF QInv, TableOK, OwnerOK
<1>5. /\ \A p \in Workers \ {o} : owner'[p] = owner[p]
      /\ \A j \in Instances \ {i} : table'[j] = table[j]
      /\ owner[o] \in {None, i}
  BY <1>1, QueueAssumption DEF QInv, TableOK, OwnerOK
<1>6. RestTyped' /\ Emptied'
  BY <1>2 DEF ServedInv, RestTyped, Emptied
<1>7. Unowned'
  BY <1>2, <1>3, <1>4, <1>5, QueueAssumption DEF ServedInv, Unowned
<1>8. Served'
  <2>1. ASSUME NEW j \in Instances \ evicted, j # i, NEW p \in Workers, owner'[p] = j
        PROVE  /\ p # o /\ owner[p] = j /\ disk[j] = durable[p] /\ latest[p] = edits[j]
               /\ table[j] = p /\ \A r \in Workers : owner'[r] = j => r = p
    <3>1. p # o /\ owner[p] = j
      BY <1>4, <1>5, <2>1
    <3> QED
      BY <1>2, <1>4, <1>5, <2>1, <3>1 DEF ServedInv, Served
  <2>2. ASSUME NEW j \in Instances \ evicted, j # i, \A p \in Workers : owner'[p] # j
        PROVE  edits[j] = NoPayload /\ disk[j] = NoPayload
    <3>1. \A p \in Workers : owner[p] # j
      BY <1>5, <2>2, QueueAssumption
    <3> QED
      BY <3>1 DEF ServedInv, Served
  <2>3. ASSUME i \notin evicted
        PROVE  /\ disk[i] = durable[o]
               /\ \A p \in Workers : owner'[p] = i => p = o
    <3>1. CASE owner[o] = i
      BY <1>5, <2>3, <3>1 DEF ServedInv, Served
    <3>2. CASE owner[o] = None
      <4>1. table[i] = None
        BY <1>1, <3>2, QueueAssumption DEF QInv, OwnerOK
      <4>2. \A p \in Workers : owner[p] # i
        BY <1>2, <2>3, <4>1, QueueAssumption DEF ServedInv, Served
      <4> QED
        BY <1>5, <2>3, <3>2, <4>2 DEF ServedInv, Served, Unowned
    <3> QED
      BY <1>5, <3>1, <3>2
  <2>4. SUFFICES ASSUME NEW j \in Instances \ evicted
                 PROVE  /\ \A p \in Workers : owner'[p] = j =>
                             /\ disk[j] = durable[p] /\ latest'[p] = edits'[j]
                             /\ table'[j] = p
                             /\ \A r \in Workers : owner'[r] = j => r = p
                        /\ (\A p \in Workers : owner'[p] # j) =>
                             edits'[j] = NoPayload /\ disk[j] = NoPayload
    BY <1>2 DEF Served
  <2>5. CASE j = i
    BY <1>3, <1>4, <2>3, <2>5
  <2>6. CASE j # i
    BY <1>3, <1>5, <2>1, <2>2, <2>6
  <2> QED
    BY <2>5, <2>6
<1>9. Asked'
  <2>1. SUFFICES ASSUME NEW c \in Callers, NEW j \in Instances \ evicted PROVE AskedOf(c, j)'
    BY <1>2 DEF Asked
  <2>2. AskedOf(c, j)
    BY DEF ServedInv, Asked
  <2>3. wants[c][j] \in Nat /\ edits[j] \in Nat
    BY Numbered
  <2>4. wants[c][j] <= edits'[j]
    BY <1>3, <2>2, <2>3 DEF AskedOf
  <2>5. \A p \in awaits[c] : owner[p] = j => owner'[p] = j
    BY <1>1, <1>5, QueueAssumption DEF ServedInv, RestTyped
  <2> QED
    BY <1>2, <2>2, <2>4, <2>5 DEF AskedOf
<1> QED
  BY <1>6, <1>7, <1>8, <1>9 DEF ServedInv

LEMMA EvictServes ==
  ASSUME IInv, QInv, ServedInv, NEW i \in Instances, Evict(i)
  PROVE  ServedInv'
<1>1. /\ table' = [table EXCEPT ![i] = None] /\ evicted' = evicted \cup {i} /\ ~disposed
      /\ UNCHANGED <<owner, disposed, todo, looping, awaits, calls, disk, edits, wants,
                     latest, goal, durable>>
  BY DEF Evict, Dispose, loopVars, callVars
<1>2. \A j \in Instances \ evicted' : j # i /\ j \notin evicted /\ table'[j] = table[j]
  BY <1>1 DEF QInv, TableOK
<1>3. RestTyped' /\ Emptied' /\ Unowned'
  BY <1>1 DEF ServedInv, RestTyped, Emptied, Unowned
<1>4. Served' /\ Asked'
  BY <1>1, <1>2 DEF ServedInv, Served, Asked, AskedOf
<1> QED
  BY <1>3, <1>4 DEF ServedInv

LEMMA FlushOneServes ==
  ASSUME IInv, QInv, ServedInv, NEW i \in Instances, NEW c \in Callers, FlushOne(i, c)
  PROVE  ServedInv'
<1>1. /\ ~disposed /\ todo = {} /\ calls[c] = "uncalled"
      /\ calls' = [calls EXCEPT ![c] = "one"]
      /\ awaits' = [awaits EXCEPT ![c] = {table[i]} \ {None}]
      /\ wants' = [wants EXCEPT ![c][i] = edits[i]]
      /\ UNCHANGED <<table, owner, disposed, todo, looping, disk, edits, evicted>>
  BY DEF FlushOne, Ask, Ready, tableVars, loopVars, historyVars
<1>2. UNCHANGED <<latest, durable>>
  BY DEF FlushOne, Flush, vars
<1>3. /\ table[i] # None => table[i] \in Workers /\ goal'[table[i]][c] = latest[table[i]]
      /\ \A o \in Workers, d \in Callers : d # c => goal'[o][d] = goal[o][d]
  BY DEF FlushOne, Flush, vars, IInv, TypeOK, QInv, TableOK
<1>4. /\ wants'[c][i] = edits[i] /\ \A j \in Instances \ {i} : wants'[c][j] = wants[c][j]
      /\ \A d \in Callers \ {c} : wants'[d] = wants[d] /\ awaits'[d] = awaits[d] /\ calls'[d] = calls[d]
      /\ awaits'[c] = {table[i]} \ {None} /\ calls'[c] = "one"
  BY <1>1 DEF ServedInv, RestTyped
<1>5. RestTyped' /\ Emptied' /\ Unowned' /\ Served'
  <2>1. wants' \in [Callers -> [Instances -> Payloads]] /\ awaits' \in [Callers -> SUBSET Workers]
    BY <1>1 DEF ServedInv, RestTyped, QInv, TableOK
  <2>2. calls' \in [Callers -> Calls]
    BY <1>1 DEF ServedInv, RestTyped, Calls
  <2>3. RestTyped'
    BY <1>1, <2>1, <2>2 DEF ServedInv, RestTyped
  <2> QED
    BY <1>1, <1>2, <2>3 DEF ServedInv, Emptied, Unowned, Served
<1>6. Asked'
  <2>1. SUFFICES ASSUME NEW d \in Callers, NEW j \in Instances \ evicted PROVE AskedOf(d, j)'
    BY <1>1 DEF Asked
  <2>5. AskedOf(d, j)
    BY DEF ServedInv, Asked
  <2>2. CASE d # c
    <3>1. awaits[d] \subseteq Workers
      BY DEF ServedInv, RestTyped
    <3> QED
      BY <1>1, <1>3, <1>4, <2>2, <2>5, <3>1 DEF AskedOf
  <2>3. CASE d = c /\ j # i
    <3>1. wants'[d][j] = NoPayload /\ calls'[d] = "one"
      BY <1>1, <1>4, <2>3, <2>5 DEF AskedOf
    <3>2. NoPayload <= edits[j]
      BY Numbered DEF NoPayload
    <3> QED
      BY <1>1, <3>1, <3>2 DEF AskedOf
  <2>4. CASE d = c /\ j = i
    <3>1. /\ wants'[d][j] = edits[i] /\ edits[i] \in Nat /\ calls'[d] = "one"
          /\ wants'[d][j] <= edits'[j]
      BY <1>1, <1>4, <2>4, Numbered
    <3>2. CASE table[i] = None
      <4>1. \A o \in Workers : owner[o] # i
        BY <1>1, <2>1, <2>4, <3>2, QueueAssumption DEF ServedInv, Served
      <4>2. edits[i] = NoPayload
        BY <2>1, <2>4, <4>1 DEF ServedInv, Served
      <4> QED
        BY <3>1, <4>2 DEF AskedOf
    <3>3. CASE table[i] # None
      <4>1. table[i] \in awaits'[c] /\ owner[table[i]] = i /\ latest[table[i]] = edits[i]
        BY <1>3, <1>4, <2>1, <2>4, <3>3 DEF QInv, OwnerOK, ServedInv, Served
      <4>2. goal'[table[i]][c] >= wants'[d][j]
        BY <1>3, <3>1, <3>3, <4>1
      <4>3. /\ table[i] \in awaits'[d] /\ owner'[table[i]] = j
            /\ goal'[table[i]][d] >= wants'[d][j]
        BY <1>1, <2>4, <4>1, <4>2
      <4>4. \E o \in awaits'[d] : owner'[o] = j /\ goal'[o][d] >= wants'[d][j]
        BY <4>3
      <4> QED
        BY <3>1, <4>4 DEF AskedOf
    <3> QED
      BY <3>2, <3>3
  <2> QED
    BY <2>2, <2>3, <2>4
<1> QED
  BY <1>5, <1>6 DEF ServedInv

LEMMA FlushRefusedServes ==
  ASSUME IInv, QInv, ServedInv, NEW c \in Callers, FlushRefused(c)
  PROVE  ServedInv'
<1>1. /\ todo = {} /\ calls[c] = "uncalled"
      /\ calls' = [calls EXCEPT ![c] = "refused"] /\ awaits' = [awaits EXCEPT ![c] = {}]
      /\ UNCHANGED <<table, owner, disposed, todo, looping, wants, disk, edits, evicted,
                     latest, goal, durable>>
  BY DEF FlushRefused, Ask, Ready, vars, tableVars, loopVars, historyVars
<1>2. RestTyped' /\ Emptied' /\ Unowned' /\ Served'
  BY <1>1 DEF ServedInv, RestTyped, Calls, Emptied, Unowned, Served
<1>3. /\ \A d \in Callers \ {c} : calls'[d] = calls[d] /\ awaits'[d] = awaits[d]
      /\ calls'[c] = "refused" /\ \A i \in Instances \ evicted : wants[c][i] = NoPayload
  BY <1>1 DEF ServedInv, RestTyped, Asked, AskedOf
<1>4. Asked'
  BY <1>1, <1>3 DEF ServedInv, Asked, AskedOf
<1> QED
  BY <1>2, <1>4 DEF ServedInv

LEMMA FlushAllServes ==
  ASSUME IInv, QInv, ServedInv, NEW c \in Callers, FlushAll(c)
  PROVE  ServedInv'
<1>1. /\ ~disposed /\ todo = {} /\ looping' = c /\ todo' = Live
      /\ calls' = [calls EXCEPT ![c] = "all"] /\ awaits' = [awaits EXCEPT ![c] = Live]
      /\ wants' = [wants EXCEPT ![c] = edits]
      /\ UNCHANGED <<table, owner, disposed, disk, edits, evicted, latest, goal, durable>>
  BY DEF FlushAll, Ask, Ready, vars, tableVars, historyVars
<1>2. Live \subseteq Workers
  BY DEF Live, QInv, TableOK
<1>3. RestTyped' /\ Emptied' /\ Unowned' /\ Served'
  <2>1. RestTyped'
    BY <1>1, <1>2 DEF ServedInv, RestTyped, Calls, QInv, TableOK
  <2> QED
    BY <1>1, <2>1 DEF ServedInv, Emptied, Unowned, Served
<1>4. /\ \A d \in Callers \ {c} : /\ calls'[d] = calls[d] /\ awaits'[d] = awaits[d]
                                  /\ wants'[d] = wants[d]
      /\ calls'[c] = "all" /\ awaits'[c] = Live /\ wants'[c] = edits
  BY <1>1 DEF ServedInv, RestTyped
<1>5. ASSUME NEW i \in Instances \ evicted, edits[i] # NoPayload
      PROVE  \E o \in Live : owner[o] = i
  <2>1. PICK o \in Workers : owner[o] = i
    BY <1>5 DEF ServedInv, Served
  <2>2. table[i] = o
    BY <1>1, <2>1 DEF ServedInv, Served
  <2> QED
    BY <2>1, <2>2, QueueAssumption DEF Live
<1>6. Asked'
  <2>1. SUFFICES ASSUME NEW d \in Callers, NEW i \in Instances \ evicted PROVE AskedOf(d, i)'
    BY <1>1 DEF Asked
  <2>2. AskedOf(d, i)
    BY DEF ServedInv, Asked
  <2>3. CASE d # c
    BY <1>1, <1>4, <2>2, <2>3 DEF AskedOf
  <2>4. CASE d = c
    <3>1. edits[i] \in Nat
      BY Numbered
    <3> QED
      BY <1>1, <1>4, <1>5, <2>1, <2>4, <3>1 DEF AskedOf
  <2> QED
    BY <2>3, <2>4
<1> QED
  BY <1>3, <1>6 DEF ServedInv

LEMMA FlushAllStepServes ==
  ASSUME IInv, QInv, ServedInv, FlushAllStep
  PROVE  ServedInv'
<1>1. PICK o \in todo : Flush(o, looping) /\ todo' = todo \ {o}
  BY DEF FlushAllStep
<1>2. /\ looping \in Callers /\ o \in Workers
      /\ UNCHANGED <<table, owner, disposed, looping, awaits, calls, wants, disk, edits, evicted>>
  BY DEF FlushAllStep, tableVars, callVars, historyVars, QInv, TableOK
<1>3. /\ goal' = [goal EXCEPT ![o][looping] = latest[o]] /\ UNCHANGED <<latest, durable>>
  BY <1>1 DEF Flush
<1>4. /\ goal'[o][looping] = latest[o]
      /\ \A p \in Workers, d \in Callers : p # o \/ d # looping => goal'[p][d] = goal[p][d]
  BY <1>2, <1>3 DEF IInv, TypeOK
<1>5. RestTyped' /\ Emptied' /\ Unowned' /\ Served'
  BY <1>2, <1>3 DEF ServedInv, RestTyped, Emptied, Unowned, Served
<1>6. Asked'
  <2>1. SUFFICES ASSUME NEW d \in Callers, NEW i \in Instances \ evicted PROVE AskedOf(d, i)'
    BY <1>2 DEF Asked
  <2>2. AskedOf(d, i)
    BY DEF ServedInv, Asked
  <2>3. SUFFICES ASSUME wants[d][i] # NoPayload
                 PROVE  \E p \in awaits[d] : /\ owner[p] = i
                                             /\ \/ goal'[p][d] >= wants[d][i]
                                                \/ (looping = d /\ p \in todo)'
    BY <1>2, <2>2 DEF AskedOf
  <2>4. PICK p \in awaits[d] : /\ owner[p] = i
                               /\ goal[p][d] >= wants[d][i] \/ (looping = d /\ p \in todo)
    BY <2>2, <2>3 DEF AskedOf
  <2>5. p \in Workers
    BY DEF ServedInv, RestTyped
  <2>6. CASE p = o /\ d = looping
    <3>1. latest[o] = edits[i] /\ wants[d][i] <= edits[i]
      BY <1>2, <2>1, <2>4, <2>6, <2>2 DEF ServedInv, Served, AskedOf
    <3>2. edits[i] \in Nat /\ wants[d][i] \in Nat
      BY Numbered
    <3>3. goal'[p][d] >= wants[d][i]
      BY <1>4, <2>6, <3>1, <3>2
    <3> QED
      BY <2>4, <3>3
  <2>7. CASE p # o \/ d # looping
    BY <1>1, <1>2, <1>4, <2>4, <2>5, <2>7
  <2> QED
    BY <2>6, <2>7
<1> QED
  BY <1>5, <1>6 DEF ServedInv

LEMMA QueueDisposeServes ==
  ASSUME IInv, QInv, ServedInv, QueueDispose
  PROVE  ServedInv'
<1>1. /\ ~disposed /\ disposed' = TRUE /\ todo = {} /\ looping' = None
      /\ table' = [i \in Instances |-> None]
      /\ UNCHANGED <<owner, awaits, calls, wants, disk, edits, evicted, latest, goal, durable>>
  BY DEF QueueDispose, Ready, vars, callVars, historyVars
<1> QED
  BY <1>1 DEF ServedInv, RestTyped, Emptied, Unowned, Served, Asked, AskedOf

LEMMA DisposeStepServes ==
  ASSUME IInv, QInv, ServedInv, QueueDisposeStep
  PROVE  ServedInv'
<1>1. /\ looping = None
      /\ UNCHANGED <<table, owner, disposed, looping, awaits, calls, wants, disk, edits, evicted,
                     latest, goal, durable>>
  BY DEF QueueDisposeStep, Dispose, tableVars, callVars, historyVars
<1>2. looping \notin Callers
  BY <1>1, QueueAssumption
<1>3. RestTyped' /\ Emptied' /\ Unowned' /\ Served'
  BY <1>1 DEF ServedInv, RestTyped, Emptied, Unowned, Served
<1>4. Asked'
  <2>1. SUFFICES ASSUME NEW c \in Callers, NEW i \in Instances \ evicted PROVE AskedOf(c, i)'
    BY <1>1 DEF Asked
  <2>2. AskedOf(c, i) /\ looping # c
    BY <1>2 DEF ServedInv, Asked
  <2> QED
    BY <1>1, <2>2 DEF AskedOf
<1> QED
  BY <1>3, <1>4 DEF ServedInv

(* A save that lands is of a worker that was given an instance.              *)
LEMMA LandsServes ==
  ASSUME IInv, QInv, ServedInv, NEW s \in saves, Lands(s)
  PROVE  /\ ServedInv'
         /\ \A i \in Instances : disk'[i] < disk[i] => i \in evicted
<1> DEFINE o == s.worker
           v == s.payload
<1>1. o \in Workers /\ v \in Payloads
  BY DEF IInv, TypeOK, Saves, Payloads
<1>2. /\ disk' = [disk EXCEPT ![owner[o]] = v] /\ durable' = [durable EXCEPT ![o] = v]
      /\ UNCHANGED <<table, owner, disposed, todo, looping, awaits, calls, wants, edits, evicted,
                     latest, goal>>
  BY DEF Lands, SaveLands, tableVars, loopVars, callVars, historyVars
<1>3. owner[o] \in Instances
  BY <1>1 DEF IInv, SaveWhileWriting, QInv, LifeOK, TableOK
<1>4. durable[o] <= v /\ durable[o] \in Nat /\ v \in Nat
  BY <1>1, Numbered, PayloadsAreNat DEF IInv, SaveInOrder
<1> HIDE DEF o, v
<1>5. /\ disk'[owner[o]] = v /\ \A i \in Instances \ {owner[o]} : disk'[i] = disk[i]
      /\ durable'[o] = v /\ \A p \in Workers \ {o} : durable'[p] = durable[p]
  BY <1>1, <1>2, <1>3 DEF ServedInv, RestTyped, IInv, TypeOK
<1>6. RestTyped' /\ Emptied' /\ Unowned' /\ Asked'
  <2>1. disk' \in [Instances -> Payloads]
    BY <1>1, <1>2 DEF ServedInv, RestTyped
  <2> QED
    BY <1>2, <1>3, <1>5, <2>1, QueueAssumption DEF ServedInv, RestTyped, Emptied, Unowned, Asked, AskedOf
<1>7. Served'
  <2>1. SUFFICES ASSUME NEW i \in Instances \ evicted
                 PROVE  /\ \A p \in Workers : owner[p] = i => disk'[i] = durable'[p]
                        /\ (\A p \in Workers : owner[p] # i) => disk'[i] = NoPayload
    BY <1>2 DEF ServedInv, Served
  <2>2. CASE i = owner[o]
    <3>1. \A p \in Workers : owner[p] = i => p = o
      BY <1>1, <2>1, <2>2 DEF ServedInv, Served
    <3> QED
      BY <1>1, <1>5, <2>2, <3>1
  <2>3. CASE i # owner[o]
    BY <1>5, <2>1, <2>3 DEF ServedInv, Served
  <2> QED
    BY <2>2, <2>3
<1>8. ASSUME NEW i \in Instances, disk'[i] < disk[i] PROVE i \in evicted
  <2>1. disk[i] \in Nat
    BY Numbered
  <2>2. i = owner[o] /\ v < disk[i]
    BY <1>5, <1>8, <2>1
  <2>3. i \notin evicted => disk[i] = durable[o]
    BY <1>1, <2>2 DEF ServedInv, Served
  <2> QED
    BY <1>4, <2>1, <2>2, <2>3
<1> QED
  BY <1>6, <1>7, <1>8 DEF ServedInv

(* The store goes back only in a step after the eviction.                    *)
Forward == \A i \in Instances : disk'[i] < disk[i] => i \in evicted

LEMMA FlushStep == IInv /\ QInv /\ ServedInv /\ [QNext]_qvars => ServedInv' /\ Forward
<1> SUFFICES ASSUME IInv, QInv, ServedInv, [QNext]_qvars
             PROVE  ServedInv' /\ Forward
  OBVIOUS
<1>0. UNCHANGED disk => Forward
  BY Numbered DEF Forward
<1>1. ASSUME NEW i \in Instances, Enqueue(i) \/ Evict(i)
      PROVE  ServedInv' /\ Forward
  BY <1>0, <1>1, EnqueueServes, EvictServes DEF Enqueue, Evict
<1>2. ASSUME NEW c \in Callers, NEW i \in Instances, FlushOne(i, c)
      PROVE  ServedInv' /\ Forward
  BY <1>0, <1>2, FlushOneServes DEF FlushOne
<1>3. ASSUME NEW c \in Callers, FlushRefused(c) \/ FlushAll(c)
      PROVE  ServedInv' /\ Forward
  BY <1>0, <1>3, FlushRefusedServes, FlushAllServes DEF FlushRefused, FlushAll
<1>4. CASE FlushAllStep \/ QueueDispose \/ QueueDisposeStep
  BY <1>0, <1>4, FlushAllStepServes, QueueDisposeServes, DisposeStepServes
     DEF FlushAllStep, QueueDispose, QueueDisposeStep
<1>5. ASSUME NEW s \in saves, Lands(s)
      PROVE  ServedInv' /\ Forward
  BY <1>5, LandsServes DEF Forward
<1>6. ASSUME NEW o \in Workers, Returns(o) \/ Retries(o) \/ \E c \in Callers : GivesUp(o, c)
      PROVE  ServedInv' /\ Forward
  <2>1. /\ SaveReturns(o) \/ RetryFires(o) \/ \E c \in Callers : BarrierGivesUp(o, c)
        /\ UNCHANGED <<table, owner, disposed, todo, looping, awaits, calls, disk, edits, wants,
                       evicted>>
    BY <1>6 DEF Returns, Retries, GivesUp, tableVars, loopVars, callVars, historyVars
  <2>2. UNCHANGED <<latest, goal, durable>>
    BY <2>1 DEF SaveReturns, SaveIgnored, SaveSucceeds, SaveFails, RetryFires, BarrierGivesUp
  <2> QED
    BY <1>0, <2>1, <2>2, FlushStill
<1>7. CASE UNCHANGED qvars
  BY <1>0, <1>7, FlushStill
     DEF qvars, vars, tableVars, loopVars, callVars, historyVars
<1> QED
  BY <1>1, <1>2, <1>3, <1>4, <1>5, <1>6, <1>7 DEF QNext

LEMMA WorkersAlways == QSpec => []IInv
BY QueueRunsWorkers, Invariance, PTL

LEMMA QueueAlways == QSpec => []QInv
BY WorkersAlways, QInvInit, QInvStep, TableInvariance, PTL DEF QSpec

LEMMA FlushAlways == QSpec => []ServedInv
BY WorkersAlways, QueueAlways, FlushInit, FlushStep, PTL DEF QSpec

(* Everything the queue keeps is of its type.                                *)
THEOREM QueueTypeCorrect == QSpec => []QTypeOK
<1>1. IInv /\ QInv /\ ServedInv => QTypeOK
  BY DEF IInv, QInv, TableOK, ServedInv, RestTyped, QTypeOK
<1> QED
  BY <1>1, WorkersAlways, QueueAlways, FlushAlways, PTL

(* A flush of one or all instances that resolved put in the store all that   *)
(* was enqueued before it was called, unless the instance was evicted.       *)
THEOREM QueueFlushIsDurable == QSpec => []QueueFlushMeansDurable
<1>1. IInv /\ QInv /\ ServedInv => QueueFlushMeansDurable
  <2> SUFFICES ASSUME IInv, QInv, ServedInv,
                      NEW c \in Callers, Resolved(c), NEW i \in Instances \ evicted
               PROVE  disk[i] >= wants[c][i]
    BY DEF QueueFlushMeansDurable
  <2>1. wants[c][i] \in Nat /\ disk[i] \in Nat
    BY Numbered
  <2>2. CASE wants[c][i] = NoPayload
    BY <2>1, <2>2 DEF NoPayload
  <2>3. CASE wants[c][i] # NoPayload
    <3>1. PICK o \in awaits[c] : owner[o] = i /\ goal[o][c] >= wants[c][i]
      BY <2>3 DEF ServedInv, Asked, AskedOf, Resolved, Ready
    <3>2. o \in Workers /\ promise[o][c] = "resolved"
      BY DEF ServedInv, RestTyped, Resolved
    <3>3. durable[o] >= goal[o][c] /\ disk[i] = durable[o]
      BY <3>1, <3>2 DEF IInv, FlushMeansDurable, ServedInv, Served
    <3>4. durable[o] \in Nat /\ goal[o][c] \in Nat
      BY <3>2, Numbered
    <3> QED
      BY <2>1, <3>1, <3>3, <3>4
  <2> QED
    BY <2>2, <2>3
<1> QED
  BY <1>1, WorkersAlways, QueueAlways, FlushAlways, PTL

(* Once the server was disposed, no caller waits for a worker.               *)
THEOREM NobodyWaitsAfterDispose == QSpec => []DisposeLeavesNobodyWaiting
<1>1. IInv /\ QInv /\ ServedInv => DisposeLeavesNobodyWaiting
  <2> SUFFICES ASSUME IInv, QInv, ServedInv, Ready, disposed,
                      NEW o \in Workers, NEW c \in Callers, promise[o][c] = "waiting"
               PROVE  FALSE
    BY DEF DisposeLeavesNobodyWaiting
  <2>1. state[o] \in {"DRAINING", "COALESCING", "RETRYING"}
    BY DEF IInv, RegistryExact
  <2>2. owner[o] \in Instances /\ table[owner[o]] = o
    BY <2>1 DEF QInv, LifeOK, TableOK, ToDispose, Ready
  <2> QED
    BY <2>2, QueueAssumption DEF ServedInv, Emptied
<1> QED
  BY <1>1, WorkersAlways, QueueAlways, FlushAlways, PTL

(* The store goes back to older content of an instance only after it was     *)
(* evicted.                                                                  *)
THEOREM StoreGoesForward == QSpec => BackwardsOnlyAfterEvict
<1>1. BackwardsOnlyAfterEvict <=> [][Forward]_qvars
  BY DEF BackwardsOnlyAfterEvict, Forward
<1>2. IInv /\ QInv /\ ServedInv /\ [QNext]_qvars => [Forward]_qvars
  BY FlushStep
<1> QED
  BY <1>1, <1>2, WorkersAlways, QueueAlways, FlushAlways, PTL DEF QSpec

-----------------------------------------------------------------------------
(* Requests start only from workers in the table.                            *)

(* A worker that starts a request is alive, and writing.                     *)
LEMMA RequesterDrains ==
  ASSUME IInv, [Next]_vars, NEW s \in saves', Requested(s)
  PROVE  s.worker \in Workers /\ state'[s.worker] = "DRAINING"
<1>0. state \in [Workers -> WorkerStates] /\ s \notin saves /\ ~s.landed
  BY DEF IInv, TypeOK, Requested
<1>n. \A o, v, others : NewSave(o, v, others).worker = o
  BY DEF NewSave
<1>1. ASSUME NEW o \in Workers, NEW v \in Versions, HandleTrigger(o, v)
      PROVE  s.worker = o /\ state' = [state EXCEPT ![o] = "DRAINING"]
  <2>1. StartCycle(o, v)
    BY <1>0, <1>1 DEF HandleTrigger, Coalesce, CoalesceRetrying
  <2> QED
    BY <1>0, <1>n, <2>1 DEF StartCycle, DispatchWrite
<1>2. ASSUME NEW o \in Workers, SaveReturns(o)
      PROVE  s.worker = o /\ state' = [state EXCEPT ![o] = "DRAINING"]
  <2>1. PICK t \in saves : t.worker = o /\ (SaveIgnored(t) \/ SaveSucceeds(t) \/ SaveFails(t))
    BY <1>2 DEF SaveReturns, SavesOf
  <2>2. SaveSucceeds(t) /\ dirty[o]
    BY <1>0, <2>1 DEF SaveIgnored, SaveSucceeds, SaveFails
  <2> QED
    BY <1>0, <1>n, <2>1, <2>2 DEF SaveSucceeds, DispatchWrite
<1>3. ASSUME NEW o \in Workers, RetryFires(o)
      PROVE  s.worker = o /\ state' = [state EXCEPT ![o] = "DRAINING"]
  BY <1>0, <1>n, <1>3 DEF RetryFires, DispatchWrite
<1>4. ASSUME NEW o \in Workers, NEW c \in Callers, Flush(o, c) \/ BarrierGivesUp(o, c)
      PROVE  FALSE
  BY <1>0, <1>4 DEF Flush, BarrierGivesUp
<1>5. ASSUME NEW o \in Workers, Dispose(o)
      PROVE  FALSE
  BY <1>0, <1>5 DEF Dispose
<1>6. ASSUME NEW t \in saves, SaveLands(t)
      PROVE  FALSE
  <2>1. t \in Saves /\ s = [t EXCEPT !.landed = TRUE]
    BY <1>0, <1>6 DEF SaveLands, IInv, TypeOK
  <2> QED
    BY <1>0, <2>1 DEF Saves
<1>7. ~UNCHANGED vars
  BY <1>0 DEF vars
<1> QED
  BY <1>0, <1>1, <1>2, <1>3, <1>4, <1>5, <1>6, <1>7 DEF Next

(* The loops of a global flush and of dispose start no request.             *)
LEMMA LoopsRequestNothing ==
  ASSUME [QNext]_qvars, todo' # {}
  PROVE  saves' = saves
<1>1. ASSUME NEW c \in Callers, FlushAll(c)
      PROVE  saves' = saves
  BY <1>1 DEF FlushAll, vars
<1>2. CASE FlushAllStep \/ QueueDisposeStep
  BY <1>2 DEF FlushAllStep, QueueDisposeStep, Flush, Dispose
<1>3. CASE QueueDispose
  BY <1>3 DEF QueueDispose, vars
<1>4. CASE UNCHANGED qvars
  BY <1>4 DEF qvars, vars
<1>5. ASSUME NEW i \in Instances, Enqueue(i) \/ Evict(i)
      PROVE  FALSE
  BY <1>5 DEF Enqueue, Evict, Ready, loopVars
<1>6. ASSUME NEW c \in Callers, FlushRefused(c) \/ \E i \in Instances : FlushOne(i, c)
      PROVE  FALSE
  BY <1>6 DEF FlushRefused, FlushOne, Ask, Ready, loopVars
<1>7. ASSUME NEW s \in saves, Lands(s)
      PROVE  FALSE
  BY <1>7 DEF Lands, Ready, loopVars
<1>8. ASSUME NEW o \in Workers, Returns(o) \/ Retries(o) \/ \E c \in Callers : GivesUp(o, c)
      PROVE  FALSE
  BY <1>8 DEF Returns, Retries, GivesUp, Ready, loopVars
<1> QED
  BY <1>1, <1>2, <1>3, <1>4, <1>5, <1>6, <1>7, <1>8 DEF QNext

(* A request for an instance starts only from the worker the table holds     *)
(* for it, so a deleted instance is written by nothing but the request that  *)
(* was outstanding when it was evicted.                                      *)
THEOREM DeletionStopsWrites == QSpec => OnlyRegisteredWrite
<1> DEFINE Registered ==
      \A s \in saves' : Requested(s) =>
        owner'[s.worker] # None /\ table'[owner'[s.worker]] = s.worker
<1>1. IInv /\ TableOK /\ QInv' /\ [QNext]_qvars => [Registered]_qvars
  <2> SUFFICES ASSUME IInv, TableOK, QInv', [QNext]_qvars, NEW s \in saves', Requested(s)
               PROVE  owner'[s.worker] # None /\ table'[owner'[s.worker]] = s.worker
    OBVIOUS
  <2>1. s.worker \in Workers /\ state'[s.worker] = "DRAINING"
    BY QueueStep, RequesterDrains
  <2>2. todo' = {}
    BY LoopsRequestNothing DEF Requested
  <2> QED
    BY <2>1, <2>2 DEF QInv, LifeOK, ToDispose
<1>2. OnlyRegisteredWrite <=> [][Registered]_qvars
  BY DEF OnlyRegisteredWrite
<1> HIDE DEF Registered
<1> QED
  BY <1>1, <1>2, WorkersAlways, QueueAlways, TableInvariance, PTL DEF QSpec
=============================================================================
