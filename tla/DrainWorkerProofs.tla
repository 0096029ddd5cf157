------------------------ MODULE DrainWorkerProofs ------------------------
(* Safety of the drain worker for any number of workers, callers, edits     *)
(* and retries: the inductive invariant IInv, and what follows from it.     *)
EXTENDS DrainWorker, TLAPS

(* A cycle id that no outstanding save of the worker carries exists as soon *)
(* as the worker has no save outstanding.                                   *)
LEMMA FreshCycleType ==
  ASSUME NEW o, NEW others, \A s \in others : s.worker # o
  PROVE  FreshCycle(o, others) \in Cycles
BY DrainAssumption DEF FreshCycle

(* What dispatchWrite adds when the worker has no save outstanding.         *)
LEMMA NewSaveType ==
  ASSUME NEW o \in Workers, NEW v \in Versions, NEW others \in SUBSET Saves,
         \A s \in others : s.worker # o
  PROVE  /\ NewSave(o, v, others) \in Saves
         /\ NewSave(o, v, others).worker = o
         /\ NewSave(o, v, others).payload = v
         /\ NewSave(o, v, others).landed = FALSE
BY FreshCycleType DEF NewSave, Saves

(* A worker just constructed satisfies the invariant.                       *)
LEMMA InitInv == Init => IInv
<1> SUFFICES ASSUME Init PROVE IInv
  OBVIOUS
<1>1. TypeOK
  BY DrainAssumption DEF Init, TypeOK, WorkerStates, Payloads, NoPayload, Versions, Timers, Promises
<1>2. /\ SingleFlight /\ SaveWhileWriting /\ SaveInOrder /\ DirtyFlag /\ RetryArmed
      /\ Bounds /\ PendingPresent /\ IdleMeansDurable
  BY DEF Init, SingleFlight, SaveWhileWriting, SaveInOrder, DirtyFlag, RetryArmed, Bounds,
         PendingPresent, IdleMeansDurable, Writing, NoPayload
<1>3. RegistryExact /\ FlushMeansDurable
  BY DEF Init, RegistryExact, FlushMeansDurable
<1> QED
  BY <1>1, <1>2, <1>3 DEF IInv

-----------------------------------------------------------------------------
(* One lemma per action.                                                    *)

(* An edit handed to the worker keeps the invariant.                        *)
LEMMA HandleTriggerInv ==
  ASSUME IInv, NEW o \in Workers, NEW v \in Versions, HandleTrigger(o, v)
  PROVE  IInv'
<1> USE DEF IInv, NoPayload, Versions, Payloads
<1>0. /\ TypeOK /\ MaxVersion \in Nat /\ MaxRetries \in Nat
      /\ v > latest[o]
      /\ latest' = [latest EXCEPT ![o] = v]
      /\ pending' = [pending EXCEPT ![o] = v]
      /\ UNCHANGED <<timer, registry, promise, goal, durable>>
  BY DrainAssumption DEF HandleTrigger
<1>b. Bounds'
  <2>1. \A p \in Workers : latest[p] <= latest'[p] /\ latest[p] \in Nat /\ latest'[p] \in Nat
    BY <1>0 DEF TypeOK
  <2>2. \A p \in Workers : durable[p] \in Nat /\ durable[p] <= latest[p]
    BY <1>0 DEF TypeOK, Bounds
  <2>3. \A p \in Workers, c \in Callers : goal[p][c] \in Nat /\ goal[p][c] <= latest[p]
    BY <1>0 DEF TypeOK, Bounds
  <2>4. \A p \in Workers : durable'[p] <= latest'[p]
    BY <1>0, <2>1, <2>2
  <2>5. \A p \in Workers, c \in Callers : goal'[p][c] <= latest'[p]
    BY <1>0, <2>1, <2>3
  <2> QED
    BY <2>4, <2>5 DEF Bounds
<1>1. CASE StartCycle(o, v)
  <2>0. \A s \in saves : s.worker # o
    BY <1>1 DEF StartCycle, SaveWhileWriting
  <2> DEFINE n == NewSave(o, v, saves)
  <2>1. /\ n \in Saves /\ n.worker = o /\ n.payload = v /\ n.landed = FALSE
        /\ saves' = saves \cup {n}
    <3>1. saves \in SUBSET Saves
      BY <1>0 DEF TypeOK
    <3>2. saves' = saves \cup {n}
      BY <1>1 DEF StartCycle, DispatchWrite
    <3>3. /\ n \in Saves /\ n.worker = o /\ n.payload = v /\ n.landed = FALSE
      BY <2>0, <3>1, NewSaveType
    <3> QED
      BY <3>2, <3>3
  <2> HIDE DEF n
  <2>2. TypeOK'
    BY <1>0, <1>1, <2>1 DEF TypeOK, StartCycle, WorkerStates
  <2>3. SingleFlight' /\ SaveWhileWriting'
    BY <1>0, <1>1, <2>0, <2>1 DEF TypeOK, StartCycle, SingleFlight, SaveWhileWriting, Writing
  <2>4. SaveInOrder'
    <3> SUFFICES ASSUME NEW s \in saves'
                 PROVE  /\ durable[s.worker] <= s.payload /\ s.payload <= latest'[s.worker]
                        /\ s.landed => durable[s.worker] = s.payload
                        /\ Writing(s.worker)' /\ ~dirty'[s.worker] => s.payload = latest'[s.worker]
      BY <1>0 DEF SaveInOrder
    <3>1. CASE s = n
      BY <1>0, <1>b, <2>1, <3>1 DEF TypeOK, Bounds
    <3>2. CASE s \in saves
      <4>1. s.worker # o /\ s.worker \in Workers
        BY <2>0, <3>2 DEF TypeOK, Saves
      <4> QED
        BY <1>0, <1>1, <3>2, <4>1 DEF TypeOK, StartCycle, SaveInOrder, Writing
    <3> QED
      BY <2>1, <3>1, <3>2
  <2>5. DirtyFlag' /\ RetryArmed' /\ PendingPresent'
    BY <1>0, <1>1 DEF TypeOK, StartCycle, DirtyFlag, RetryArmed, PendingPresent
  <2>6. RegistryExact' /\ FlushMeansDurable' /\ IdleMeansDurable'
    BY <1>0, <1>1 DEF TypeOK, StartCycle, RegistryExact, FlushMeansDurable, IdleMeansDurable
  <2> QED
    BY <1>b, <2>2, <2>3, <2>4, <2>5, <2>6
<1>2. CASE Coalesce(o) \/ CoalesceRetrying(o)
  <2>1. TypeOK'
    BY <1>0, <1>2 DEF TypeOK, Coalesce, CoalesceRetrying, WorkerStates
  <2>2. SingleFlight' /\ SaveWhileWriting'
    BY <1>0, <1>2 DEF TypeOK, Coalesce, CoalesceRetrying, SingleFlight, SaveWhileWriting, Writing
  <2>3. SaveInOrder'
    <3> SUFFICES ASSUME NEW s \in saves
                 PROVE  /\ durable[s.worker] <= s.payload /\ s.payload <= latest'[s.worker]
                        /\ s.landed => durable[s.worker] = s.payload
                        /\ Writing(s.worker)' /\ ~dirty'[s.worker] => s.payload = latest'[s.worker]
      BY <1>0, <1>2 DEF SaveInOrder, Coalesce, CoalesceRetrying
    <3>1. s.worker \in Workers /\ s.payload \in Versions
      BY DEF TypeOK, Saves
    <3>2. CASE s.worker = o
      <4>1. durable[o] <= s.payload /\ s.payload <= latest[o] /\ (s.landed => durable[o] = s.payload)
        BY <3>2 DEF SaveInOrder
      <4>2. latest'[o] = v /\ v > latest[o] /\ latest[o] \in Nat /\ dirty'[o]
        BY <1>0, <1>2 DEF TypeOK, Coalesce, CoalesceRetrying
      <4> QED
        BY <1>0, <3>1, <3>2, <4>1, <4>2
    <3>3. CASE s.worker # o
      BY <1>0, <1>2, <3>1, <3>3 DEF TypeOK, Coalesce, CoalesceRetrying, SaveInOrder, Writing
    <3> QED
      BY <3>2, <3>3
  <2>4. DirtyFlag' /\ RetryArmed'
    BY <1>0, <1>2 DEF TypeOK, Coalesce, CoalesceRetrying, DirtyFlag, RetryArmed
  <2>8. PendingPresent'
    BY <1>0, <1>2 DEF TypeOK, Coalesce, CoalesceRetrying, PendingPresent
  <2>5. FlushMeansDurable'
    BY <1>0 DEF FlushMeansDurable
  <2>7. RegistryExact'
    BY <1>0, <1>2 DEF TypeOK, Coalesce, CoalesceRetrying, RegistryExact
  <2>6. IdleMeansDurable'
    BY <1>0, <1>2 DEF TypeOK, Coalesce, CoalesceRetrying, IdleMeansDurable
  <2> QED
    BY <1>b, <2>6, <2>7, <2>8, <2>1, <2>2, <2>3, <2>4, <2>5
<1> QED
  BY <1>1, <1>2 DEF HandleTrigger

(* A call of flush keeps the invariant.                                     *)
LEMMA FlushInv ==
  ASSUME IInv, NEW o \in Workers, NEW c \in Callers, Flush(o, c)
  PROVE  IInv'
<1> USE DEF IInv, NoPayload, Versions, Payloads
<1>0. /\ TypeOK /\ MaxVersion \in Nat
      /\ goal' = [goal EXCEPT ![o][c] = latest[o]]
      /\ UNCHANGED <<state, dirty, pending, retries, timer, saves, latest, durable>>
  BY DrainAssumption DEF Flush
<1>1. PICK outcome \in FlushOutcome(o) :
        /\ promise[o][c] = "uncalled"
        /\ promise'  = [promise EXCEPT ![o][c] = outcome]
        /\ registry' = [registry EXCEPT ![o] = IF outcome = "waiting" THEN @ \cup {c} ELSE @]
  BY DEF Flush
<1>2. /\ outcome \in Promises
      /\ outcome = "waiting" => state[o] \in {"DRAINING", "COALESCING", "RETRYING"}
      /\ outcome = "resolved" => state[o] = "IDLE"
  BY <1>1 DEF FlushOutcome, Promises, Rejections, TypeOK, WorkerStates, DirtyFlag
<1>3. TypeOK'
  BY <1>0, <1>1, <1>2 DEF TypeOK
<1>4. /\ SingleFlight' /\ SaveWhileWriting' /\ SaveInOrder' /\ DirtyFlag' /\ RetryArmed'
      /\ PendingPresent' /\ IdleMeansDurable'
  BY <1>0 DEF SingleFlight, SaveWhileWriting, SaveInOrder, DirtyFlag, RetryArmed, PendingPresent,
              IdleMeansDurable, Writing
<1>5. Bounds'
  <2>1. \A p \in Workers, d \in Callers :
          goal'[p][d] = IF p = o /\ d = c THEN latest[p] ELSE goal[p][d]
    BY <1>0 DEF TypeOK
  <2>2. \A p \in Workers : latest[p] \in Nat
    BY <1>0 DEF TypeOK
  <2> QED
    BY <1>0, <2>1, <2>2 DEF Bounds
<1>6. RegistryExact'
  BY <1>0, <1>1, <1>2 DEF TypeOK, RegistryExact
<1>7. FlushMeansDurable'
  BY <1>0, <1>1, <1>2 DEF TypeOK, FlushMeansDurable, IdleMeansDurable
<1> QED
  BY <1>3, <1>4, <1>5, <1>6, <1>7

(* A barrier that times out or is aborted keeps the invariant.              *)
LEMMA BarrierGivesUpInv ==
  ASSUME IInv, NEW o \in Workers, NEW c \in Callers, BarrierGivesUp(o, c)
  PROVE  IInv'
<1> USE DEF IInv
<1>0. /\ TypeOK
      /\ registry' = [registry EXCEPT ![o] = @ \ {c}]
      /\ UNCHANGED <<state, dirty, pending, retries, timer, saves, latest, goal, durable>>
  BY DEF BarrierGivesUp
<1>1. PICK outcome \in {"ABORTED", "BARRIER_TIMEOUT"} : promise' = [promise EXCEPT ![o][c] = outcome]
  BY DEF BarrierGivesUp
<1>2. TypeOK'
  BY <1>0, <1>1 DEF TypeOK, Promises, Rejections
<1>3. /\ SingleFlight' /\ SaveWhileWriting' /\ SaveInOrder' /\ DirtyFlag' /\ RetryArmed'
      /\ PendingPresent' /\ IdleMeansDurable' /\ Bounds'
  BY <1>0 DEF SingleFlight, SaveWhileWriting, SaveInOrder, DirtyFlag, RetryArmed, PendingPresent,
              IdleMeansDurable, Writing, Bounds
<1>4. RegistryExact' /\ FlushMeansDurable'
  BY <1>0, <1>1 DEF TypeOK, RegistryExact, FlushMeansDurable
<1> QED
  BY <1>2, <1>3, <1>4

(* A write that reaches the store keeps the invariant.                      *)
LEMMA SaveLandsInv ==
  ASSUME IInv, NEW s \in saves, SaveLands(s)
  PROVE  IInv'
<1> USE DEF IInv
<1> DEFINE o == s.worker
           t == [s EXCEPT !.landed = TRUE]
<1>0. /\ TypeOK /\ MaxVersion \in Nat
      /\ s \in Saves /\ o \in Workers /\ s.payload \in Versions
      /\ durable[o] <= s.payload /\ s.payload <= latest[o]
  BY DrainAssumption DEF TypeOK, Saves, SaveInOrder
<1>1. /\ t \in Saves /\ t.worker = o /\ t.payload = s.payload /\ t.landed = TRUE
  BY <1>0 DEF Saves
<1>2. /\ saves' = (saves \ {s}) \cup {t}
      /\ durable' = [durable EXCEPT ![o] = s.payload]
      /\ UNCHANGED <<state, dirty, pending, retries, timer, registry, promise, latest, goal>>
  BY DEF SaveLands, workerVars
<1> HIDE DEF t
<1>3. TypeOK'
  BY <1>0, <1>1, <1>2 DEF TypeOK, Payloads
<1>4. SingleFlight' /\ SaveWhileWriting'
  BY <1>0, <1>1, <1>2 DEF TypeOK, SingleFlight, SaveWhileWriting, Writing
<1>5. SaveInOrder'
  <2> SUFFICES ASSUME NEW r \in saves'
               PROVE  /\ durable'[r.worker] <= r.payload /\ r.payload <= latest[r.worker]
                      /\ r.landed => durable'[r.worker] = r.payload
                      /\ Writing(r.worker) /\ ~dirty[r.worker] => r.payload = latest[r.worker]
    BY <1>2 DEF SaveInOrder, Writing
  <2>1. CASE r = t
    BY <1>0, <1>1, <1>2, <2>1 DEF TypeOK, SaveInOrder, Versions
  <2>2. CASE r \in saves \ {s}
    <3>1. r.worker # o /\ r.worker \in Workers
      BY <1>0, <2>2 DEF SingleFlight, TypeOK, Saves
    <3> QED
      BY <1>0, <1>2, <2>2, <3>1 DEF TypeOK, SaveInOrder
  <2> QED
    BY <1>2, <2>1, <2>2
<1>6. DirtyFlag' /\ RetryArmed' /\ RegistryExact' /\ PendingPresent'
  BY <1>2 DEF DirtyFlag, RetryArmed, RegistryExact, PendingPresent
<1>7. \A p \in Workers : /\ durable'[p] \in Nat /\ durable[p] \in Nat
                          /\ durable'[p] >= durable[p] /\ durable'[p] <= latest[p]
  BY <1>0, <1>2 DEF TypeOK, Bounds, Payloads, NoPayload, Versions
<1>8. Bounds'
  BY <1>2, <1>7 DEF Bounds
<1>9. \A p \in Workers, c \in Callers : goal[p][c] \in Nat
  BY <1>0 DEF TypeOK, Payloads, NoPayload, Versions
<1>10. FlushMeansDurable'
  BY <1>2, <1>7, <1>9 DEF FlushMeansDurable
<1>11. IdleMeansDurable'
  <2>1. state[o] # "IDLE"
    BY <1>0 DEF SaveWhileWriting
  <2> QED
    BY <1>0, <1>2, <2>1 DEF TypeOK, IdleMeansDurable
<1> QED
  BY <1>3, <1>4, <1>5, <1>6, <1>8, <1>10, <1>11

(* An answer a disposed worker ignores keeps the invariant.                 *)
LEMMA SaveIgnoredInv ==
  ASSUME IInv, NEW s \in saves, SaveIgnored(s)
  PROVE  IInv'
<1> USE DEF IInv
<1>0. /\ TypeOK /\ s.worker \in Workers
      /\ state[s.worker] = "DISPOSED"
      /\ saves' = saves \ {s}
      /\ UNCHANGED <<state, dirty, pending, retries, timer, registry, promise, latest, goal, durable>>
  BY DEF SaveIgnored, workerVars, TypeOK, Saves
<1>1. TypeOK'
  BY <1>0 DEF TypeOK
<1>2. SingleFlight' /\ SaveWhileWriting' /\ SaveInOrder'
  BY <1>0 DEF SingleFlight, SaveWhileWriting, SaveInOrder, Writing
<1>3. /\ DirtyFlag' /\ RetryArmed' /\ RegistryExact' /\ PendingPresent'
      /\ Bounds' /\ FlushMeansDurable' /\ IdleMeansDurable'
  BY <1>0 DEF DirtyFlag, RetryArmed, RegistryExact, PendingPresent, Bounds, FlushMeansDurable,
              IdleMeansDurable
<1> QED
  BY <1>1, <1>2, <1>3

(* The effect of settling a registry: its callers get the outcome, nobody   *)
(* else does.                                                               *)
LEMMA SettleAllEffect ==
  ASSUME TypeOK, NEW o \in Workers, NEW outcome \in Promises, outcome # "waiting",
         RegistryExact, SettleAll(o, outcome)
  PROVE  /\ registry' \in [Workers -> SUBSET Callers]
         /\ promise' \in [Workers -> [Callers -> Promises]]
         /\ registry'[o] = {}
         /\ \A p \in Workers : p # o => registry'[p] = registry[p] /\ promise'[p] = promise[p]
         /\ \A c \in Callers : promise'[o][c] # "waiting"
         /\ \A c \in Callers : promise'[o][c] \in {promise[o][c], outcome}
<1> DEFINE settled == [c \in Callers |-> IF c \in registry[o] THEN outcome ELSE promise[o][c]]
<1>1. promise' = [promise EXCEPT ![o] = settled]
  BY DEF SettleAll, TypeOK
<1>2. settled \in [Callers -> Promises]
  BY DEF TypeOK
<1>3. \A c \in Callers : settled[c] # "waiting" /\ settled[c] \in {promise[o][c], outcome}
  BY DEF RegistryExact
<1> HIDE DEF settled
<1>4. promise' \in [Workers -> [Callers -> Promises]] /\ promise'[o] = settled
  BY <1>1, <1>2 DEF TypeOK
<1>5. registry' = [registry EXCEPT ![o] = {}]
  BY DEF SettleAll
<1> QED
  BY <1>1, <1>3, <1>4, <1>5 DEF TypeOK

(* A write answered with success keeps the invariant.                       *)
LEMMA SaveSucceedsInv ==
  ASSUME IInv, NEW s \in saves, SaveSucceeds(s)
  PROVE  IInv'
<1> USE DEF IInv
<1> DEFINE o == s.worker
<1>0. /\ TypeOK /\ MaxVersion \in Nat /\ MaxRetries \in Nat
      /\ o \in Workers /\ s.worker = o
      /\ s.landed /\ state[o] # "DISPOSED"
      /\ retries' = [retries EXCEPT ![o] = 0]
      /\ UNCHANGED <<pending, timer, latest, goal, durable>>
  BY DrainAssumption DEF SaveSucceeds, TypeOK, Saves
<1>1. /\ Writing(o)
      /\ \A r \in saves \ {s} : r.worker # o
      /\ durable[o] = s.payload
  BY <1>0 DEF SaveWhileWriting, SingleFlight, SaveInOrder, Writing, TypeOK, WorkerStates
<1> HIDE DEF o
<1>2. Bounds'
  BY <1>0 DEF Bounds
<1>3. CASE dirty[o]
  <2> DEFINE n == NewSave(o, pending[o], saves \ {s})
  <2>1. /\ dirty' = [dirty EXCEPT ![o] = FALSE]
        /\ state' = [state EXCEPT ![o] = "DRAINING"]
        /\ saves' = (saves \ {s}) \cup {n}
        /\ UNCHANGED <<registry, promise>>
    BY <1>3 DEF SaveSucceeds, DispatchWrite, o
  <2>2. pending[o] = latest[o] /\ pending[o] \in Versions
    BY <1>0, <1>1 DEF PendingPresent, Writing, TypeOK, Payloads
  <2>3. /\ n \in Saves /\ n.worker = o /\ n.payload = latest[o] /\ n.landed = FALSE
    <3>1. saves \ {s} \in SUBSET Saves
      BY <1>0 DEF TypeOK
    <3> DEFINE rest == saves \ {s}
               v == pending[o]
    <3>2. rest \in SUBSET Saves /\ v \in Versions /\ o \in Workers /\ \A r \in rest : r.worker # o
      BY <1>0, <1>1, <2>2, <3>1
    <3> HIDE DEF rest, v
    <3>3. /\ NewSave(o, v, rest) \in Saves /\ NewSave(o, v, rest).worker = o
          /\ NewSave(o, v, rest).payload = v /\ NewSave(o, v, rest).landed = FALSE
      BY <3>2, NewSaveType
    <3> QED
      BY <2>2, <3>3 DEF v, rest
  <2> HIDE DEF n
  <2>4. TypeOK'
    BY <1>0, <2>1, <2>3 DEF TypeOK, WorkerStates
  <2>5. SingleFlight' /\ SaveWhileWriting'
    BY <1>0, <1>1, <2>1, <2>3 DEF TypeOK, SingleFlight, SaveWhileWriting, Writing
  <2>6. SaveInOrder'
    <3> SUFFICES ASSUME NEW r \in saves'
                 PROVE  /\ durable[r.worker] <= r.payload /\ r.payload <= latest[r.worker]
                        /\ r.landed => durable[r.worker] = r.payload
                        /\ Writing(r.worker)' /\ ~dirty'[r.worker] => r.payload = latest[r.worker]
      BY <1>0 DEF SaveInOrder
    <3>1. CASE r = n
      <4>1. durable[o] <= latest[o] /\ latest[o] \in Nat
        BY <1>0 DEF TypeOK, Bounds, Payloads, NoPayload, Versions
      <4> QED
        BY <2>3, <3>1, <4>1
    <3>2. CASE r \in saves \ {s}
      <4>1. r.worker # o /\ r.worker \in Workers
        BY <1>0, <1>1, <3>2 DEF TypeOK, Saves
      <4> QED
        BY <1>0, <2>1, <3>2, <4>1 DEF TypeOK, SaveInOrder, Writing
    <3> QED
      BY <2>1, <3>1, <3>2
  <2>7. DirtyFlag' /\ RetryArmed' /\ PendingPresent' /\ IdleMeansDurable'
    BY <1>0, <1>1, <2>1 DEF TypeOK, DirtyFlag, RetryArmed, PendingPresent, IdleMeansDurable, Writing
  <2>8. RegistryExact' /\ FlushMeansDurable'
    BY <1>0, <2>1 DEF TypeOK, RegistryExact, FlushMeansDurable
  <2> QED
    BY <1>2, <2>4, <2>5, <2>6, <2>7, <2>8
<1>4. CASE ~dirty[o]
  <2>1. /\ state' = [state EXCEPT ![o] = "IDLE"]
        /\ SettleAll(o, "resolved")
        /\ saves' = saves \ {s}
        /\ UNCHANGED dirty
    BY <1>4 DEF SaveSucceeds, o
  <2>2. /\ registry' \in [Workers -> SUBSET Callers]
        /\ promise' \in [Workers -> [Callers -> Promises]]
        /\ registry'[o] = {}
        /\ \A p \in Workers : p # o => registry'[p] = registry[p] /\ promise'[p] = promise[p]
        /\ \A c \in Callers : promise'[o][c] # "waiting"
        /\ \A c \in Callers : promise'[o][c] \in {promise[o][c], "resolved"}
    BY <1>0, <2>1, SettleAllEffect DEF Promises
  <2>3. durable[o] = latest[o]
    BY <1>0, <1>1, <1>4 DEF SaveInOrder
  <2>4. TypeOK'
    <3>1. state' \in [Workers -> WorkerStates] /\ retries' \in [Workers -> 0 .. MaxRetries]
      BY <1>0, <2>1 DEF TypeOK, WorkerStates
    <3>2. saves' \subseteq Saves
      BY <1>0, <2>1 DEF TypeOK
    <3> QED
      BY <1>0, <2>1, <2>2, <3>1, <3>2 DEF TypeOK
  <2>5. SingleFlight' /\ SaveWhileWriting' /\ SaveInOrder'
    BY <1>0, <1>1, <2>1 DEF TypeOK, SingleFlight, SaveWhileWriting, SaveInOrder, Writing, Saves
  <2>6. DirtyFlag' /\ RetryArmed' /\ PendingPresent' /\ IdleMeansDurable'
    BY <1>0, <1>1, <1>4, <2>1, <2>3 DEF TypeOK, DirtyFlag, RetryArmed, PendingPresent, IdleMeansDurable, Writing
  <2>7. RegistryExact'
    BY <1>0, <2>1, <2>2 DEF TypeOK, RegistryExact
  <2>8. FlushMeansDurable'
    <3> SUFFICES ASSUME NEW p \in Workers, NEW c \in Callers, promise'[p][c] = "resolved"
                 PROVE  durable[p] >= goal[p][c]
      BY <1>0 DEF FlushMeansDurable
    <3>1. CASE p = o
      BY <1>0, <2>3, <3>1 DEF Bounds, TypeOK, Payloads, NoPayload, Versions
    <3>2. CASE p # o
      BY <2>2, <3>2 DEF FlushMeansDurable
    <3> QED
      BY <3>1, <3>2
  <2> QED
    BY <1>2, <2>4, <2>5, <2>6, <2>7, <2>8
<1> QED
  BY <1>3, <1>4

(* A write answered with a failure keeps the invariant.                     *)
LEMMA SaveFailsInv ==
  ASSUME IInv, NEW s \in saves, SaveFails(s)
  PROVE  IInv'
<1> USE DEF IInv
<1> DEFINE o == s.worker
<1>0. /\ TypeOK /\ MaxRetries \in Nat
      /\ o \in Workers /\ s.worker = o
      /\ state[o] # "DISPOSED"
      /\ saves' = saves \ {s}
      /\ UNCHANGED <<dirty, pending, latest, goal, durable>>
  BY DrainAssumption DEF SaveFails, TypeOK, Saves
<1> HIDE DEF o
<1>1. /\ Writing(o)
      /\ \A r \in saves' : r.worker # o
  BY <1>0 DEF SaveWhileWriting, SingleFlight, Writing, TypeOK, WorkerStates
<1>2. Bounds'
  BY <1>0 DEF Bounds
<1>3. CASE ShouldRetry(retries[o] + 1)
  <2>1. /\ retries' = [retries EXCEPT ![o] = retries[o] + 1]
        /\ state'   = [state EXCEPT ![o] = "RETRYING"]
        /\ UNCHANGED <<registry, promise>>
    BY <1>3 DEF SaveFails, o
  <2>2. PICK t \in {"timeout", "microtask"} : timer' = [timer EXCEPT ![o] = t]
    BY <1>3 DEF SaveFails, o
  <2>3. retries[o] + 1 \in 0 .. MaxRetries
    BY <1>0, <1>3 DEF ShouldRetry, TypeOK
  <2>4. TypeOK'
    BY <1>0, <2>1, <2>2, <2>3 DEF TypeOK, WorkerStates, Timers
  <2>5. SingleFlight' /\ SaveWhileWriting' /\ SaveInOrder'
    BY <1>0, <1>1, <2>1 DEF TypeOK, SingleFlight, SaveWhileWriting, SaveInOrder, Writing, Saves
  <2>6. DirtyFlag' /\ RetryArmed'
    BY <1>0, <1>1, <2>1, <2>2 DEF TypeOK, DirtyFlag, RetryArmed
  <2>7. PendingPresent' /\ IdleMeansDurable'
    BY <1>0, <1>1, <2>1 DEF TypeOK, PendingPresent, IdleMeansDurable, Writing
  <2>8. RegistryExact' /\ FlushMeansDurable'
    BY <1>0, <2>1 DEF TypeOK, RegistryExact, FlushMeansDurable
  <2> QED
    BY <1>2, <2>4, <2>5, <2>6, <2>7, <2>8
<1>4. CASE ~ShouldRetry(retries[o] + 1)
  <2>1. /\ state' = [state EXCEPT ![o] = "FAULTED"]
        /\ SettleAll(o, "PERSIST_FAILED")
        /\ UNCHANGED <<retries, timer>>
    BY <1>4 DEF SaveFails, o
  <2>2. /\ registry' \in [Workers -> SUBSET Callers]
        /\ promise' \in [Workers -> [Callers -> Promises]]
        /\ registry'[o] = {}
        /\ \A p \in Workers : p # o => registry'[p] = registry[p] /\ promise'[p] = promise[p]
        /\ \A c \in Callers : promise'[o][c] # "waiting"
        /\ \A c \in Callers : promise'[o][c] \in {promise[o][c], "PERSIST_FAILED"}
    BY <1>0, <2>1, SettleAllEffect DEF Promises, Rejections
  <2>3. TypeOK'
    <3>1. state' \in [Workers -> WorkerStates] /\ saves' \subseteq Saves
      BY <1>0, <2>1 DEF TypeOK, WorkerStates
    <3> QED
      BY <1>0, <2>1, <2>2, <3>1 DEF TypeOK
  <2>4. SingleFlight' /\ SaveWhileWriting' /\ SaveInOrder'
    BY <1>0, <1>1, <2>1 DEF TypeOK, SingleFlight, SaveWhileWriting, SaveInOrder, Writing, Saves
  <2>5. DirtyFlag' /\ RetryArmed'
    BY <1>0, <1>1, <2>1 DEF TypeOK, DirtyFlag, RetryArmed, Writing
  <2>6. PendingPresent' /\ IdleMeansDurable'
    BY <1>0, <1>1, <2>1 DEF TypeOK, PendingPresent, IdleMeansDurable, Writing
  <2>7. RegistryExact'
    BY <1>0, <2>1, <2>2 DEF TypeOK, RegistryExact
  <2>8. FlushMeansDurable'
    BY <1>0, <2>2 DEF FlushMeansDurable
  <2> QED
    BY <1>2, <2>3, <2>4, <2>5, <2>6, <2>7, <2>8
<1> QED
  BY <1>3, <1>4

(* A retry that fires keeps the invariant.                                  *)
LEMMA RetryFiresInv ==
  ASSUME IInv, NEW o \in Workers, RetryFires(o)
  PROVE  IInv'
<1> USE DEF IInv
<1>0. /\ TypeOK /\ MaxVersion \in Nat
      /\ timer' = [timer EXCEPT ![o] = "none"]
      /\ UNCHANGED <<dirty, pending, retries, registry, promise, latest, goal, durable>>
  BY DrainAssumption DEF RetryFires
<1>1. Bounds' /\ FlushMeansDurable'
  BY <1>0 DEF Bounds, FlushMeansDurable
<1>2. CASE state[o] = "RETRYING"
  <2> DEFINE v == pending[o]
             n == NewSave(o, v, saves)
  <2>1. state' = [state EXCEPT ![o] = "DRAINING"] /\ saves' = saves \cup {n}
    BY <1>2 DEF RetryFires, DispatchWrite
  <2>2. /\ saves \in SUBSET Saves /\ \A r \in saves : r.worker # o
        /\ v \in Versions /\ v = latest[o]
    BY <1>0, <1>2 DEF PendingPresent, SaveWhileWriting, TypeOK, Payloads
  <2> HIDE DEF v
  <2>3. n \in Saves /\ n.worker = o /\ n.payload = v /\ n.landed = FALSE
    <3> DEFINE rest == saves
    <3>1. rest \in SUBSET Saves /\ v \in Versions /\ \A r \in rest : r.worker # o
      BY <2>2
    <3> HIDE DEF rest
    <3>2. /\ NewSave(o, v, rest) \in Saves /\ NewSave(o, v, rest).worker = o
          /\ NewSave(o, v, rest).payload = v /\ NewSave(o, v, rest).landed = FALSE
      BY <3>1, NewSaveType
    <3> QED
      BY <3>2 DEF rest
  <2> HIDE DEF n
  <2>4. TypeOK'
    BY <1>0, <2>1, <2>3 DEF TypeOK, WorkerStates, Timers
  <2>5. SingleFlight' /\ SaveWhileWriting'
    BY <1>0, <2>1, <2>2, <2>3 DEF TypeOK, SingleFlight, SaveWhileWriting, Writing
  <2>6. SaveInOrder'
    <3> SUFFICES ASSUME NEW r \in saves'
                 PROVE  /\ durable[r.worker] <= r.payload /\ r.payload <= latest[r.worker]
                        /\ r.landed => durable[r.worker] = r.payload
                        /\ Writing(r.worker)' /\ ~dirty'[r.worker] => r.payload = latest[r.worker]
      BY <1>0 DEF SaveInOrder
    <3>1. CASE r = n
      <4>1. durable[o] <= latest[o] /\ latest[o] \in Nat
        BY <1>0 DEF TypeOK, Bounds, Payloads, NoPayload, Versions
      <4> QED
        BY <2>2, <2>3, <3>1, <4>1
    <3>2. CASE r \in saves
      <4>1. r.worker # o /\ r.worker \in Workers
        BY <1>0, <2>2, <3>2 DEF TypeOK, Saves
      <4> QED
        BY <1>0, <2>1, <3>2, <4>1 DEF TypeOK, SaveInOrder, Writing
    <3> QED
      BY <2>1, <3>1, <3>2
  <2>7. DirtyFlag' /\ RetryArmed'
    BY <1>0, <2>1 DEF TypeOK, DirtyFlag, RetryArmed
  <2>8. IdleMeansDurable' /\ RegistryExact'
    BY <1>0, <1>2, <2>1 DEF TypeOK, IdleMeansDurable, RegistryExact
  <2>9. PendingPresent'
    BY <1>0, <1>2, <2>1 DEF TypeOK, PendingPresent
  <2> QED
    BY <1>1, <2>4, <2>5, <2>6, <2>7, <2>8, <2>9
<1>3. CASE state[o] # "RETRYING"
  <2>1. UNCHANGED <<state, saves>>
    BY <1>3 DEF RetryFires
  <2>2. TypeOK' /\ RetryArmed'
    BY <1>0, <1>3, <2>1 DEF TypeOK, Timers, RetryArmed
  <2>3. SingleFlight' /\ SaveWhileWriting' /\ SaveInOrder'
    BY <1>0, <2>1 DEF SingleFlight, SaveWhileWriting, SaveInOrder, Writing
  <2>4. DirtyFlag' /\ PendingPresent' /\ IdleMeansDurable' /\ RegistryExact'
    BY <1>0, <2>1 DEF DirtyFlag, PendingPresent, IdleMeansDurable, RegistryExact
  <2> QED
    BY <1>1, <2>2, <2>3, <2>4
<1> QED
  BY <1>2, <1>3

(* Disposing the worker keeps the invariant.                                *)
LEMMA DisposeInv ==
  ASSUME IInv, NEW o \in Workers, Dispose(o)
  PROVE  IInv'
<1> USE DEF IInv
<1>0. /\ TypeOK
      /\ state'   = [state EXCEPT ![o] = "DISPOSED"]
      /\ timer'   = [timer EXCEPT ![o] = IF timer[o] = "timeout" THEN "none" ELSE timer[o]]
      /\ pending' = [pending EXCEPT ![o] = NoPayload]
      /\ UNCHANGED <<dirty, retries, saves, latest, goal, durable>>
  BY DEF Dispose
<1>1. /\ registry' \in [Workers -> SUBSET Callers]
      /\ promise' \in [Workers -> [Callers -> Promises]]
      /\ registry'[o] = {}
      /\ \A p \in Workers : p # o => registry'[p] = registry[p] /\ promise'[p] = promise[p]
      /\ \A c \in Callers : promise'[o][c] # "waiting"
      /\ \A c \in Callers : promise'[o][c] \in {promise[o][c], "QUEUE_DISPOSED"}
  BY <1>0, SettleAllEffect DEF Dispose, Promises, Rejections
<1>2. TypeOK'
  <2>1. /\ state' \in [Workers -> WorkerStates]
        /\ timer' \in [Workers -> Timers]
        /\ pending' \in [Workers -> Payloads]
    BY <1>0 DEF TypeOK, WorkerStates, Timers, Payloads
  <2> QED
    BY <1>0, <1>1, <2>1 DEF TypeOK
<1>3. SingleFlight' /\ SaveWhileWriting' /\ SaveInOrder'
  BY <1>0 DEF TypeOK, SingleFlight, SaveWhileWriting, SaveInOrder, Writing, Saves
<1>4. DirtyFlag' /\ RetryArmed' /\ Bounds'
  BY <1>0 DEF TypeOK, DirtyFlag, RetryArmed, Bounds
<1>5. PendingPresent' /\ IdleMeansDurable'
  BY <1>0 DEF TypeOK, PendingPresent, IdleMeansDurable
<1>6. RegistryExact'
  BY <1>0, <1>1 DEF TypeOK, RegistryExact
<1>7. FlushMeansDurable'
  BY <1>0, <1>1 DEF FlushMeansDurable
<1> QED
  BY <1>2, <1>3, <1>4, <1>5, <1>6, <1>7

-----------------------------------------------------------------------------

(* Every step keeps the invariant.                                          *)
LEMMA NextInv == IInv /\ [Next]_vars => IInv'
<1> SUFFICES ASSUME IInv, [Next]_vars PROVE IInv'
  OBVIOUS
<1>1. ASSUME NEW o \in Workers, NEW v \in Versions, HandleTrigger(o, v) PROVE IInv'
  BY <1>1, HandleTriggerInv
<1>2. ASSUME NEW o \in Workers, NEW c \in Callers, Flush(o, c) PROVE IInv'
  BY <1>2, FlushInv
<1>3. ASSUME NEW o \in Workers, NEW c \in Callers, BarrierGivesUp(o, c) PROVE IInv'
  BY <1>3, BarrierGivesUpInv
<1>4. ASSUME NEW o \in Workers, SaveReturns(o) PROVE IInv'
  BY <1>4, SaveIgnoredInv, SaveSucceedsInv, SaveFailsInv DEF SaveReturns, SavesOf
<1>5. ASSUME NEW o \in Workers, RetryFires(o) PROVE IInv'
  BY <1>5, RetryFiresInv
<1>6. ASSUME NEW o \in Workers, Dispose(o) PROVE IInv'
  BY <1>6, DisposeInv
<1>7. ASSUME NEW s \in saves, SaveLands(s) PROVE IInv'
  BY <1>7, SaveLandsInv
<1>8. CASE UNCHANGED vars
  BY <1>8 DEF vars, workerVars, IInv, TypeOK, SingleFlight, SaveWhileWriting, SaveInOrder, Writing,
     DirtyFlag, RetryArmed, Bounds, RegistryExact, PendingPresent, IdleMeansDurable, FlushMeansDurable
<1> QED
  BY <1>1, <1>2, <1>3, <1>4, <1>5, <1>6, <1>7, <1>8 DEF Next

(* Every reachable state of the worker satisfies the inductive invariant.   *)
THEOREM Invariance == Spec => []IInv
BY InitInv, NextInv, PTL DEF Spec

(* Type correctness of the worker for every number of workers, callers,     *)
(* edits and retries.                                                       *)
THEOREM TypeCorrect == Spec => []TypeOK
BY Invariance, PTL DEF IInv

(* At most one write is outstanding per worker (InstanceDrainWorker.ts:29). *)
THEOREM OneWriteAtATime == Spec => []SingleFlight
BY Invariance, PTL DEF IInv

(* A resolved flush is durable (InstanceDrainWorker.ts:136-172).            *)
THEOREM FlushIsDurable == Spec => []FlushMeansDurable
BY Invariance, PTL DEF IInv

(* An idle worker has lost no update (InstanceDrainWorker.ts:236-249).      *)
THEOREM IdleIsDurable == Spec => []IdleMeansDurable
BY Invariance, PTL DEF IInv

(* No flush is left waiting with nothing that could settle it: the          *)
(* registry is exact, and a worker that holds barriers writes or has a      *)
(* retry armed.                                                             *)
THEOREM BarrierNeverOrphaned == Spec => []NoOrphanBarrier
<1>1. IInv => NoOrphanBarrier
  BY DEF IInv, NoOrphanBarrier, RegistryExact, SaveWhileWriting, RetryArmed, Writing, SavesOf
<1> QED
  BY <1>1, Invariance, PTL

(* Payloads are numbered in the order they were enqueued.                   *)
LEMMA PayloadsAreNat == Payloads \subseteq Nat
BY DrainAssumption DEF Payloads, Versions, NoPayload

(* Only a landing save changes the disk, and it never takes it back.        *)
LEMMA DurableStep ==
  ASSUME IInv, [Next]_vars
  PROVE  \/ UNCHANGED durable
         \/ \E o \in Workers, v \in Versions :
              /\ durable[o] <= v /\ v <= latest[o]
              /\ durable' = [durable EXCEPT ![o] = v]
              /\ UNCHANGED <<latest, promise, goal>>
<1>1. ASSUME NEW s \in saves, SaveLands(s)
      PROVE  \E o \in Workers, v \in Versions :
               /\ durable[o] <= v /\ v <= latest[o]
               /\ durable' = [durable EXCEPT ![o] = v]
               /\ UNCHANGED <<latest, promise, goal>>
  <2>1. s.worker \in Workers /\ s.payload \in Versions
    BY DEF IInv, TypeOK, Saves
  <2>2. durable[s.worker] <= s.payload /\ s.payload <= latest[s.worker]
    BY DEF IInv, SaveInOrder
  <2> QED
    BY <1>1, <2>1, <2>2 DEF SaveLands
<1>2. ASSUME NEW s \in saves, SaveIgnored(s) \/ SaveSucceeds(s) \/ SaveFails(s)
      PROVE  UNCHANGED durable
  BY <1>2 DEF SaveIgnored, SaveSucceeds, SaveFails
<1>3. ASSUME NEW o \in Workers,
             \/ \E v \in Versions : HandleTrigger(o, v)
             \/ \E c \in Callers : Flush(o, c) \/ BarrierGivesUp(o, c)
             \/ RetryFires(o)
             \/ Dispose(o)
      PROVE  UNCHANGED durable
  BY <1>3 DEF HandleTrigger, Flush, BarrierGivesUp, RetryFires, Dispose
<1> QED
  BY <1>1, <1>2, <1>3 DEF Next, SaveReturns, SavesOf, vars

(* Newer content is never overwritten with older content by one worker,     *)
(* whatever fails and is retried in between.                                *)
THEOREM NeverBackwards == Spec => WritesInOrder
<1>1. IInv /\ [Next]_vars => [\A o \in Workers : durable'[o] >= durable[o]]_vars
  <2> SUFFICES ASSUME IInv, [Next]_vars
               PROVE  \A o \in Workers : durable'[o] >= durable[o]
    OBVIOUS
  <2>1. \A o \in Workers : durable[o] \in Nat
    BY PayloadsAreNat DEF IInv, TypeOK
  <2>2. CASE UNCHANGED durable
    BY <2>1, <2>2
  <2>3. ASSUME NEW p \in Workers, NEW v \in Versions, durable[p] <= v,
               durable' = [durable EXCEPT ![p] = v]
        PROVE  \A o \in Workers : durable'[o] >= durable[o]
    BY <2>1, <2>3 DEF IInv, TypeOK, Versions
  <2> QED
    BY <2>2, <2>3, DurableStep
<1> QED
  BY <1>1, Invariance, PTL DEF Spec, WritesInOrder

-----------------------------------------------------------------------------
(* The worker implements the durable register: each step is a step of the   *)
(* register or leaves it unchanged.                                         *)

(* Settling barriers is a step of the register they wait on.                *)
LEMMA RegisterSettle ==
  ASSUME IInv, NEW o \in Workers, NEW outcome \in {"resolved"} \cup Rejections,
         outcome = "resolved" => \A c \in Callers : durable[o] >= goal[o][c],
         SettleAll(o, outcome), UNCHANGED <<latest, durable, goal>>
  PROVE  Register!Answer(o)
<1> DEFINE C == registry[o]
<1>1. C \in SUBSET {c \in Callers : promise[o][c] = "waiting"}
  BY DEF IInv, TypeOK, RegistryExact
<1>2. promise' = [promise EXCEPT ![o] = [c \in Callers |-> IF c \in C THEN outcome ELSE @[c]]]
  BY DEF SettleAll
<1>3. outcome = "resolved" => \A c \in C : durable[o] >= goal[o][c]
  BY DEF IInv, TypeOK
<1> HIDE DEF C
<1> QED
  BY <1>1, <1>2, <1>3 DEF Register!Answer

(* Every step of the worker is a step of the register or a stutter.         *)
LEMMA RegisterStep == IInv /\ [Next]_vars => [Register!Next]_(Register!vars)
<1> SUFFICES ASSUME IInv, [Next]_vars PROVE [Register!Next]_(Register!vars)
  OBVIOUS
<1> USE DEF Register!vars
<1>1. ASSUME NEW o \in Workers, NEW v \in Versions, HandleTrigger(o, v)
      PROVE  Register!Next
  <2>1. Register!Edit(o)
    BY <1>1 DEF HandleTrigger, Register!Edit, Register!Versions, Versions
  <2> QED
    BY <2>1 DEF Register!Next
<1>2. ASSUME NEW o \in Workers, NEW c \in Callers, Flush(o, c)
      PROVE  Register!Next
  <2>1. PICK outcome \in FlushOutcome(o) : promise' = [promise EXCEPT ![o][c] = outcome]
    BY <1>2 DEF Flush
  <2>2. /\ outcome \in {"waiting", "resolved"} \cup Rejections
        /\ outcome = "resolved" => state[o] = "IDLE"
    BY <2>1 DEF FlushOutcome, Rejections
  <2>3. outcome = "resolved" => durable[o] = latest[o]
    BY <2>2 DEF IInv, IdleMeansDurable
  <2>4. Register!Call(o, c)
    BY <1>2, <2>1, <2>2, <2>3 DEF Flush, Register!Call
  <2> QED
    BY <2>4 DEF Register!Next
<1>3. ASSUME NEW o \in Workers, NEW c \in Callers, BarrierGivesUp(o, c)
      PROVE  Register!Next
  <2>1. PICK outcome \in {"ABORTED", "BARRIER_TIMEOUT"} : promise' = [promise EXCEPT ![o][c] = outcome]
    BY <1>3 DEF BarrierGivesUp
  <2>2. promise[o][c] = "waiting"
    BY <1>3 DEF BarrierGivesUp, IInv, RegistryExact
  <2>3. promise' = [promise EXCEPT ![o] =
                      [d \in Callers |-> IF d \in {c} THEN outcome ELSE promise[o][d]]]
    BY <2>1 DEF IInv, TypeOK
  <2>4. /\ {c} \in SUBSET {d \in Callers : promise[o][d] = "waiting"}
        /\ outcome \in {"resolved"} \cup Rejections /\ outcome # "resolved"
        /\ UNCHANGED <<latest, durable, goal>>
    BY <1>3, <2>1, <2>2 DEF BarrierGivesUp, Rejections
  <2>5. Register!Answer(o)
    BY <2>3, <2>4 DEF Register!Answer
  <2> QED
    BY <2>5 DEF Register!Next
<1>4. ASSUME NEW s \in saves, SaveLands(s)
      PROVE  Register!Next \/ UNCHANGED Register!vars
  <2>0. s.worker \in Workers /\ s.payload \in Versions
    BY DEF IInv, TypeOK, Saves
  <2>1. durable[s.worker] <= s.payload /\ s.payload <= latest[s.worker]
    BY DEF IInv, SaveInOrder
  <2>2. durable' = [durable EXCEPT ![s.worker] = s.payload] /\ UNCHANGED <<latest, promise, goal>>
    BY <1>4 DEF SaveLands
  <2>3. CASE durable[s.worker] = s.payload
    BY <2>0, <2>2, <2>3 DEF IInv, TypeOK
  <2>4. CASE durable[s.worker] # s.payload
    <3>1. durable[s.worker] < s.payload
      <4>1. durable[s.worker] \in Nat
        BY <2>0, PayloadsAreNat DEF IInv, TypeOK
      <4>2. s.payload \in Nat
        BY <2>0 DEF Versions
      <4> QED
        BY <2>1, <2>4, <4>1, <4>2
    <3>2. Register!Persist(s.worker)
      BY <2>0, <2>1, <2>2, <3>1 DEF Register!Persist, Register!Versions, Versions
    <3> QED
      BY <2>0, <3>2 DEF Register!Next
  <2> QED
    BY <2>3, <2>4
<1>5. ASSUME NEW s \in saves, SaveIgnored(s) \/ SaveSucceeds(s) \/ SaveFails(s)
      PROVE  Register!Next \/ UNCHANGED Register!vars
  <2>0. s.worker \in Workers
    BY DEF IInv, TypeOK, Saves
  <2>1. CASE SaveIgnored(s)
    BY <2>1 DEF SaveIgnored
  <2>2. CASE SaveSucceeds(s)
    <3>1. CASE dirty[s.worker]
      <4>1. UNCHANGED <<promise, latest, durable, goal>>
        BY <2>2, <3>1 DEF SaveSucceeds
      <4> QED
        BY <4>1
    <3>2. CASE ~dirty[s.worker]
      <4>1. SettleAll(s.worker, "resolved") /\ UNCHANGED <<latest, durable, goal>> /\ s.landed
        BY <2>2, <3>2 DEF SaveSucceeds
      <4>2. Writing(s.worker)
        BY <2>0, <2>2 DEF SaveSucceeds, IInv, SaveWhileWriting, Writing, TypeOK, WorkerStates
      <4>3. durable[s.worker] = latest[s.worker]
        BY <3>2, <4>1, <4>2 DEF IInv, SaveInOrder
      <4>4. \A c \in Callers : durable[s.worker] >= goal[s.worker][c]
        <5>1. \A c \in Callers : goal[s.worker][c] <= latest[s.worker] /\ goal[s.worker][c] \in Nat
          BY <2>0, PayloadsAreNat DEF IInv, Bounds, TypeOK
        <5>2. latest[s.worker] \in Nat
          BY <2>0, PayloadsAreNat DEF IInv, TypeOK
        <5> QED
          BY <4>3, <5>1, <5>2
      <4> QED
        BY <2>0, <4>1, <4>4, RegisterSettle DEF Register!Next
    <3> QED
      BY <3>1, <3>2
  <2>3. CASE SaveFails(s)
    <3>1. CASE ShouldRetry(retries[s.worker] + 1)
      <4>1. UNCHANGED <<promise, latest, durable, goal>>
        BY <2>3, <3>1 DEF SaveFails
      <4> QED
        BY <4>1
    <3>2. CASE ~ShouldRetry(retries[s.worker] + 1)
      <4>1. SettleAll(s.worker, "PERSIST_FAILED") /\ UNCHANGED <<latest, durable, goal>>
        BY <2>3, <3>2 DEF SaveFails
      <4> QED
        BY <2>0, <4>1, RegisterSettle DEF Register!Next, Rejections
    <3> QED
      BY <3>1, <3>2
  <2> QED
    BY <1>5, <2>1, <2>2, <2>3
<1>6. ASSUME NEW o \in Workers, RetryFires(o)
      PROVE  UNCHANGED Register!vars
  BY <1>6 DEF RetryFires
<1>7. ASSUME NEW o \in Workers, Dispose(o)
      PROVE  Register!Next
  <2>1. SettleAll(o, "QUEUE_DISPOSED") /\ UNCHANGED <<latest, durable, goal>>
    BY <1>7 DEF Dispose
  <2> QED
    BY <2>1, RegisterSettle DEF Register!Next, Rejections
<1>8. CASE UNCHANGED vars
  BY <1>8 DEF vars
<1> QED
  BY <1>1, <1>2, <1>3, <1>4, <1>5, <1>6, <1>7, <1>8 DEF Next, SaveReturns, SavesOf

(* The worker implements the register its interface promises                *)
(* (types.ts:252-256).                                                      *)
THEOREM WorkerImplementsRegister == Spec => RegisterSpec
<1>1. Init => Register!Init
  BY DEF Init, Register!Init, NoPayload
<1> QED
  BY <1>1, RegisterStep, Invariance, PTL DEF Spec, RegisterSpec, Register!Spec
=============================================================================
