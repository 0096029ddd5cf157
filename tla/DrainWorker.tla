---------------------------- MODULE DrainWorker ----------------------------
(***************************************************************************)
(* The per-instance drain worker (InstanceDrainWorker.ts), its barrier     *)
(* registry (TransactionalBarrierRegistry.ts) and its retry policy         *)
(* (BackoffPolicyEngine.ts).                                               *)
(*                                                                         *)
(* Several workers are modelled side by side: the queue that creates and   *)
(* evicts them is module DrainQueue.  A payload is the number of the edit  *)
(* that produced it, so "newer" is ">".  A save is one outstanding call of *)
(* persistenceAdapter.saveInstance: it may land on the disk, and later it  *)
(* succeeds (only if it landed) or fails (whether or not it landed).       *)
(***************************************************************************)
EXTENDS Naturals, FiniteSets

CONSTANTS Workers,     (* worker objects                                       *)
          Callers,     (* callers of flush, each of which calls a worker once  *)
          Cycles,      (* values of cycleId                                    *)
          MaxVersion,  (* bound on the number of edits                         *)
          MaxRetries   (* BackoffPolicyConfig.maxRetries                       *)

ASSUME DrainAssumption ==
  /\ MaxVersion \in Nat
  /\ MaxRetries \in Nat
  /\ Cycles # {}

Versions  == 1 .. MaxVersion
NoPayload == 0
Payloads  == {NoPayload} \cup Versions

WorkerStates == {"IDLE", "DRAINING", "COALESCING", "RETRYING", "FAULTED", "DISPOSED"}
Timers       == {"none", "timeout", "microtask"}
Rejections   == {"QUEUE_DISPOSED", "WORKER_FAULTED", "PERSIST_FAILED", "ABORTED", "BARRIER_TIMEOUT"}
Promises     == {"uncalled", "waiting", "resolved"} \cup Rejections
Saves        == [worker : Workers, cycle : Cycles, payload : Versions, landed : BOOLEAN]

VARIABLES
  state,     (* _state                                                    *)
  dirty,     (* _isDirty                                                  *)
  pending,   (* pendingPayload                                            *)
  retries,   (* retryCount                                                *)
  timer,     (* the armed retry: a setTimeout handle or a queued microtask *)
  registry,  (* barrierRegistry.barriers: the callers it holds            *)
  saves,     (* outstanding saveInstance calls of all workers             *)
  promise,   (* what each caller's flush promise has become               *)
  latest,    (* history: newest payload handed to the worker              *)
  goal,      (* history: latest when the caller called flush              *)
  durable    (* history: newest payload the worker's saves put on disk    *)

workerVars == <<state, dirty, pending, retries, timer, registry>>
vars == <<workerVars, saves, promise, latest, goal, durable>>

Init ==
  /\ state    = [o \in Workers |-> "IDLE"]
  /\ dirty    = [o \in Workers |-> FALSE]
  /\ pending  = [o \in Workers |-> NoPayload]
  /\ retries  = [o \in Workers |-> 0]
  /\ timer    = [o \in Workers |-> "none"]
  /\ registry = [o \in Workers |-> {}]
  /\ saves    = {}
  /\ promise  = [o \in Workers |-> [c \in Callers |-> "uncalled"]]
  /\ latest   = [o \in Workers |-> NoPayload]
  /\ goal     = [o \in Workers |-> [c \in Callers |-> NoPayload]]
  /\ durable  = [o \in Workers |-> NoPayload]

-----------------------------------------------------------------------------
(* Helpers *)

SavesOf(o) == {s \in saves : s.worker = o}

(* crypto.randomUUID() for a cycle: an id that no outstanding save of this *)
(* worker carries.                                                         *)
FreshCycle(o, others) ==
  CHOOSE k \in Cycles : \A s \in others : s.worker = o => s.cycle # k

(* dispatchWrite up to its await: the payload v is what pendingPayload     *)
(* holds when the cycle starts; `others' are the saves still outstanding.  *)
(* Its early return for an empty pendingPayload is unreachable             *)
(* (PendingPresent below).                                                 *)
NewSave(o, v, others) ==
  [worker |-> o, cycle |-> FreshCycle(o, others), payload |-> v, landed |-> FALSE]

DispatchWrite(o, v, others) == saves' = others \cup {NewSave(o, v, others)}

(* resolveAll / rejectAll: every registered barrier settles and the        *)
(* registry is emptied.                                                    *)
SettleAll(o, outcome) ==
  /\ promise'  = [promise EXCEPT ![o] =
                    [c \in Callers |-> IF c \in registry[o] THEN outcome ELSE @[c]]]
  /\ registry' = [registry EXCEPT ![o] = {}]

(* Mutant of ShouldRetry: one retry too many.                              *)
ShouldRetryOffByOne(attempt) == attempt > 0 /\ attempt <= MaxRetries + 1

ShouldRetry(attempt) == attempt > 0 /\ attempt <= MaxRetries

-----------------------------------------------------------------------------
(* handleTrigger, one action per case of its switch.  A disposed worker    *)
(* ignores triggers.                                                       *)

StartCycle(o, v) ==
  /\ state[o] \in {"IDLE", "FAULTED"}
  /\ state'   = [state EXCEPT ![o] = "DRAINING"]
  /\ dirty'   = [dirty EXCEPT ![o] = FALSE]
  /\ retries' = IF state[o] = "FAULTED" THEN [retries EXCEPT ![o] = 0] ELSE retries
  /\ DispatchWrite(o, v, saves)

(* Mutant of Coalesce: the edit does not mark the worker dirty.            *)
CoalesceClean(o) ==
  /\ state[o] \in {"DRAINING", "COALESCING"}
  /\ state' = [state EXCEPT ![o] = "COALESCING"]
  /\ UNCHANGED <<dirty, retries, saves>>

(* Mutant of Coalesce: the edit is written at once, beside the save that   *)
(* is outstanding.                                                         *)
CoalesceByWriting(o) ==
  /\ state[o] \in {"DRAINING", "COALESCING"}
  /\ Cardinality(SavesOf(o)) < 2
  /\ DispatchWrite(o, latest[o] + 1, saves)
  /\ UNCHANGED <<state, dirty, retries>>

Coalesce(o) ==
  /\ state[o] \in {"DRAINING", "COALESCING"}
  /\ state' = [state EXCEPT ![o] = "COALESCING"]
  /\ dirty' = [dirty EXCEPT ![o] = TRUE]
  /\ UNCHANGED <<retries, saves>>

CoalesceRetrying(o) ==
  /\ state[o] = "RETRYING"
  /\ dirty' = [dirty EXCEPT ![o] = TRUE]
  /\ UNCHANGED <<state, retries, saves>>

HandleTrigger(o, v) ==
  /\ v > latest[o]
  /\ latest'  = [latest EXCEPT ![o] = v]
  /\ pending' = [pending EXCEPT ![o] = v]
  /\ \/ StartCycle(o, v)
     \/ Coalesce(o)
     \/ CoalesceRetrying(o)
  /\ UNCHANGED <<timer, registry, promise, goal, durable>>

-----------------------------------------------------------------------------
(* flush.  The signal of a caller may already be aborted, may abort while  *)
(* the barrier waits, or the barrier may reach its timeoutMs.              *)

(* Mutant of FlushOutcome: only the dirty flag is consulted.               *)
FlushOutcomeByFlag(o) ==
  CASE state[o] = "DISPOSED" -> {"QUEUE_DISPOSED"}
    [] state[o] = "FAULTED"  -> {"WORKER_FAULTED"}
    [] OTHER -> IF dirty[o] THEN {"waiting", "ABORTED"} ELSE {"resolved", "ABORTED"}

FlushOutcome(o) ==
  CASE state[o] = "DISPOSED"               -> {"QUEUE_DISPOSED"}
    [] state[o] = "FAULTED"                -> {"WORKER_FAULTED"}
    [] state[o] = "IDLE" /\ ~dirty[o]      -> {"resolved", "ABORTED"}
    [] OTHER                               -> {"waiting", "ABORTED"}

Flush(o, c) ==
  /\ promise[o][c] = "uncalled"
  /\ \E outcome \in FlushOutcome(o) :
       /\ promise'  = [promise EXCEPT ![o][c] = outcome]
       /\ registry' = [registry EXCEPT ![o] =
                         IF outcome = "waiting" THEN @ \cup {c} ELSE @]
  /\ goal' = [goal EXCEPT ![o][c] = latest[o]]
  /\ UNCHANGED <<state, dirty, pending, retries, timer, saves, latest, durable>>

(* The abort listener or the timeout of a registered barrier fires.        *)
BarrierGivesUp(o, c) ==
  /\ c \in registry[o]
  /\ \E outcome \in {"ABORTED", "BARRIER_TIMEOUT"} :
       promise' = [promise EXCEPT ![o][c] = outcome]
  /\ registry' = [registry EXCEPT ![o] = @ \ {c}]
  /\ UNCHANGED <<state, dirty, pending, retries, timer, saves, latest, goal, durable>>

-----------------------------------------------------------------------------
(* The rest of dispatchWrite: what the file server does with the call, and *)
(* the code after the await.                                               *)

SaveLands(s) ==
  /\ s \in saves
  /\ ~s.landed
  /\ saves'   = (saves \ {s}) \cup {[s EXCEPT !.landed = TRUE]}
  /\ durable' = [durable EXCEPT ![s.worker] = s.payload]
  /\ UNCHANGED <<workerVars, promise, latest, goal>>

(* The worker was disposed while the call was outstanding: its answer is   *)
(* dropped.                                                                *)
SaveIgnored(s) ==
  /\ s \in saves
  /\ state[s.worker] = "DISPOSED"
  /\ saves' = saves \ {s}
  /\ UNCHANGED <<workerVars, promise, latest, goal, durable>>

(* Mutant of SaveSucceeds: the barriers are resolved although edits were   *)
(* coalesced meanwhile.                                                    *)
SaveSucceedsForAll(s) ==
  LET o == s.worker IN
  /\ s \in saves
  /\ s.landed
  /\ state[o] # "DISPOSED"
  /\ retries' = [retries EXCEPT ![o] = 0]
  /\ dirty'   = [dirty EXCEPT ![o] = FALSE]
  /\ SettleAll(o, "resolved")
  /\ IF dirty[o]
     THEN /\ state' = [state EXCEPT ![o] = "DRAINING"]
          /\ DispatchWrite(o, pending[o], saves \ {s})
     ELSE /\ state' = [state EXCEPT ![o] = "IDLE"]
          /\ saves' = saves \ {s}
  /\ UNCHANGED <<pending, timer, latest, goal, durable>>

SaveSucceeds(s) ==
  LET o == s.worker IN
  /\ s \in saves
  /\ s.landed
  /\ state[o] # "DISPOSED"
  /\ retries' = [retries EXCEPT ![o] = 0]
  /\ \/ /\ dirty[o]
        /\ dirty' = [dirty EXCEPT ![o] = FALSE]
        /\ state' = [state EXCEPT ![o] = "DRAINING"]
        /\ DispatchWrite(o, pending[o], saves \ {s})
        /\ UNCHANGED <<registry, promise>>
     \/ /\ ~dirty[o]
        /\ state' = [state EXCEPT ![o] = "IDLE"]
        /\ SettleAll(o, "resolved")
        /\ saves' = saves \ {s}
        /\ UNCHANGED dirty
  /\ UNCHANGED <<pending, timer, latest, goal, durable>>

SaveFails(s) ==
  LET o == s.worker IN
  /\ s \in saves
  /\ state[o] # "DISPOSED"
  /\ saves' = saves \ {s}
  /\ \/ /\ ShouldRetry(retries[o] + 1)
        /\ retries' = [retries EXCEPT ![o] = @ + 1]
        /\ state'   = [state EXCEPT ![o] = "RETRYING"]
        /\ \E t \in {"timeout", "microtask"} : timer' = [timer EXCEPT ![o] = t]
        /\ UNCHANGED <<registry, promise>>
     \/ /\ ~ShouldRetry(retries[o] + 1)
        /\ state' = [state EXCEPT ![o] = "FAULTED"]
        /\ SettleAll(o, "PERSIST_FAILED")
        /\ UNCHANGED <<retries, timer>>
  /\ UNCHANGED <<dirty, pending, latest, goal, durable>>

(* The armed retry runs.  The dirty flag keeps its value, so an edit made  *)
(* while RETRYING is written by this cycle and once more after it.         *)
RetryFires(o) ==
  /\ timer[o] # "none"
  /\ timer' = [timer EXCEPT ![o] = "none"]
  /\ \/ /\ state[o] = "RETRYING"
        /\ state' = [state EXCEPT ![o] = "DRAINING"]
        /\ DispatchWrite(o, pending[o], saves)
     \/ /\ state[o] # "RETRYING"
        /\ UNCHANGED <<state, saves>>
  /\ UNCHANGED <<dirty, pending, retries, registry, promise, latest, goal, durable>>

(* Mutant of Dispose: the registered barriers are not rejected.            *)
DisposeSilently(o) ==
  /\ state[o] # "DISPOSED"
  /\ state'   = [state EXCEPT ![o] = "DISPOSED"]
  /\ timer'   = [timer EXCEPT ![o] = IF @ = "timeout" THEN "none" ELSE @]
  /\ pending' = [pending EXCEPT ![o] = NoPayload]
  /\ UNCHANGED <<dirty, retries, registry, saves, promise, latest, goal, durable>>

(* dispose clears a timeout, but a queued microtask still runs.            *)
Dispose(o) ==
  /\ state[o] # "DISPOSED"
  /\ state'   = [state EXCEPT ![o] = "DISPOSED"]
  /\ timer'   = [timer EXCEPT ![o] = IF @ = "timeout" THEN "none" ELSE @]
  /\ SettleAll(o, "QUEUE_DISPOSED")
  /\ pending' = [pending EXCEPT ![o] = NoPayload]
  /\ UNCHANGED <<dirty, retries, saves, latest, goal, durable>>

-----------------------------------------------------------------------------
SaveReturns(o) ==
  \E s \in SavesOf(o) : SaveIgnored(s) \/ SaveSucceeds(s) \/ SaveFails(s)

Next ==
  \/ \E o \in Workers :
       \/ \E v \in Versions : HandleTrigger(o, v)
       \/ \E c \in Callers : Flush(o, c) \/ BarrierGivesUp(o, c)
       \/ SaveReturns(o)
       \/ RetryFires(o)
       \/ Dispose(o)
  \/ \E s \in saves : SaveLands(s)

Spec == Init /\ [][Next]_vars

(* An outstanding fetch is answered or fails, and a timer or microtask     *)
(* runs: the event loop and the HTTP client provide both.                  *)
Fairness ==
  \A o \in Workers : WF_vars(SaveReturns(o)) /\ WF_vars(RetryFires(o))

FairSpec == Spec /\ Fairness

-----------------------------------------------------------------------------
(* Every variable stays within the values the code can give it.            *)
TypeOK ==
  /\ state    \in [Workers -> WorkerStates]
  /\ dirty    \in [Workers -> BOOLEAN]
  /\ pending  \in [Workers -> Payloads]
  /\ retries  \in [Workers -> 0 .. MaxRetries]
  /\ timer    \in [Workers -> Timers]
  /\ registry \in [Workers -> SUBSET Callers]
  /\ saves    \subseteq Saves
  /\ promise  \in [Workers -> [Callers -> Promises]]
  /\ latest   \in [Workers -> Payloads]
  /\ goal     \in [Workers -> [Callers -> Payloads]]
  /\ durable  \in [Workers -> Payloads]

(* "Enforces Concurrency = 1" (InstanceDrainWorker.ts:29): no interleaving *)
(* of triggers, retries and answers makes a worker have two saves          *)
(* outstanding.                                                            *)
SingleFlight == \A s, t \in saves : s.worker = t.worker => s = t

(* A flush that resolved (InstanceDrainWorker.flush, directly or through   *)
(* resolveAll) told the truth: everything handed to the worker before the  *)
(* call, coalesced edits and retried saves included, is on the disk.       *)
FlushMeansDurable ==
  \A o \in Workers, c \in Callers :
    promise[o][c] = "resolved" => durable[o] >= goal[o][c]

(* No lost update: a worker that reports IDLE has put the newest payload   *)
(* it was given on the disk.                                               *)
IdleMeansDurable == \A o \in Workers : state[o] = "IDLE" => durable[o] = latest[o]

(* No orphan: a barrier waits only in the registry, and only while the     *)
(* worker has a save or a retry outstanding whose end will settle it.      *)
NoOrphanBarrier ==
  \A o \in Workers, c \in Callers : promise[o][c] = "waiting" =>
    /\ c \in registry[o]
    /\ SavesOf(o) # {} \/ timer[o] # "none"

(* The early return of dispatchWrite (no pending payload) is unreachable:  *)
(* a worker about to write always holds the newest payload.                *)
PendingPresent ==
  \A o \in Workers : state[o] \in {"DRAINING", "COALESCING", "RETRYING", "FAULTED"} =>
    pending[o] = latest[o] /\ pending[o] # NoPayload

(* No worker overwrites newer content with older content, whatever fails   *)
(* and is retried in between.                                              *)
WritesInOrder == [][\A o \in Workers : durable'[o] >= durable[o]]_vars

(* Every barrier is settled in the end, provided edits pause (they are     *)
(* bounded here; a worker that is edited for ever never becomes IDLE).     *)
BarrierSettles ==
  \A o \in Workers, c \in Callers :
    promise[o][c] = "waiting" ~> promise[o][c] \notin {"uncalled", "waiting"}

-----------------------------------------------------------------------------
(* The inductive invariant behind the safety properties, in named parts.   *)

Writing(o)  == state[o] \in {"DRAINING", "COALESCING"}

(* A save of a live worker is outstanding exactly while it is writing.     *)
SaveWhileWriting ==
  \A o \in Workers :
    /\ Writing(o) => \E s \in saves : s.worker = o
    /\ state[o] \in {"IDLE", "RETRYING", "FAULTED"} => \A s \in saves : s.worker # o

(* The outstanding save carries content at least as new as the disk, and   *)
(* the newest there is unless the worker is dirty.                         *)
SaveInOrder ==
  \A s \in saves :
    /\ durable[s.worker] <= s.payload /\ s.payload <= latest[s.worker]
    /\ s.landed => durable[s.worker] = s.payload
    /\ Writing(s.worker) /\ ~dirty[s.worker] => s.payload = latest[s.worker]

DirtyFlag ==
  \A o \in Workers :
    /\ state[o] = "IDLE" => ~dirty[o]
    /\ state[o] = "COALESCING" => dirty[o]

(* No lost wakeup: a retry is armed whenever the worker waits for one.     *)
RetryArmed ==
  \A o \in Workers :
    /\ state[o] = "RETRYING" => timer[o] # "none"
    /\ timer[o] # "none" => state[o] \in {"RETRYING", "DISPOSED"}

Bounds ==
  /\ \A o \in Workers : durable[o] <= latest[o]
  /\ \A o \in Workers, c \in Callers : goal[o][c] <= latest[o]

RegistryExact ==
  \A o \in Workers, c \in Callers :
    /\ promise[o][c] = "waiting" <=> c \in registry[o]
    /\ c \in registry[o] => state[o] \in {"DRAINING", "COALESCING", "RETRYING"}

IInv ==
  /\ TypeOK
  /\ SingleFlight
  /\ SaveWhileWriting
  /\ SaveInOrder
  /\ DirtyFlag
  /\ RetryArmed
  /\ Bounds
  /\ RegistryExact
  /\ PendingPresent
  /\ IdleMeansDurable
  /\ FlushMeansDurable

(* The worker implements the register of module DurableRegister.           *)
Register == INSTANCE DurableRegister WITH
  Workers <- Workers, Callers <- Callers, MaxVersion <- MaxVersion, Rejections <- Rejections,
  latest <- latest, durable <- durable, promise <- promise, goal <- goal
RegisterSpec == Register!Spec

=============================================================================
