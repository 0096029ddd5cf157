----------------------------- MODULE DrainQueue -----------------------------
(***************************************************************************)
(* SerializedDrainQueue.ts: the gateway that creates one DrainWorker per   *)
(* instance on demand, evicts it when the instance is deleted, flushes one *)
(* or all of them and is disposed with the server.                         *)
(*                                                                         *)
(* enqueue, evict, flush and dispose are synchronous.  Where the code      *)
(* loops over workers (a global flush, dispose) the loop is a sequence of  *)
(* steps that nothing interleaves with: while todo is not empty only the   *)
(* loop moves.  Every action is put together from actions of DrainWorker,  *)
(* so what is proved of workers holds here as well.                        *)
(***************************************************************************)
EXTENDS DrainWorker

CONSTANTS Instances,  (* instance ids                                       *)
          None        (* no worker, no instance                             *)

ASSUME QueueAssumption == None \notin Workers \cup Instances \cup Callers

VARIABLES
  table,     (* workers: the Map from instance id to worker                 *)
  owner,     (* instanceId of each worker; None until it is constructed     *)
  disposed,  (* isDisposed                                                  *)
  todo,      (* workers the running loop has not reached                    *)
  looping,   (* what that loop does: a caller's global flush, or dispose    *)
  awaits,    (* workers whose promises each caller's flush awaits           *)
  calls,     (* what each caller asked for                                  *)
  disk,      (* content of each instance in the store                       *)
  edits,     (* history: newest payload enqueued for each instance          *)
  wants,     (* history: edits when the caller called flush                 *)
  evicted    (* history: instances evicted at least once                    *)

tableVars   == <<table, owner>>
loopVars    == <<todo, looping>>
callVars    == <<awaits, calls, wants>>
historyVars == <<edits, evicted>>
qvars == <<vars, tableVars, disposed, loopVars, callVars, disk, historyVars>>

Calls == {"uncalled", "refused", "one", "all"}

QInit ==
  /\ Init
  /\ table    = [i \in Instances |-> None]
  /\ owner    = [o \in Workers |-> None]
  /\ disposed = FALSE
  /\ todo     = {}
  /\ looping  = None
  /\ awaits   = [c \in Callers |-> {}]
  /\ calls    = [c \in Callers |-> "uncalled"]
  /\ disk     = [i \in Instances |-> NoPayload]
  /\ edits    = [i \in Instances |-> NoPayload]
  /\ wants    = [c \in Callers |-> [i \in Instances |-> NoPayload]]
  /\ evicted  = {}

Live  == {table[i] : i \in Instances} \ {None}
Fresh == {o \in Workers : owner[o] = None}
Ready == todo = {}

-----------------------------------------------------------------------------
(* Mutant of Enqueue: every trigger gets a worker of its own.              *)
EnqueueAfresh(i) ==
  /\ Ready /\ ~disposed
  /\ edits[i] < MaxVersion
  /\ edits' = [edits EXCEPT ![i] = @ + 1]
  /\ Fresh # {}
  /\ LET o == CHOOSE f \in Fresh : TRUE IN
       /\ HandleTrigger(o, edits[i] + 1)
       /\ table' = [table EXCEPT ![i] = o]
       /\ owner' = [owner EXCEPT ![o] = i]
  /\ UNCHANGED <<disposed, loopVars, callVars, disk, evicted>>

(* enqueue: the worker is created on demand and gets the trigger.  A       *)
(* disposed queue throws, which changes nothing.                           *)
Enqueue(i) ==
  /\ Ready /\ ~disposed
  /\ edits[i] < MaxVersion
  /\ edits' = [edits EXCEPT ![i] = @ + 1]
  /\ \/ /\ table[i] # None
        /\ HandleTrigger(table[i], edits[i] + 1)
        /\ UNCHANGED tableVars
     \/ /\ table[i] = None
        /\ Fresh # {}
        /\ LET o == CHOOSE f \in Fresh : TRUE IN
             /\ HandleTrigger(o, edits[i] + 1)
             /\ table' = [table EXCEPT ![i] = o]
             /\ owner' = [owner EXCEPT ![o] = i]
  /\ UNCHANGED <<disposed, loopVars, callVars, disk, evicted>>

(* Mutants of Evict: the worker is disposed and stays in the table; it is  *)
(* taken out of the table and goes on.                                     *)
EvictInTable(i) ==
  /\ Ready /\ ~disposed
  /\ table[i] # None
  /\ Dispose(table[i])
  /\ evicted' = evicted \cup {i}
  /\ UNCHANGED <<tableVars, disposed, loopVars, callVars, disk, edits>>

EvictUndisposed(i) ==
  /\ Ready /\ ~disposed
  /\ table[i] # None
  /\ table'   = [table EXCEPT ![i] = None]
  /\ evicted' = evicted \cup {i}
  /\ UNCHANGED <<vars, owner, disposed, loopVars, callVars, disk, edits>>

(* enqueue(instance_deleted), or evict itself.                             *)
Evict(i) ==
  /\ Ready /\ ~disposed
  /\ table[i] # None
  /\ Dispose(table[i])
  /\ table'   = [table EXCEPT ![i] = None]
  /\ evicted' = evicted \cup {i}
  /\ UNCHANGED <<owner, disposed, loopVars, callVars, disk, edits>>

-----------------------------------------------------------------------------
(* flush.                                                                  *)

Ask(c, kind, W) ==
  /\ Ready /\ calls[c] = "uncalled"
  /\ calls'  = [calls EXCEPT ![c] = kind]
  /\ awaits' = [awaits EXCEPT ![c] = W]

(* A disposed queue refuses, and so does an aborted signal where there is  *)
(* no worker to ask.                                                       *)
FlushRefused(c) ==
  /\ disposed \/ \E i \in Instances : table[i] = None
  /\ Ask(c, "refused", {})
  /\ UNCHANGED <<vars, tableVars, disposed, loopVars, wants, disk, historyVars>>

(* An instance without a worker has nothing to wait for.                   *)
FlushOne(i, c) ==
  /\ ~disposed
  /\ Ask(c, "one", {table[i]} \ {None})
  /\ wants' = [wants EXCEPT ![c][i] = edits[i]]
  /\ IF table[i] = None THEN UNCHANGED vars ELSE Flush(table[i], c)
  /\ UNCHANGED <<tableVars, disposed, loopVars, disk, historyVars>>

(* Mutant of FlushAll: the promises of the workers are not awaited.        *)
FlushAllUnawaited(c) ==
  /\ ~disposed
  /\ Ask(c, "all", {})
  /\ wants'   = [wants EXCEPT ![c] = edits]
  /\ todo'    = Live
  /\ looping' = c
  /\ UNCHANGED <<vars, tableVars, disposed, disk, historyVars>>

(* A global flush awaits the workers that exist when it is called.         *)
FlushAll(c) ==
  /\ ~disposed
  /\ Ask(c, "all", Live)
  /\ wants'   = [wants EXCEPT ![c] = edits]
  /\ todo'    = Live
  /\ looping' = c
  /\ UNCHANGED <<vars, tableVars, disposed, disk, historyVars>>

FlushAllStep ==
  /\ looping \in Callers
  /\ \E o \in todo : Flush(o, looping) /\ todo' = todo \ {o}
  /\ UNCHANGED <<tableVars, disposed, looping, callVars, disk, historyVars>>

-----------------------------------------------------------------------------
(* Mutant of QueueDispose: the table is emptied before it is looped over.  *)
QueueDisposeEmptied ==
  /\ Ready /\ ~disposed
  /\ disposed' = TRUE
  /\ todo'     = {}
  /\ looping'  = None
  /\ table'    = [i \in Instances |-> None]
  /\ UNCHANGED <<vars, owner, callVars, disk, historyVars>>

(* dispose: the table is emptied, then every worker is disposed.           *)
QueueDispose ==
  /\ Ready /\ ~disposed
  /\ disposed' = TRUE
  /\ todo'     = Live
  /\ looping'  = None
  /\ table'    = [i \in Instances |-> None]
  /\ UNCHANGED <<vars, owner, callVars, disk, historyVars>>

QueueDisposeStep ==
  /\ looping = None
  /\ \E o \in todo : Dispose(o) /\ todo' = todo \ {o}
  /\ UNCHANGED <<tableVars, disposed, looping, callVars, disk, historyVars>>

-----------------------------------------------------------------------------
(* What happens to the workers between two calls of the queue.             *)

Lands(s) ==
  /\ Ready
  /\ SaveLands(s)
  /\ disk' = [disk EXCEPT ![owner[s.worker]] = s.payload]
  /\ UNCHANGED <<tableVars, disposed, loopVars, callVars, historyVars>>

Returns(o) ==
  /\ Ready
  /\ SaveReturns(o)
  /\ UNCHANGED <<tableVars, disposed, loopVars, callVars, disk, historyVars>>

Retries(o) ==
  /\ Ready
  /\ RetryFires(o)
  /\ UNCHANGED <<tableVars, disposed, loopVars, callVars, disk, historyVars>>

GivesUp(o, c) ==
  /\ Ready
  /\ BarrierGivesUp(o, c)
  /\ UNCHANGED <<tableVars, disposed, loopVars, callVars, disk, historyVars>>

QNext ==
  \/ \E i \in Instances : Enqueue(i) \/ Evict(i)
  \/ \E c \in Callers : \/ FlushRefused(c)
                        \/ \E i \in Instances : FlushOne(i, c)
                        \/ FlushAll(c)
  \/ FlushAllStep
  \/ QueueDispose
  \/ QueueDisposeStep
  \/ \E s \in saves : Lands(s)
  \/ \E o \in Workers : \/ Returns(o)
                        \/ Retries(o)
                        \/ \E c \in Callers : GivesUp(o, c)

QSpec == QInit /\ [][QNext]_qvars

(* The loops are synchronous code; answers and timers as for the worker.   *)
QFairness ==
  /\ WF_qvars(FlushAllStep) /\ WF_qvars(QueueDisposeStep)
  /\ \A o \in Workers : WF_qvars(Returns(o)) /\ WF_qvars(Retries(o))

QFairSpec == QSpec /\ QFairness

-----------------------------------------------------------------------------
QTypeOK ==
  /\ TypeOK
  /\ table    \in [Instances -> Workers \cup {None}]
  /\ owner    \in [Workers -> Instances \cup {None}]
  /\ disposed \in BOOLEAN
  /\ todo     \subseteq Workers
  /\ looping  \in Callers \cup {None}
  /\ awaits   \in [Callers -> SUBSET Workers]
  /\ calls    \in [Callers -> Calls]
  /\ disk     \in [Instances -> Payloads]
  /\ edits    \in [Instances -> Payloads]
  /\ wants    \in [Callers -> [Instances -> Payloads]]
  /\ evicted  \subseteq Instances

(* No worker is forgotten alive: one that was created and is no longer in  *)
(* the table is disposed, one in the table is not, and each serves its own *)
(* instance.  (A forgotten worker would retry for ever and race its        *)
(* successor.)                                                             *)
NoForgottenWorker ==
  Ready => \A o \in Workers :
    IF owner[o] = None THEN state[o] = "IDLE" /\ o \notin Live
    ELSE state[o] # "DISPOSED" <=> table[owner[o]] = o

(* What a caller of flush may rely on: when every awaited promise has      *)
(* resolved, everything enqueued for the flushed instances before the call *)
(* is in the store, unless the instance was evicted (deleted).             *)
Resolved(c) ==
  Ready /\ calls[c] \in {"one", "all"} /\ \A o \in awaits[c] : promise[o][c] = "resolved"

QueueFlushMeansDurable ==
  \A c \in Callers : Resolved(c) =>
    \A i \in Instances \ evicted : disk[i] >= wants[c][i]

(* After dispose no caller waits for a worker that will never write again. *)
DisposeLeavesNobodyWaiting ==
  Ready /\ disposed => \A o \in Workers, c \in Callers : promise[o][c] # "waiting"

(* The store never goes back to older content of an instance that was not  *)
(* evicted, whatever fails and is retried.                                 *)
BackwardsOnlyAfterEvict ==
  [][\A i \in Instances : disk'[i] < disk[i] => i \in evicted]_qvars

(* A global flush is answered in the end (once edits pause).               *)
GlobalFlushSettles ==
  \A c \in Callers : calls[c] = "all" ~>
    \/ \A o \in awaits[c] : promise[o][c] = "resolved"
    \/ \E o \in awaits[c] : promise[o][c] \in Rejections

(* The deletion of an instance, and the end of the server, stop its        *)
(* writes: a request starts only from the worker the table holds for the   *)
(* instance.  What was coalesced before evict or dispose, a failure or a   *)
(* success that comes in after it, and a retry it could not cancel (a      *)
(* microtask, InstanceDrainWorker.ts:301) all start none; only the request *)
(* that was outstanding may still land.                                    *)
Requested(s) == s \in saves' \ saves /\ ~s.landed

OnlyRegisteredWrite ==
  [][\A s \in saves' : Requested(s) =>
       owner'[s.worker] # None /\ table'[owner'[s.worker]] = s.worker]_qvars

-----------------------------------------------------------------------------
(* The inductive invariant behind NoForgottenWorker.                        *)

TableOK ==
  /\ table    \in [Instances -> Workers \cup {None}]
  /\ owner    \in [Workers -> Instances \cup {None}]
  /\ edits    \in [Instances -> Payloads]
  /\ disposed \in BOOLEAN
  /\ todo     \subseteq Workers

(* A worker in the table serves the instance it is registered for.          *)
OwnerOK == \A i \in Instances : table[i] # None => owner[table[i]] = i

(* The loop of dispose runs after the table is emptied, over workers that   *)
(* were in it.                                                              *)
LoopOK ==
  /\ looping = None /\ todo # {} => \A i \in Instances : table[i] = None
  /\ \A o \in todo : owner[o] # None

ToDispose(o) == looping = None /\ o \in todo

(* Where each worker stands, also in the middle of a loop.                  *)
LifeOK ==
  \A o \in Workers :
    /\ owner[o] = None => state[o] = "IDLE"
    /\ owner[o] # None => (state[o] # "DISPOSED" <=> table[owner[o]] = o \/ ToDispose(o))

QInv == TableOK /\ OwnerOK /\ LoopOK /\ LifeOK
=============================================================================
