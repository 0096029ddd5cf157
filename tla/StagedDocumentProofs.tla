------------------------ MODULE StagedDocumentProofs ------------------------
(* Proofs about StagedDocument: the safety properties of a document under   *)
(* staged proposals, for every set of threads and readers and every bound.  *)
EXTENDS StagedDocument, TLAPS

(* What a command does to the payload the worker holds: at most its edit is *)
(* added, and the payload is no longer the object in docs.                  *)
LEMMA TouchEffect ==
  ASSUME NEW p \in Payloads, NEW e \in Edits, NEW kind \in Kinds
  PROVE  /\ Touch(p, e, kind) \in Payloads
         /\ Touch(p, e, kind).content \subseteq p.content \cup {e}
         /\ Touch(p, e, kind).link # "same"
BY DEF Touch, Payloads, Links, Kinds

(* The body of a write that starts.                                         *)
LEMMA NewFlight ==
  ASSUME NEW c \in SUBSET Edits
  PROVE  /\ [body |-> c, landed |-> FALSE] \in Flights
         /\ [body |-> c, landed |-> FALSE] # None
         /\ [body |-> c, landed |-> FALSE].body = c
         /\ [body |-> c, landed |-> FALSE].landed = FALSE
<1>1. [body |-> c, landed |-> FALSE] \in Flights
  BY DEF Flights
<1> QED
  BY <1>1, StagedAssumption

(* The parts of the invariant about the worker and what it writes.          *)
WorkerParts ==
  /\ pending \in Payloads /\ phase \in Phases /\ dirty \in BOOLEAN
  /\ flight \in Flights \cup {None}
  /\ pending.content \subseteq Made
  /\ flight # None => flight.body \subseteq Made
  /\ FlightWhileDraining
  /\ HeldPayloadIsCurrent
  /\ CleanFlight
  /\ \A t \in Threads : flight # None => buffers[t] \cap flight.body = {}
  /\ SettledMeansSaved

(* Handing the document to the worker, with no proposal added, keeps the    *)
(* worker's part of the invariant.                                          *)
LEMMA EnqueueKeepsWorker ==
  ASSUME SInv, Made \subseteq Made', doc' \subseteq Made', doc' \subseteq Edits,
         Enqueue(doc', buffers'),
         \A t \in Threads : buffers'[t] \subseteq buffers[t],
         UNCHANGED <<disk, restore>>
  PROVE  WorkerParts'
<1> DEFINE payload == [content |-> doc', link |-> "same"]
<1>1. Made \subseteq Made'
  OBVIOUS
<1>2. payload \in Payloads /\ payload.content = doc' /\ payload.link = "same"
  BY DEF Payloads, Links, Edits
<1>3. pending' = payload
  BY DEF Enqueue, Dispatch
<1>4. /\ pending' \in Payloads
      /\ pending'.content \subseteq Made'
      /\ HeldPayloadIsCurrent'
  BY <1>2, <1>3 DEF HeldPayloadIsCurrent
<1>5. CASE phase \in {"IDLE", "FAULTED"} /\ Dispatch(payload, buffers') /\ Proposed(buffers')
  <2>1. phase' = "IDLE" /\ flight' = None /\ dirty' = FALSE
    BY <1>5 DEF Dispatch
  <2>2. Proposed(buffers)'
    BY <1>5 DEF Proposed
  <2> QED
    BY <1>4, <2>1, <2>2
    DEF WorkerParts, Phases, FlightWhileDraining, CleanFlight, SettledMeansSaved
<1>6. CASE phase \in {"IDLE", "FAULTED"} /\ Dispatch(payload, buffers') /\ ~Proposed(buffers')
  <2>1. /\ phase' = "DRAINING" /\ dirty' = FALSE
        /\ flight' = [body |-> doc', landed |-> FALSE]
    BY <1>6, <1>2 DEF Dispatch
  <2>2. /\ flight' \in Flights /\ flight' # None
        /\ flight'.body = doc' /\ flight'.landed = FALSE
    BY <2>1, NewFlight
  <2>3. \A t \in Threads : buffers'[t] = {}
    BY <1>6 DEF Proposed
  <2> QED
    BY <1>4, <2>1, <2>2, <2>3
    DEF WorkerParts, Phases, FlightWhileDraining, CleanFlight, SettledMeansSaved, Made
<1>7. CASE /\ phase \in {"DRAINING", "RETRYING"}
           /\ dirty' = TRUE /\ UNCHANGED <<phase, flight>>
  <2>1. /\ phase \in Phases /\ flight \in Flights \cup {None}
        /\ flight # None => flight.body \subseteq Made
        /\ \A t \in Threads : flight # None => buffers[t] \cap flight.body = {}
        /\ FlightWhileDraining
    BY DEF SInv, StagedTypeOK, MadeOnly, OpenProposalsOffDisk
  <2> QED
    BY <1>1, <1>4, <1>7, <2>1
    DEF WorkerParts, FlightWhileDraining, CleanFlight, SettledMeansSaved
<1> QED
  BY <1>5, <1>6, <1>7 DEF Enqueue

-----------------------------------------------------------------------------
(* The parts about the reviewed document and the store.                     *)
DocumentParts ==
  /\ doc \subseteq Edits /\ seq \in 0 .. MaxEdits
  /\ buffers \in [Threads -> SUBSET Edits]
  /\ baseline \in Baselines \cup {None}
  /\ disk \subseteq Edits
  /\ restore \in {"none", "flushed", "stored"}
  /\ views \in [Readers -> Versions \cup {None}]
  /\ seq <= edits
  /\ doc \subseteq Made /\ disk \subseteq Made
  /\ \A t \in Threads : buffers[t] \subseteq Made
  /\ baseline # None => baseline.content \subseteq Made
  /\ \A t \in Threads : buffers[t] \cap disk = {}
  /\ BaselineWithProposals

HistoryParts ==
  /\ edits    \in 0 .. MaxEdits
  /\ direct   \subseteq Edits
  /\ accepted \subseteq Edits
  /\ restores \in 0 .. MaxRestores

(* The invariant is the conjunction of the three groups.                    *)
LEMMA PartsOfSInv == SInv <=> WorkerParts /\ DocumentParts /\ HistoryParts
BY DEF SInv, StagedTypeOK, MadeOnly, OpenProposalsOffDisk, WorkerParts, DocumentParts,
       HistoryParts

(* The same of the next state.                                              *)
LEMMA NextPartsOfSInv == WorkerParts' /\ DocumentParts' /\ HistoryParts' => SInv'
BY DEF SInv, StagedTypeOK, MadeOnly, OpenProposalsOffDisk, WorkerParts, DocumentParts,
       HistoryParts

(* The invariant holds initially.                                           *)
LEMMA StagedInit == Init => SInv
<1> SUFFICES ASSUME Init PROVE SInv
  OBVIOUS
<1>1. pending \in Payloads /\ pending.link = "none" /\ pending.content = {}
  BY DEF Init, Initial, Payloads, Links
<1>2. WorkerParts
  BY <1>1
  DEF Init, Initial, WorkerParts, Made, Phases, FlightWhileDraining, HeldPayloadIsCurrent,
      CleanFlight, SettledMeansSaved
<1>3. \A t \in Threads : buffers[t] = {}
  BY DEF Init
<1>4. DocumentParts
  BY <1>3, StagedAssumption
  DEF Init, Initial, DocumentParts, Made, BaselineWithProposals, Proposed
<1>5. HistoryParts
  BY StagedAssumption DEF Init, HistoryParts
<1> QED
  BY <1>2, <1>4, <1>5, PartsOfSInv

(* Steps that change only the worker and the store.                         *)
LEMMA WorkerSteps ==
  ASSUME SInv, SaveLands \/ SaveSucceeds \/ SaveFails \/ RetryFires
  PROVE  SInv'
<1>1. WorkerParts /\ DocumentParts /\ HistoryParts
  BY PartsOfSInv
<1>2. UNCHANGED <<memory, restore, views, history>>
  BY DEF SaveLands, SaveSucceeds, SaveFails, RetryFires
<1>3. HistoryParts'
  BY <1>1, <1>2 DEF HistoryParts, history
<1>4. None \notin Flights
  BY StagedAssumption
<1>5. CASE SaveLands
  <2>1. /\ flight \in Flights /\ flight' \in Flights /\ flight' # None
        /\ flight'.body = flight.body /\ flight'.landed = TRUE
        /\ disk' = flight.body
    BY <1>1, <1>4, <1>5 DEF SaveLands, WorkerParts, Flights
  <2>2. DocumentParts'
    BY <1>1, <1>2, <1>4, <2>1
    DEF DocumentParts, WorkerParts, BaselineWithProposals, Proposed, Made, memory, history, Flights
  <2>3. UNCHANGED <<phase, dirty, pending>>
    BY <1>5 DEF SaveLands
  <2>4. phase = "DRAINING"
    BY <1>1, <1>4, <2>1 DEF WorkerParts, FlightWhileDraining
  <2>5. CleanFlight' /\ SettledMeansSaved' /\ HeldPayloadIsCurrent' /\ FlightWhileDraining'
    BY <1>1, <1>2, <1>4, <2>1, <2>3, <2>4
    DEF WorkerParts, FlightWhileDraining, HeldPayloadIsCurrent, CleanFlight,
        SettledMeansSaved, memory
  <2>6. WorkerParts'
    BY <1>1, <1>2, <1>4, <2>1, <2>3, <2>5 DEF WorkerParts, Made, memory, history
  <2> QED
    BY <1>3, <2>2, <2>6, NextPartsOfSInv
<1>6. CASE SaveFails
  <2>1. /\ phase' \in {"RETRYING", "FAULTED"} /\ flight' = None
        /\ UNCHANGED <<dirty, pending, disk>>
    BY <1>6 DEF SaveFails
  <2>2. DocumentParts'
    BY <1>1, <1>2, <2>1
    DEF DocumentParts, BaselineWithProposals, Proposed, Made, memory, history
  <2>3. WorkerParts'
    BY <1>1, <1>2, <2>1
    DEF WorkerParts, Made, memory, history, Phases, FlightWhileDraining,
        HeldPayloadIsCurrent, CleanFlight, SettledMeansSaved
  <2> QED
    BY <1>3, <2>2, <2>3, NextPartsOfSInv
<1>7. ASSUME UNCHANGED <<pending, disk>>, phase' = "IDLE", flight' = None,
             dirty' \in BOOLEAN,
             SettledMeansSaved'
      PROVE  SInv'
  <2>1. DocumentParts'
    BY <1>1, <1>2, <1>7
    DEF DocumentParts, BaselineWithProposals, Proposed, Made, memory, history
  <2>2. WorkerParts'
    BY <1>1, <1>2, <1>7
    DEF WorkerParts, Made, memory, history, Phases, FlightWhileDraining,
        HeldPayloadIsCurrent, CleanFlight
  <2> QED
    BY <1>3, <2>1, <2>2, NextPartsOfSInv
<1>8. ASSUME UNCHANGED <<pending, disk>>, phase' = "DRAINING", ~Proposed(buffers),
             dirty' \in BOOLEAN,
             flight' = [body |-> pending.content, landed |-> FALSE]
      PROVE  SInv'
  <2>1. DocumentParts'
    BY <1>1, <1>2, <1>8
    DEF DocumentParts, BaselineWithProposals, Proposed, Made, memory, history
  <2>2. pending.content \in SUBSET Edits
    BY <1>1 DEF WorkerParts, Payloads
  <2>3. /\ flight' \in Flights /\ flight' # None
        /\ flight'.body = pending.content /\ flight'.landed = FALSE
    BY <1>8, <2>2, NewFlight
  <2>4. \A t \in Threads : buffers'[t] = {}
    BY <1>2, <1>8 DEF Proposed, memory
  <2>5. WorkerParts'
    BY <1>1, <1>2, <1>8, <2>3, <2>4
    DEF WorkerParts, Made, memory, history, Phases, FlightWhileDraining,
        HeldPayloadIsCurrent, CleanFlight, SettledMeansSaved
  <2> QED
    BY <1>3, <2>1, <2>5, NextPartsOfSInv
<1>9. CASE SaveSucceeds /\ dirty /\ Dispatch(pending, buffers)
  <2>1. CASE Proposed(buffers)
    <3>1. Proposed(buffers)'
      BY <1>2, <2>1 DEF Proposed, memory
    <3> QED
      BY <1>7, <1>9, <2>1, <3>1 DEF SaveSucceeds, Dispatch, SettledMeansSaved
  <2>2. CASE ~Proposed(buffers)
    BY <1>8, <1>9, <2>2 DEF SaveSucceeds, Dispatch
  <2> QED
    BY <2>1, <2>2
<1>10. CASE SaveSucceeds /\ ~dirty /\ phase' = "IDLE" /\ flight' = None
            /\ UNCHANGED <<dirty, pending>>
  <2>1. SettledMeansSaved'
    BY <1>1, <1>2, <1>10
    DEF SaveSucceeds, WorkerParts, CleanFlight, SettledMeansSaved, memory
  <2> QED
    BY <1>1, <1>7, <1>10, <2>1 DEF SaveSucceeds, WorkerParts
<1>11. CASE RetryFires
  <2>1. CASE Proposed(buffers)
    <3>1. Proposed(buffers)'
      BY <1>2, <2>1 DEF Proposed, memory
    <3> QED
      BY <1>7, <1>11, <2>1, <3>1 DEF RetryFires, Dispatch, SettledMeansSaved
  <2>2. CASE ~Proposed(buffers)
    BY <1>1, <1>8, <1>11, <2>2 DEF RetryFires, WorkerParts
  <2> QED
    BY <2>1, <2>2
<1> QED
  BY <1>5, <1>6, <1>9, <1>10, <1>11 DEF SaveSucceeds

-----------------------------------------------------------------------------
(* What one edit does, however it reaches the document: the number of       *)
(* edits grows by one, and the edit is new to everything in sight.          *)
LEMMA ApplyEffect ==
  ASSUME SInv, NEW e \in Edits, NEW kind \in Kinds, Apply(e, kind)
  PROVE  /\ e = edits + 1 /\ edits' = edits + 1 /\ seq' = seq + 1
         /\ edits' \in 0 .. MaxEdits /\ seq' \in 0 .. MaxEdits /\ seq' <= edits'
         /\ Made' = Made \cup {e} /\ e \notin Made
         /\ doc' \subseteq doc \cup {e} /\ doc' \subseteq Made' /\ doc' \subseteq Edits
<1>1. /\ edits \in 0 .. MaxEdits /\ seq \in 0 .. MaxEdits /\ seq <= edits
      /\ doc \subseteq Edits /\ doc \subseteq Made
  BY DEF SInv, StagedTypeOK, MadeOnly
<1>2. /\ e = edits + 1 /\ edits' = edits + 1 /\ seq' = seq + 1
      /\ doc' \subseteq doc \cup {e} /\ edits < MaxEdits
  BY DEF Apply
<1>3. Made' = Made \cup {e} /\ e \notin Made
  BY <1>1, <1>2, StagedAssumption DEF Made
<1> QED
  BY <1>1, <1>2, <1>3, StagedAssumption

(* A staged command keeps the invariant.                                    *)
LEMMA StagedCommandStep ==
  ASSUME SInv, NEW t \in Threads, NEW kind \in Kinds, StagedCommand(t, kind),
         UNCHANGED <<disk, restore, accepted, restores>>,
         views' \in [Readers -> Versions \cup {None}]
  PROVE  SInv'
<1>1. WorkerParts /\ DocumentParts /\ HistoryParts
  BY PartsOfSInv
<1>2. PICK e \in Edits :
        /\ Apply(e, kind)
        /\ baseline' = Capture(e, kind)
        /\ buffers'  = [buffers EXCEPT ![t] = @ \cup {e}]
        /\ pending'  = Touch(pending, e, kind)
        /\ UNCHANGED <<phase, dirty, flight, direct>>
  BY DEF StagedCommand
<1>3. /\ e = edits + 1 /\ edits' = edits + 1 /\ seq' = seq + 1
      /\ edits' \in 0 .. MaxEdits /\ seq' \in 0 .. MaxEdits /\ seq' <= edits'
      /\ Made' = Made \cup {e} /\ e \notin Made
      /\ doc' \subseteq doc \cup {e} /\ doc' \subseteq Made' /\ doc' \subseteq Edits
  BY <1>2, ApplyEffect
<1>4. /\ buffers' \in [Threads -> SUBSET Edits]
      /\ buffers'[t] = buffers[t] \cup {e}
      /\ \A u \in Threads : buffers'[u] \subseteq buffers[u] \cup {e}
  BY <1>1, <1>2 DEF DocumentParts
<1>5. /\ pending' \in Payloads /\ pending'.content \subseteq Made'
      /\ pending'.link # "same"
  BY <1>1, <1>2, <1>3, TouchEffect DEF WorkerParts
<1>6. WorkerParts'
  <2>1. \A u \in Threads : flight' # None => buffers'[u] \cap flight'.body = {}
    BY <1>1, <1>2, <1>3, <1>4 DEF WorkerParts
  <2>2. HeldPayloadIsCurrent' /\ CleanFlight' /\ SettledMeansSaved'
    BY <1>5 DEF HeldPayloadIsCurrent, CleanFlight, SettledMeansSaved
  <2>3. FlightWhileDraining'
    BY <1>1, <1>2 DEF WorkerParts, FlightWhileDraining
  <2> QED
    BY <1>1, <1>2, <1>3, <1>5, <2>1, <2>2, <2>3 DEF WorkerParts
<1>7. /\ baseline' \in Baselines \cup {None} /\ baseline' # None
      /\ baseline'.content \subseteq Made'
  <2>1. CASE baseline # None
    BY <1>1, <1>2, <1>3, <2>1 DEF Capture, DocumentParts
  <2>2. CASE baseline = None
    <3> DEFINE c == IF kind = "replace" THEN doc ELSE doc \cup {e}
    <3>1. baseline' = [content |-> c]
      BY <1>2, <2>2 DEF Capture
    <3>2. c \in SUBSET Edits /\ c \subseteq Made'
      BY <1>1, <1>3 DEF DocumentParts
    <3>3. [content |-> c] \in Baselines /\ [content |-> c].content = c
      BY <3>2 DEF Baselines
    <3> QED
      BY <3>1, <3>2, <3>3, StagedAssumption
  <2> QED
    BY <2>1, <2>2
<1>8. DocumentParts'
  <2>1. BaselineWithProposals'
    BY <1>4, <1>7 DEF BaselineWithProposals, Proposed
  <2>2. disk' \subseteq Made' /\ \A u \in Threads : buffers'[u] \cap disk' = {}
    BY <1>1, <1>3, <1>4 DEF DocumentParts
  <2>3. \A u \in Threads : buffers'[u] \subseteq Made'
    BY <1>1, <1>3, <1>4 DEF DocumentParts
  <2> QED
    BY <1>1, <1>3, <1>4, <1>7, <2>1, <2>2, <2>3 DEF DocumentParts
<1>9. HistoryParts'
  BY <1>1, <1>2, <1>3 DEF HistoryParts
<1> QED
  BY <1>6, <1>8, <1>9, NextPartsOfSInv

(* A direct edit, by a command or a full update, keeps the invariant.       *)
LEMMA DirectEditStep ==
  ASSUME SInv, NEW e \in Edits,
         e = edits + 1, edits' = e, edits' \in 0 .. MaxEdits,
         doc' \subseteq doc \cup {e}, doc' \subseteq Edits,
         seq' \in 0 .. MaxEdits, seq' <= edits',
         Enqueue(doc', buffers), direct' = direct \cup {e},
         UNCHANGED <<buffers, baseline, disk, restore, accepted, restores>>,
         views' \in [Readers -> Versions \cup {None}]
  PROVE  SInv'
<1>1. WorkerParts /\ DocumentParts /\ HistoryParts
  BY PartsOfSInv
<1>2. Made' = Made \cup {e} /\ doc' \subseteq Made'
  BY <1>1, StagedAssumption DEF Made, HistoryParts, DocumentParts
<1>3. WorkerParts'
  <2>1. Enqueue(doc', buffers')
    BY DEF Enqueue, Dispatch
  <2> QED
    BY <1>2, <2>1, EnqueueKeepsWorker
<1>4. DocumentParts'
  BY <1>1, <1>2 DEF DocumentParts, BaselineWithProposals, Proposed
<1>5. HistoryParts'
  BY <1>1 DEF HistoryParts
<1> QED
  BY <1>3, <1>4, <1>5, NextPartsOfSInv

(* A command, with whatever reading its sender keeps, keeps the invariant.  *)
LEMMA SyncCommandStep ==
  ASSUME SInv, NEW kind \in Kinds, SyncCommand(kind),
         views' \in [Readers -> Versions \cup {None}]
  PROVE  SInv'
<1>1. UNCHANGED <<disk, restore, accepted, restores>>
  BY DEF SyncCommand
<1>2. CASE DirectCommand(kind)
  <2>1. PICK e \in Edits : /\ Apply(e, kind)
                           /\ Enqueue(doc', buffers)
                           /\ direct' = direct \cup {e}
                           /\ UNCHANGED <<buffers, baseline>>
    BY <1>2 DEF DirectCommand
  <2>2. /\ e = edits + 1 /\ edits' = edits + 1
        /\ edits' \in 0 .. MaxEdits /\ seq' \in 0 .. MaxEdits /\ seq' <= edits'
        /\ doc' \subseteq doc \cup {e} /\ doc' \subseteq Edits
    BY <2>1, ApplyEffect
  <2> QED
    BY <1>1, <2>1, <2>2, DirectEditStep
<1>3. CASE \E t \in Threads : StagedCommand(t, kind)
  BY <1>1, <1>3, StagedCommandStep
<1> QED
  BY <1>2, <1>3 DEF SyncCommand

-----------------------------------------------------------------------------
(* What a review leaves of the proposals.                                   *)
LEMMA ClearedEffect ==
  ASSUME NEW T \in SUBSET Threads, buffers \in [Threads -> SUBSET Edits]
  PROVE  /\ Cleared(T) \in [Threads -> SUBSET Edits]
         /\ \A t \in Threads : Cleared(T)[t] \subseteq buffers[t]
         /\ Buffered(T) \subseteq Edits
<1>1. Cleared(T) \in [Threads -> SUBSET Edits]
  BY DEF Cleared
<1>2. \A t \in Threads : Cleared(T)[t] \subseteq buffers[t]
  BY DEF Cleared
<1>3. Buffered(T) \subseteq Edits
  BY DEF Buffered
<1> QED
  BY <1>1, <1>2, <1>3

(* The baseline that a review leaves exists exactly with proposals left.    *)
LEMMA ReviewedDocument ==
  ASSUME SInv, NEW T \in SUBSET Threads, buffers' = Cleared(T),
         baseline' = IF Proposed(Cleared(T)) THEN baseline ELSE None,
         doc' \subseteq Edits, doc' \subseteq Made,
         UNCHANGED <<seq, disk, restore, views, edits>>
  PROVE  DocumentParts'
<1>1. DocumentParts
  BY PartsOfSInv
<1>2. Made' = Made
  BY DEF Made
<1>3. /\ buffers' \in [Threads -> SUBSET Edits]
      /\ \A t \in Threads : buffers'[t] \subseteq buffers[t]
  BY <1>1, ClearedEffect DEF DocumentParts
<1>4. Proposed(buffers)' => Proposed(buffers)
  BY <1>3 DEF Proposed
<1>5. Proposed(buffers)' <=> Proposed(Cleared(T))
  BY DEF Proposed
<1>6. /\ baseline' \in Baselines \cup {None}
      /\ baseline' # None => baseline' = baseline
      /\ BaselineWithProposals'
  BY <1>1, <1>4, <1>5 DEF DocumentParts, BaselineWithProposals
<1>7. /\ \A t \in Threads : buffers'[t] \subseteq Made'
      /\ \A t \in Threads : buffers'[t] \cap disk' = {}
  BY <1>1, <1>2, <1>3 DEF DocumentParts
<1> QED
  BY <1>1, <1>2, <1>3, <1>6, <1>7 DEF DocumentParts

(* Accepting proposals keeps the invariant.                                 *)
LEMMA AcceptStep ==
  ASSUME SInv, NEW T \in SUBSET Threads, AcceptChanges(T)
  PROVE  SInv'
<1>1. WorkerParts /\ DocumentParts /\ HistoryParts
  BY PartsOfSInv
<1>2. /\ buffers' = Cleared(T)
      /\ baseline' = IF Proposed(Cleared(T)) THEN baseline ELSE None
      /\ Enqueue(doc, Cleared(T))
      /\ accepted' = accepted \cup Buffered(T)
      /\ UNCHANGED <<doc, seq, disk, restore, views, edits, direct, restores>>
  BY DEF AcceptChanges
<1>3. /\ \A t \in Threads : buffers'[t] \subseteq buffers[t]
      /\ Buffered(T) \subseteq Edits
  BY <1>1, <1>2, ClearedEffect DEF DocumentParts
<1>4. Made' = Made /\ doc' \subseteq Edits /\ doc' \subseteq Made
  BY <1>1, <1>2 DEF Made, DocumentParts
<1>5. Enqueue(doc', buffers')
  BY <1>2 DEF Enqueue, Dispatch
<1>6. WorkerParts'
  BY <1>2, <1>3, <1>4, <1>5, EnqueueKeepsWorker
<1>7. DocumentParts'
  BY <1>2, <1>4, ReviewedDocument
<1>8. HistoryParts'
  BY <1>1, <1>2, <1>3 DEF HistoryParts
<1> QED
  BY <1>6, <1>7, <1>8, NextPartsOfSInv

(* When the object in docs is replaced and the worker is left alone, its    *)
(* part of the invariant holds: it no longer holds the object in docs.      *)
LEMMA ReplacedObject ==
  ASSUME SInv, pending' = [pending EXCEPT !.link = "none"],
         \A t \in Threads : buffers'[t] \subseteq buffers[t],
         UNCHANGED <<phase, dirty, flight, edits>>
  PROVE  WorkerParts'
<1>1. WorkerParts
  BY PartsOfSInv
<1>2. /\ pending' \in Payloads /\ pending'.content = pending.content
      /\ pending'.link = "none"
  BY <1>1 DEF WorkerParts, Payloads, Links
<1>3. Made' = Made
  BY DEF Made
<1>4. HeldPayloadIsCurrent' /\ CleanFlight' /\ SettledMeansSaved'
  BY <1>2 DEF HeldPayloadIsCurrent, CleanFlight, SettledMeansSaved
<1>5. FlightWhileDraining'
  BY <1>1 DEF WorkerParts, FlightWhileDraining
<1>6. \A t \in Threads : flight' # None => buffers'[t] \cap flight'.body = {}
  BY <1>1 DEF WorkerParts
<1> QED
  BY <1>1, <1>2, <1>3, <1>4, <1>5, <1>6 DEF WorkerParts

(* Rejecting proposals keeps the invariant.                                 *)
LEMMA RejectStep ==
  ASSUME SInv, NEW T \in SUBSET Threads, RejectChanges(T)
  PROVE  SInv'
<1>1. WorkerParts /\ DocumentParts /\ HistoryParts
  BY PartsOfSInv
<1>2. /\ doc' = IF baseline # None THEN baseline.content ELSE doc \ Buffered(T)
      /\ buffers' = Cleared(T)
      /\ baseline' = IF Proposed(Cleared(T)) THEN baseline ELSE None
      /\ pending' = [pending EXCEPT !.link = "none"]
      /\ UNCHANGED <<seq, phase, dirty, flight, disk, restore, views, history>>
  BY DEF RejectChanges
<1>3. \A t \in Threads : buffers'[t] \subseteq buffers[t]
  BY <1>1, <1>2, ClearedEffect DEF DocumentParts
<1>4. doc' \subseteq Edits /\ doc' \subseteq Made
  BY <1>1, <1>2 DEF DocumentParts, Baselines
<1>5. WorkerParts'
  BY <1>2, <1>3, ReplacedObject DEF history
<1>6. DocumentParts'
  BY <1>2, <1>4, ReviewedDocument DEF history
<1>7. HistoryParts'
  BY <1>1, <1>2 DEF HistoryParts, history
<1> QED
  BY <1>5, <1>6, <1>7, NextPartsOfSInv

-----------------------------------------------------------------------------
(* A full update keeps the invariant.                                       *)
LEMMA UpdateStep ==
  ASSUME SInv, Update
  PROVE  SInv'
<1>1. /\ edits \in 0 .. MaxEdits /\ seq \in 0 .. MaxEdits /\ seq <= edits
      /\ doc \subseteq Edits /\ views \in [Readers -> Versions \cup {None}]
  BY DEF SInv, StagedTypeOK, MadeOnly
<1>2. /\ edits < MaxEdits /\ edits' = edits + 1 /\ doc' = doc \cup {edits + 1}
      /\ Enqueue(doc', buffers) /\ direct' = direct \cup {edits + 1}
      /\ UNCHANGED <<seq, buffers, baseline, disk, restore, views, accepted, restores>>
  BY DEF Update
<1>3. /\ edits + 1 \in Edits /\ edits' \in 0 .. MaxEdits
      /\ seq' \in 0 .. MaxEdits /\ seq' <= edits'
  BY <1>1, <1>2, StagedAssumption DEF Edits
<1> QED
  BY <1>1, <1>2, <1>3, DirectEditStep

(* Reading, the first two phases of a restore and stuttering steps leave    *)
(* the document, its proposals and the worker as they are.                  *)
LEMMA SameDocument ==
  ASSUME SInv, UNCHANGED <<memory, worker, edits>>,
         views' \in [Readers -> Versions \cup {None}],
         HistoryParts',
         \/ UNCHANGED disk /\ restore' = restore
         \/ UNCHANGED disk /\ restore = "none" /\ restore' = "flushed"
         \/ disk' = Initial /\ restore' = "stored"
  PROVE  SInv'
<1>1. WorkerParts /\ DocumentParts /\ HistoryParts
  BY PartsOfSInv
<1>2. UNCHANGED <<doc, seq, buffers, baseline, phase, dirty, pending, flight>> /\ Made' = Made
  BY DEF memory, worker, Made
<1>3. Proposed(buffers)' <=> Proposed(buffers)
  BY <1>2 DEF Proposed
<1>4. restore' # "stored" => restore # "stored" /\ disk' = disk
  OBVIOUS
<1>5. WorkerParts'
  <2>1. FlightWhileDraining' /\ HeldPayloadIsCurrent' /\ CleanFlight' /\ SettledMeansSaved'
    BY <1>1, <1>2, <1>3, <1>4
    DEF WorkerParts, FlightWhileDraining, HeldPayloadIsCurrent, CleanFlight, SettledMeansSaved
  <2> QED
    BY <1>1, <1>2, <2>1 DEF WorkerParts
<1>6. DocumentParts'
  <2>1. BaselineWithProposals'
    BY <1>1, <1>2, <1>3 DEF DocumentParts, BaselineWithProposals
  <2>2. /\ disk' \subseteq Edits /\ disk' \subseteq Made'
        /\ \A t \in Threads : buffers'[t] \cap disk' = {}
    BY <1>1, <1>2 DEF DocumentParts, Initial
  <2> QED
    BY <1>1, <1>2, <2>1, <2>2 DEF DocumentParts
<1> QED
  BY <1>5, <1>6, NextPartsOfSInv

(* Reading the document keeps the invariant.                                *)
LEMMA ReadStep ==
  ASSUME SInv, NEW r \in Readers, ReadSnapshot(r)
  PROVE  SInv'
<1>1. WorkerParts /\ DocumentParts /\ HistoryParts
  BY PartsOfSInv
<1>2. /\ views' = [views EXCEPT ![r] = seq]
      /\ UNCHANGED <<memory, worker, disk, restore, history>>
  BY DEF ReadSnapshot
<1>3. seq \in Versions
  BY <1>1 DEF Versions, DocumentParts
<1>4. views' \in [Readers -> Versions \cup {None}]
  BY <1>1, <1>2, <1>3 DEF DocumentParts
<1>5. HistoryParts' /\ edits' = edits
  BY <1>1, <1>2 DEF HistoryParts, history
<1> QED
  BY <1>2, <1>4, <1>5, SameDocument

(* The three phases of a restore keep the invariant.                        *)
LEMMA RestoreSteps ==
  ASSUME SInv, RestoreFlush \/ RestoreStore \/ RestoreNotice
  PROVE  SInv'
<1>1. WorkerParts /\ DocumentParts /\ HistoryParts
  BY PartsOfSInv
<1>2. CASE RestoreFlush
  <2>1. /\ restore = "none" /\ restore' = "flushed"
        /\ restores < MaxRestores /\ restores' = restores + 1
        /\ UNCHANGED <<memory, worker, disk, views, edits, direct, accepted>>
    BY <1>2 DEF RestoreFlush
  <2>2. HistoryParts'
    BY <1>1, <2>1, StagedAssumption DEF HistoryParts
  <2> QED
    BY <1>1, <2>1, <2>2, SameDocument DEF DocumentParts
<1>3. CASE RestoreStore
  <2>1. /\ restore' = "stored" /\ disk' = Initial
        /\ UNCHANGED <<memory, worker, views, edits, direct, accepted, restores>>
    BY <1>3 DEF RestoreStore
  <2>2. HistoryParts'
    BY <1>1, <2>1, StagedAssumption DEF HistoryParts, Edits
  <2> QED
    BY <1>1, <2>1, <2>2, SameDocument DEF DocumentParts
<1>4. CASE RestoreNotice
  <2>1. /\ restore' = "none" /\ doc' = {} /\ seq' = 0
        /\ buffers' = [t \in Threads |-> {}] /\ baseline' = None
        /\ pending' = [pending EXCEPT !.link = "none"]
        /\ UNCHANGED <<phase, dirty, flight, disk, views, history>>
    BY <1>4 DEF RestoreNotice, Initial
  <2>2. \A t \in Threads : buffers'[t] = {}
    BY <2>1
  <2>3. edits' = edits /\ Made' = Made
    BY <2>1 DEF history, Made
  <2>4. WorkerParts'
    BY <2>1, <2>2, <2>3, ReplacedObject
  <2>5. BaselineWithProposals'
    BY <2>1, <2>2 DEF BaselineWithProposals, Proposed
  <2>6. DocumentParts'
    BY <1>1, <2>1, <2>2, <2>3, <2>5, StagedAssumption DEF DocumentParts, HistoryParts
  <2>7. HistoryParts'
    BY <1>1, <2>1 DEF HistoryParts, history
  <2> QED
    BY <2>4, <2>6, <2>7, NextPartsOfSInv
<1> QED
  BY <1>2, <1>3, <1>4

(* Every step keeps the invariant.                                          *)
LEMMA StagedNext == SInv /\ [Next]_vars => SInv'
<1> SUFFICES ASSUME SInv, [Next]_vars PROVE SInv'
  OBVIOUS
<1>1. views \in [Readers -> Versions \cup {None}]
  BY DEF SInv, StagedTypeOK
<1>2. CASE BlindCommand
  <2>1. PICK kind \in Kinds : SyncCommand(kind) /\ UNCHANGED views
    BY <1>2 DEF BlindCommand
  <2> QED
    BY <1>1, <2>1, SyncCommandStep
<1>3. ASSUME NEW r \in Readers, CheckedCommand(r)
      PROVE  SInv'
  <2>1. PICK kind \in Kinds : SyncCommand(kind)
    BY <1>3 DEF CheckedCommand
  <2>2. views' \in [Readers -> Versions \cup {None}]
    BY <1>1, <1>3 DEF CheckedCommand
  <2> QED
    BY <2>1, <2>2, SyncCommandStep
<1>4. ASSUME NEW T \in Review, AcceptChanges(T) \/ RejectChanges(T)
      PROVE  SInv'
  <2>1. T \in SUBSET Threads
    BY DEF Review
  <2> QED
    BY <1>4, <2>1, AcceptStep, RejectStep
<1>5. CASE UNCHANGED vars
  <2>1. UNCHANGED <<memory, worker, disk, restore, views, history>>
    BY <1>5 DEF vars
  <2>2. HistoryParts' /\ edits' = edits /\ views' = views
    BY <2>1, PartsOfSInv DEF HistoryParts, history
  <2> QED
    BY <1>1, <2>1, <2>2, SameDocument
<1> QED
  BY <1>2, <1>3, <1>4, <1>5, ReadStep, UpdateStep, RestoreSteps, WorkerSteps DEF Next

-----------------------------------------------------------------------------
(* Every reachable state of the document satisfies the invariant.           *)
THEOREM StagedInvariance == Spec => []SInv
BY StagedInit, StagedNext, PTL DEF Spec

(* The maps and the worker of a document only hold values the code gives    *)
(* them, for any number of threads, readers, edits and restores.            *)
THEOREM StagedTypeCorrect == Spec => []StagedTypeOK
<1>1. SInv => StagedTypeOK
  BY DEF SInv
<1> QED
  BY <1>1, StagedInvariance, PTL

(* saveInstance: while a proposal is open, its edits are neither in the     *)
(* store nor in a write on its way.                                         *)
THEOREM OpenProposalsStayOffDisk == Spec => []OpenProposalsOffDisk
<1>1. SInv => OpenProposalsOffDisk
  BY DEF SInv
<1> QED
  BY <1>1, StagedInvariance, PTL

(* When the worker of a document without proposals is idle and still holds  *)
(* the object in docs, the document is in the store.                        *)
THEOREM SettledIsSaved == Spec => []SettledMeansSaved
<1>1. SInv => SettledMeansSaved
  BY DEF SInv
<1> QED
  BY <1>1, StagedInvariance, PTL
=============================================================================
