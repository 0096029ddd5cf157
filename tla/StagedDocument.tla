--------------------------- MODULE StagedDocument ---------------------------
(***************************************************************************)
(* ws-server.ts: one text document under commands, staged proposals and    *)
(* their review, full updates, the restore of a checkpoint, and the writes *)
(* of its drain worker.                                                    *)
(*                                                                         *)
(* A document is the set of edits applied to it.  The payload handed to    *)
(* the drain queue is a reference: a later command mutates the payload     *)
(* object held in docs before normalizeDocumentPayload copies it, and the  *)
(* copy shares its blocks.  `link' says what the object the worker holds   *)
(* has in common with the one in docs.                                     *)
(*                                                                         *)
(* Assumed: docs holds a copy of the document throughout.  It was loaded   *)
(* before the first command, and it is neither deleted (ws-server.ts:      *)
(* 1192-1194, 1265-1269) nor dropped after a list of instances (1212-1216),*)
(* which leave proposals or baselines behind.  So no handler has to fetch  *)
(* the document, and each of them is one step: without a copy              *)
(* reject-changes would await the fetch (1575-1577) between reading the    *)
(* proposals and looking for the baseline.  Losing and fetching the copy   *)
(* is the subject of DocumentCache, for documents without proposals.       *)
(*                                                                         *)
(* Bounds: MaxEdits edits, MaxRestores restores of the initial checkpoint. *)
(***************************************************************************)
EXTENDS Naturals

CONSTANTS Threads,     (* chat threads whose agents stage proposals         *)
          Readers,     (* clients that send the baseVersion they read       *)
          MaxEdits, MaxRestores,
          None         (* no baseline, no write in flight, nothing read     *)

Edits     == 1 .. MaxEdits
Baselines == [content : SUBSET Edits]
Flights   == [body : SUBSET Edits, landed : BOOLEAN]
Versions  == 0 .. MaxEdits

ASSUME StagedAssumption ==
  /\ MaxEdits \in Nat
  /\ MaxRestores \in Nat
  /\ None \notin Baselines \cup Flights \cup Versions

VARIABLES
  doc,        (* docs.get(id)                                               *)
  seq,        (* commandSequences.get(id)                                   *)
  buffers,    (* proposals.get(id): edits staged by each thread             *)
  baseline,   (* proposalBaselines.get(id)                                  *)
  phase,      (* the drain worker: its state, COALESCING being writing and  *)
  dirty,      (*   dirty, its dirty flag                                    *)
  pending,    (*   and its pendingPayload                                   *)
  flight,     (* body of the PATCH in flight                                *)
  disk,       (* content in the file server's store                         *)
  restore,    (* how far a restore is: none, writes flushed, store restored *)
  views,      (* the version each reader last read                          *)
  edits,      (* history: number of edits so far                            *)
  direct,     (* history: edits that were not staged                        *)
  accepted,   (* history: edits whose proposal was accepted                 *)
  restores    (* history: number of restores                                *)

memory  == <<doc, seq, buffers, baseline>>
worker  == <<phase, dirty, pending, flight>>
history == <<edits, direct, accepted, restores>>
vars == <<memory, worker, disk, restore, views, history>>

Initial  == {}
Phases   == {"IDLE", "DRAINING", "RETRYING", "FAULTED"}
Links    == {"same", "blocks", "none"}
Kinds    == {"insert", "update", "replace"}
Payloads == [content : SUBSET Edits, link : Links]

Proposed(b)   == \E t \in Threads : b[t] # {}
Buffered(T)   == UNION {buffers[t] : t \in T}
Cleared(T)    == [t \in Threads |-> IF t \in T THEN {} ELSE buffers[t]]

Init ==
  /\ doc      = Initial
  /\ seq      = 0
  /\ buffers  = [t \in Threads |-> {}]
  /\ baseline = None
  /\ phase    = "IDLE"
  /\ dirty    = FALSE
  /\ pending  = [content |-> Initial, link |-> "none"]
  /\ flight   = None
  /\ disk     = Initial
  /\ restore  = "none"
  /\ views    = [r \in Readers |-> None]
  /\ edits    = 0
  /\ direct   = {}
  /\ accepted = {}
  /\ restores = 0

-----------------------------------------------------------------------------
(* The drain worker, with the persistence adapter of ws-server: a document *)
(* with open proposals is not written, and the adapter answers "ok" all    *)
(* the same.  The body of the PATCH is serialised when the write starts.   *)

(* Mutant of Dispatch: the adapter does not look at the proposals.         *)
DispatchAlways(payload, proposals) ==
  /\ pending' = payload
  /\ dirty'   = FALSE
  /\ phase'   = "DRAINING"
  /\ flight'  = [body |-> payload.content, landed |-> FALSE]

Dispatch(payload, proposals) ==
  /\ pending' = payload
  /\ dirty'   = FALSE
  /\ IF Proposed(proposals)
     THEN phase' = "IDLE" /\ flight' = None
     ELSE phase' = "DRAINING" /\ flight' = [body |-> payload.content, landed |-> FALSE]

Enqueue(content, proposals) ==
  LET payload == [content |-> content, link |-> "same"] IN
  \/ phase \in {"IDLE", "FAULTED"} /\ Dispatch(payload, proposals)
  \/ /\ phase \in {"DRAINING", "RETRYING"}
     /\ pending' = payload
     /\ dirty'   = TRUE
     /\ UNCHANGED <<phase, flight>>

SaveLands ==
  /\ flight # None /\ ~flight.landed
  /\ disk'   = flight.body
  /\ flight' = [flight EXCEPT !.landed = TRUE]
  /\ UNCHANGED <<memory, phase, dirty, pending, restore, views, history>>

SaveSucceeds ==
  /\ flight # None /\ flight.landed
  /\ \/ dirty /\ Dispatch(pending, buffers)
     \/ /\ ~dirty
        /\ phase'  = "IDLE"
        /\ flight' = None
        /\ UNCHANGED <<dirty, pending>>
  /\ UNCHANGED <<memory, disk, restore, views, history>>

SaveFails ==
  /\ flight # None
  /\ phase'  \in {"RETRYING", "FAULTED"}
  /\ flight' = None
  /\ UNCHANGED <<memory, dirty, pending, disk, restore, views, history>>

(* An edit made while RETRYING leaves the dirty flag set, so the retried   *)
(* payload is written once more; a skipped write drains the flag at once.  *)
RetryFires ==
  /\ phase = "RETRYING"
  /\ IF Proposed(buffers)
     THEN Dispatch(pending, buffers)
     ELSE /\ phase'  = "DRAINING"
          /\ flight' = [body |-> pending.content, landed |-> FALSE]
          /\ UNCHANGED <<dirty, pending>>
  /\ UNCHANGED <<memory, disk, restore, views, history>>

-----------------------------------------------------------------------------
(* sync-command.  Inserting or removing a block, or setting the comments,  *)
(* changes the object in docs, also where the worker still holds it;       *)
(* updating a block changes every object that shares the block; a replaced *)
(* document is a new object.                                               *)

Touch(payload, e, kind) ==
  LET shared == \/ kind = "insert" /\ payload.link = "same"
                \/ kind = "update" /\ payload.link # "none"
  IN [content |-> IF shared THEN payload.content \cup {e} ELSE payload.content,
      link    |-> IF kind = "replace" \/ payload.link = "none" THEN "none" ELSE "blocks"]

(* The baseline is cloned from the object the command was applied to.      *)
Capture(e, kind) ==
  IF baseline # None THEN baseline
  ELSE [content |-> IF kind = "replace" THEN doc ELSE doc \cup {e}]

(* Mutant of Apply: the sequence number is advanced twice.                 *)
ApplyTwice(e, kind) ==
  /\ edits < MaxEdits
  /\ e = edits + 1
  /\ edits' = e
  /\ seq'   = seq + 2
  /\ doc'   = IF kind = "replace" THEN {e} ELSE doc \cup {e}

Apply(e, kind) ==
  /\ edits < MaxEdits
  /\ e = edits + 1
  /\ edits' = e
  /\ seq'   = seq + 1
  /\ doc'   = IF kind = "replace" THEN {e} ELSE doc \cup {e}

StagedCommand(t, kind) ==
  \E e \in Edits :
    /\ Apply(e, kind)
    /\ baseline' = Capture(e, kind)
    /\ buffers'  = [buffers EXCEPT ![t] = @ \cup {e}]
    /\ pending'  = Touch(pending, e, kind)
    /\ UNCHANGED <<phase, dirty, flight, direct>>

DirectCommand(kind) ==
  \E e \in Edits :
    /\ Apply(e, kind)
    /\ Enqueue(doc', buffers)
    /\ direct' = direct \cup {e}
    /\ UNCHANGED <<buffers, baseline>>

SyncCommand(kind) ==
  /\ DirectCommand(kind) \/ \E t \in Threads : StagedCommand(t, kind)
  /\ UNCHANGED <<disk, restore, accepted, restores>>

(* A client that sends no baseVersion.                                     *)
BlindCommand ==
  \E kind \in Kinds : SyncCommand(kind) /\ UNCHANGED views

(* sync-request, and the optimistic check of the command sent after it: a  *)
(* command based on an older version is refused, which changes nothing.    *)
ReadSnapshot(r) ==
  /\ views' = [views EXCEPT ![r] = seq]
  /\ UNCHANGED <<memory, worker, disk, restore, history>>

CheckedCommand(r) ==
  /\ views[r] # None
  /\ views[r] >= seq
  /\ \E kind \in Kinds : SyncCommand(kind)
  /\ views' = [views EXCEPT ![r] = None]

-----------------------------------------------------------------------------
(* accept-changes and reject-changes, of one thread or of all.             *)

Review == {{t} : t \in Threads} \cup {Threads}

(* Mutant of AcceptChanges: the accepted document is not enqueued.         *)
AcceptUnsaved(T) ==
  /\ Proposed(buffers)
  /\ buffers'  = Cleared(T)
  /\ baseline' = IF Proposed(Cleared(T)) THEN baseline ELSE None
  /\ accepted' = accepted \cup Buffered(T)
  /\ UNCHANGED <<doc, seq, worker, disk, restore, views, edits, direct, restores>>

AcceptChanges(T) ==
  /\ Proposed(buffers)
  /\ buffers'  = Cleared(T)
  /\ baseline' = IF Proposed(Cleared(T)) THEN baseline ELSE None
  /\ Enqueue(doc, Cleared(T))
  /\ accepted' = accepted \cup Buffered(T)
  /\ UNCHANGED <<doc, seq, disk, restore, views, edits, direct, restores>>

(* The recovered document is broadcast and not enqueued.  Undoing the      *)
(* buffered commands one by one is for a document without baseline, which  *)
(* it can only come to when the copy had to be fetched.                    *)
RejectChanges(T) ==
  /\ Buffered(T) # {}
  /\ doc'      = IF baseline # None THEN baseline.content ELSE doc \ Buffered(T)
  /\ buffers'  = Cleared(T)
  /\ baseline' = IF Proposed(Cleared(T)) THEN baseline ELSE None
  /\ pending'  = [pending EXCEPT !.link = "none"]
  /\ UNCHANGED <<seq, phase, dirty, flight, disk, restore, views, history>>

-----------------------------------------------------------------------------
(* update: a client replaces the payload by what it shows and one edit.    *)
Update ==
  /\ edits < MaxEdits
  /\ edits'  = edits + 1
  /\ direct' = direct \cup {edits + 1}
  /\ doc'    = doc \cup {edits + 1}
  /\ Enqueue(doc', buffers)
  /\ UNCHANGED <<seq, buffers, baseline, disk, restore, views, accepted, restores>>

(* The checkpoint handler pauses the window that asked, awaits a flush and *)
(* asks the file server to restore its store; the notice to ws-server, an  *)
(* update from system-checkpoint-restore, arrives later.  The agents of    *)
(* other threads are neither paused nor aborted.                           *)
RestoreFlush ==
  /\ restore = "none" /\ restores < MaxRestores
  /\ phase = "IDLE"
  /\ restore'  = "flushed"
  /\ restores' = restores + 1
  /\ UNCHANGED <<memory, worker, disk, views, edits, direct, accepted>>

RestoreStore ==
  /\ restore = "flushed"
  /\ restore' = "stored"
  /\ disk'    = Initial
  /\ UNCHANGED <<memory, worker, views, edits, direct, accepted, restores>>

RestoreNotice ==
  /\ restore = "stored"
  /\ restore'  = "none"
  /\ doc'      = Initial
  /\ seq'      = 0
  /\ buffers'  = [t \in Threads |-> {}]
  /\ baseline' = None
  /\ pending'  = [pending EXCEPT !.link = "none"]
  /\ UNCHANGED <<phase, dirty, flight, disk, views, history>>

Next ==
  \/ BlindCommand
  \/ \E r \in Readers : ReadSnapshot(r) \/ CheckedCommand(r)
  \/ \E T \in Review : AcceptChanges(T) \/ RejectChanges(T)
  \/ Update
  \/ RestoreFlush \/ RestoreStore \/ RestoreNotice
  \/ SaveLands \/ SaveSucceeds \/ SaveFails \/ RetryFires

Spec == Init /\ [][Next]_vars

-----------------------------------------------------------------------------
(* Every variable stays within the values the code can give it.            *)
StagedTypeOK ==
  /\ doc       \subseteq Edits
  /\ seq       \in 0 .. MaxEdits
  /\ buffers   \in [Threads -> SUBSET Edits]
  /\ baseline  \in Baselines \cup {None}
  /\ phase     \in Phases
  /\ dirty     \in BOOLEAN
  /\ pending   \in Payloads
  /\ flight    \in Flights \cup {None}
  /\ disk      \subseteq Edits
  /\ restore   \in {"none", "flushed", "stored"}
  /\ views     \in [Readers -> Versions \cup {None}]
  /\ edits     \in 0 .. MaxEdits
  /\ direct    \subseteq Edits
  /\ accepted  \subseteq Edits
  /\ restores  \in 0 .. MaxRestores

(* A proposal that is open is neither in the store nor on its way there,   *)
(* whatever edits, retries and reviews of other threads surround it.       *)
OpenProposalsOffDisk ==
  \A t \in Threads :
    /\ buffers[t] \cap disk = {}
    /\ flight # None => buffers[t] \cap flight.body = {}

(* With no proposal open, an idle worker whose last payload is still the   *)
(* document has stored the document, proposals accepted meanwhile          *)
(* included.                                                               *)
SettledMeansSaved ==
  phase = "IDLE" /\ pending.link = "same" /\ ~Proposed(buffers) /\ restore # "stored"
    => disk = doc

-----------------------------------------------------------------------------
(* What the documentation and the comments say.                            *)

(* "Staged commands are proposals and must NOT be written to SQLite disk"  *)
(* (ws-server.ts:1487): only accepted ones are.                            *)
UnacceptedOffDisk == disk \subseteq direct \cup accepted

-----------------------------------------------------------------------------
(* The inductive invariant behind the safety properties, in named parts.   *)

(* While docs keeps the copy, a baseline exists exactly as long as         *)
(* proposals do.                                                           *)
BaselineWithProposals == Proposed(buffers) <=> baseline # None

(* Every edit in sight was made: the next one is new everywhere.           *)
Made == 1 .. edits

MadeOnly ==
  /\ seq <= edits
  /\ doc \subseteq Made /\ disk \subseteq Made /\ pending.content \subseteq Made
  /\ \A t \in Threads : buffers[t] \subseteq Made
  /\ baseline # None => baseline.content \subseteq Made
  /\ flight # None => flight.body \subseteq Made

FlightWhileDraining == phase = "DRAINING" <=> flight # None

(* As long as the worker holds the object in docs, what a retry or a       *)
(* coalesced write will store is the document.                             *)
HeldPayloadIsCurrent == pending.link = "same" => pending.content = doc

(* A clean worker that still holds the document is writing it, and it is   *)
(* in the store once the write has landed.                                 *)
CleanFlight ==
  flight # None /\ ~dirty /\ pending.link = "same" =>
    /\ flight.body = doc
    /\ flight.landed /\ restore # "stored" => disk = doc

SInv ==
  /\ StagedTypeOK
  /\ MadeOnly
  /\ FlightWhileDraining
  /\ HeldPayloadIsCurrent
  /\ CleanFlight
  /\ OpenProposalsOffDisk
  /\ BaselineWithProposals
  /\ SettledMeansSaved
=============================================================================
