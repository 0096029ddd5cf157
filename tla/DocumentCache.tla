--------------------------- MODULE DocumentCache ---------------------------
(***************************************************************************)
(* ws-server.ts: the copy of one instance that the server holds in memory, *)
(* beside the record the file server stores.  A missing copy is fetched    *)
(* (hydrateDocument) while commands, notices of the file server and lists  *)
(* of instances go on being handled: everything between two awaits is one  *)
(* step, and what an await returns may be out of date when it is used.     *)
(*                                                                         *)
(* A document is the set of edits applied to it.  Notices reach ws-server  *)
(* in the order the file server sent them (notifyWsServer); requests and   *)
(* their answers overtake them.  The writer is the drain worker reduced to *)
(* what DurableRegister promises: one write at a time, the newest content  *)
(* next, never a step back; a failed write is tried again.                 *)
(*                                                                         *)
(* Bounds: MaxEdits commands, MaxFills fetches of the record, MaxRestores  *)
(* restores of the initial checkpoint, MaxReloads lists of the instances.  *)
(***************************************************************************)
EXTENDS Naturals, Sequences

CONSTANTS MaxEdits, MaxFills, MaxRestores, MaxReloads,
          LogTail      (* sequence number of the last entry of the log page *)

Edits    == 1 .. MaxEdits
Fills    == 1 .. MaxFills
Contents == SUBSET Edits
Nothing  == {0}        (* no record, no copy, no write *)
Jobs     == [at : Nat, kind : {"command", "restored"}, edit : {0} \cup Edits]

ASSUME CacheAssumption ==
  /\ MaxEdits \in Nat /\ MaxFills \in Nat /\ MaxRestores \in Nat
  /\ MaxReloads \in Nat /\ LogTail \in Nat

VARIABLES
  record,     (* the instance in the file server's store                    *)
  deleted,    (* it was deleted                                             *)
  notices,    (* notices on their way to ws-server                          *)
  docs,       (* docs.get(id)                                               *)
  listed,     (* instanceMetadata.has(id)                                   *)
  pending,    (* pendingHydrations.get(id): the fetch to join, 0 if none    *)
  sequence,   (* commandSequences.get(id) ?? 0                              *)
  fills,      (* each fetch: how far it is and the record it was given      *)
  waiting,    (* handlers that await a fetch, and what they do afterwards   *)
  ready,      (* those whose fetch is over: they run before anything else   *)
  lists,      (* the outstanding list of instances of each kind             *)
  queued,     (* newest content handed to the drain worker, not yet sent    *)
  writing,    (* body of the worker's outstanding PATCH                     *)
  orphans,    (* bodies of outstanding PATCHes of evicted workers           *)
  edits,      (* history: number of commands so far                         *)
  applied,    (* history: the commands acknowledged, with their numbers     *)
  kept,       (* history: those no restore has undone                       *)
  crossed,    (* history: an answer was used that predates a notice, or may *)
  late,       (* history: a command was applied while the log was read      *)
  restores,   (* history: number of restores                                *)
  reloads     (* history: number of lists asked for                         *)

store   == <<record, deleted, notices>>
memory  == <<docs, listed, pending, sequence>>
awaits  == <<fills, waiting, ready, lists>>
writer  == <<queued, writing, orphans>>
history == <<edits, applied, kept, crossed, late, restores, reloads>>
vars == <<store, memory, awaits, writer, history>>

Notices == {"created", "restored", "delete", "deleted", "reload"}
ListKinds == {"reload", "watch"}
ListStates == {"none", "asked", "absent", "present"}
Phases  == {"unused", "asked", "answered", "log", "done"}
Acks    == [edit : Edits, number : Nat]

CacheTypeOK ==
  /\ record \in {Nothing} \cup Contents
  /\ deleted \in BOOLEAN
  /\ notices \in Seq(Notices)
  /\ docs \in {Nothing} \cup Contents
  /\ listed \in BOOLEAN
  /\ pending \in {0} \cup Fills
  /\ sequence \in Nat
  /\ fills \in [Fills -> [phase : Phases, given : {Nothing} \cup Contents]]
  /\ waiting \subseteq [fill : Fills, job : Jobs]
  /\ ready \subseteq Jobs
  /\ lists \in [ListKinds -> ListStates]
  /\ queued \in {Nothing} \cup Contents
  /\ writing \in {Nothing} \cup Contents
  /\ orphans \subseteq Contents
  /\ edits \in 0 .. MaxEdits
  /\ applied \in Seq(Acks)
  /\ kept \subseteq Edits
  /\ crossed \in BOOLEAN /\ late \in BOOLEAN
  /\ restores \in 0 .. MaxRestores
  /\ reloads \in 0 .. MaxReloads

(* A server that has just started: the instance may exist, its copy does   *)
(* not, and it is listed if a client has watched the instances.            *)
Init ==
  /\ record \in {Nothing, {}} /\ deleted = FALSE /\ notices = <<>>
  /\ docs = Nothing /\ pending = 0 /\ sequence = 0
  /\ listed \in {FALSE, record # Nothing}
  /\ fills = [f \in Fills |-> [phase |-> "unused", given |-> Nothing]]
  /\ waiting = {} /\ ready = {} /\ lists = [k \in ListKinds |-> "none"]
  /\ queued = Nothing /\ writing = Nothing /\ orphans = {}
  /\ edits = 0 /\ applied = <<>> /\ kept = {}
  /\ crossed = FALSE /\ late = FALSE /\ restores = 0 /\ reloads = 0

-----------------------------------------------------------------------------
(* What the handlers share.                                                *)

Fetching == \E f \in Fills : fills[f].phase \in {"asked", "answered", "log"}

(* A message is handled only when no continuation is due.                  *)
Turn == ready = {}

(* Mutant of Hydrate: the fetch under way is not joined.                   *)
HydrateAfresh(f) ==
  /\ fills[f].phase = "unused"
  /\ \A g \in Fills : g < f => fills[g].phase # "unused"
  /\ pending' = f
  /\ fills' = [fills EXCEPT ![f].phase = "asked"]

(* hydrateDocument when docs has no copy: join the fetch under way or      *)
(* start the next one.                                                     *)
Hydrate(f) ==
  IF pending # 0
  THEN f = pending /\ UNCHANGED <<pending, fills>>
  ELSE /\ fills[f].phase = "unused"
       /\ \A g \in Fills : g < f => fills[g].phase # "unused"
       /\ pending' = f
       /\ fills' = [fills EXCEPT ![f].phase = "asked"]

Await(kind, edit) ==
  \E f \in Fills :
    /\ Hydrate(f)
    /\ waiting' = waiting \cup
         {[fill |-> f, job |-> [at |-> edits + restores, kind |-> kind, edit |-> edit]]}

(* sync-command past its hydration: without a copy the command is dropped, *)
(* else it is numbered, applied, acknowledged and enqueued.                *)
Apply(e) ==
  \/ /\ docs = Nothing
     /\ UNCHANGED <<docs, sequence, queued, applied, kept, late>>
  \/ /\ docs # Nothing
     /\ sequence' = sequence + 1
     /\ docs' = docs \cup {e}
     /\ queued' = docs \cup {e}
     /\ applied' = Append(applied, [edit |-> e, number |-> sequence + 1])
     /\ kept' = kept \cup {e}
     /\ late' = (late \/ \E f \in Fills : fills[f].phase = "log")

(* Mutant of Overwrite: the notice carries no number and none is counted.  *)
OverwriteUnnumbered ==
  /\ docs' = {}
  /\ sequence' = sequence - 1
  /\ kept' = {}
  /\ UNCHANGED <<queued, applied, late>>

(* update past its hydration, for system-checkpoint-restore: the copy and  *)
(* its number are those of the checkpoint, nothing is enqueued.            *)
Overwrite ==
  /\ docs' = {}
  /\ sequence' = 0
  /\ kept' = {}
  /\ UNCHANGED <<queued, applied, late>>

(* SerializedDrainQueue.evict: what was not sent is dropped; a PATCH that  *)
(* was still reaches the file server.                                      *)
EvictWorker ==
  /\ queued' = Nothing
  /\ writing' = Nothing
  /\ orphans' = orphans \cup ({writing} \ {Nothing})

-----------------------------------------------------------------------------
(* The file server.                                                        *)

Create ==
  /\ record = Nothing /\ ~deleted /\ "created" \notin {notices[i] : i \in DOMAIN notices}
  /\ record' = {}
  /\ notices' = Append(notices, "created")
  /\ UNCHANGED <<deleted, memory, awaits, writer, history>>

Delete ==
  /\ record # Nothing
  /\ record' = Nothing
  /\ deleted' = TRUE
  /\ notices' = notices \o <<"delete", "deleted">>
  /\ UNCHANGED <<memory, awaits, writer, history>>

Restore ==
  /\ record # Nothing /\ restores < MaxRestores
  /\ record' = {}
  /\ notices' = Append(notices, "restored")
  /\ restores' = restores + 1
  /\ UNCHANGED <<deleted, memory, awaits, writer, edits, applied, kept, crossed, late, reloads>>

(* A project is created, renamed or deleted.                               *)
Reload ==
  /\ reloads < MaxReloads
  /\ notices' = Append(notices, "reload")
  /\ reloads' = reloads + 1
  /\ UNCHANGED <<record, deleted, memory, awaits, writer, edits, applied, kept, crossed, late, restores>>

(* GET of the instance: the record, or no answer of use.                   *)
AnswerFetch(f) ==
  /\ fills[f].phase = "asked"
  /\ \E given \in {record, Nothing} :
       fills' = [fills EXCEPT ![f] = [phase |-> "answered", given |-> given]]
  /\ UNCHANGED <<store, memory, waiting, ready, lists, writer, history>>

AnswerList(k) ==
  /\ lists[k] = "asked"
  /\ lists' = [lists EXCEPT ![k] = IF record = Nothing THEN "absent" ELSE "present"]
  /\ UNCHANGED <<store, memory, fills, waiting, ready, writer, history>>

-----------------------------------------------------------------------------
(* ws-server: messages of clients.                                         *)

(* sync-request, subscribe, requestSync.                                   *)
SyncRequest ==
  /\ Turn /\ docs = Nothing
  /\ \E f \in Fills : Hydrate(f)
  /\ UNCHANGED <<store, docs, listed, sequence, waiting, ready, lists, writer, history>>

Command ==
  /\ Turn /\ edits < MaxEdits
  /\ edits' = edits + 1
  /\ \/ /\ docs # Nothing
        /\ Apply(edits')
        /\ UNCHANGED <<pending, fills, waiting>>
     \/ /\ docs = Nothing
        /\ Await("command", edits')
        /\ UNCHANGED <<docs, sequence, queued, applied, kept, late>>
  /\ UNCHANGED <<store, listed, ready, lists, writing, orphans, crossed, restores, reloads>>

WatchInstances ==
  /\ Turn /\ lists["watch"] = "none" /\ reloads < MaxReloads
  /\ lists' = [lists EXCEPT !["watch"] = "asked"]
  /\ reloads' = reloads + 1
  /\ UNCHANGED <<store, memory, fills, waiting, ready, writer, edits, applied, kept, crossed, late, restores>>

-----------------------------------------------------------------------------
(* ws-server: notices of the file server, in order.                        *)

Notice(n) ==
  /\ Turn /\ notices # <<>> /\ Head(notices) = n
  /\ notices' = Tail(notices)
  /\ UNCHANGED <<record, deleted, edits, applied, restores, reloads>>

InstanceCreated ==
  /\ Notice("created")
  /\ listed' = TRUE
  /\ UNCHANGED <<docs, pending, sequence, awaits, writer, kept, crossed, late>>

Restored ==
  /\ Notice("restored")
  /\ crossed' = (crossed \/ Fetching)
  /\ \/ /\ listed
        /\ Overwrite
        /\ UNCHANGED <<pending, fills, waiting>>
     \/ /\ ~listed
        /\ \/ /\ docs # Nothing
              /\ Overwrite
              /\ UNCHANGED <<pending, fills, waiting>>
           \/ /\ docs = Nothing
              /\ Await("restored", 0)
              /\ UNCHANGED <<docs, sequence, queued, applied, kept, late>>
  /\ UNCHANGED <<listed, ready, lists, writing, orphans>>

(* Mutant of Deleted: the worker is not evicted.                           *)
DeletedUnevicted(n) ==
  /\ Notice(n)
  /\ docs' = Nothing
  /\ listed' = FALSE
  /\ pending' = IF n = "delete" THEN 0 ELSE pending
  /\ crossed' = (crossed \/ Fetching)
  /\ UNCHANGED <<sequence, awaits, writer, kept, late>>

(* delete, and internal:instanceDeleted, which leaves pending alone.       *)
Deleted(n) ==
  /\ Notice(n)
  /\ docs' = Nothing
  /\ listed' = FALSE
  /\ pending' = IF n = "delete" THEN 0 ELSE pending
  /\ EvictWorker
  /\ crossed' = (crossed \/ Fetching)
  /\ UNCHANGED <<sequence, awaits, kept, late>>

InstancesUpdated ==
  /\ Notice("reload")
  /\ lists["reload"] = "none"
  /\ lists' = [lists EXCEPT !["reload"] = "asked"]
  /\ UNCHANGED <<memory, fills, waiting, ready, writer, kept, crossed, late>>

-----------------------------------------------------------------------------
(* ws-server: what happens after an await.                                 *)

(* The fetch is over: its promise settles and who awaits it is due.  The   *)
(* entry it deletes is the instance's, whichever fetch that now is.        *)
Settle(f) ==
  /\ pending' = 0
  /\ ready' = ready \cup {w.job : w \in {v \in waiting : v.fill = f}}
  /\ waiting' = {w \in waiting : w.fill # f}

(* Mutant of FillFails: the promise is forgotten and never settles.        *)
FillFailsSilently(f) ==
  /\ Turn /\ fills[f].phase = "answered" /\ fills[f].given = Nothing
  /\ fills' = [fills EXCEPT ![f].phase = "done"]
  /\ pending' = 0
  /\ UNCHANGED <<store, docs, listed, sequence, waiting, ready, lists, writer, history>>

FillFails(f) ==
  /\ Turn /\ fills[f].phase = "answered" /\ fills[f].given = Nothing
  /\ fills' = [fills EXCEPT ![f].phase = "done"]
  /\ Settle(f)
  /\ UNCHANGED <<store, docs, listed, sequence, lists, writer, history>>

FillDocs(f) ==
  /\ Turn /\ fills[f].phase = "answered" /\ fills[f].given # Nothing
  /\ docs' = fills[f].given
  /\ listed' = TRUE
  /\ fills' = [fills EXCEPT ![f].phase = "log"]
  /\ UNCHANGED <<store, pending, sequence, waiting, ready, lists, writer, history>>

(* The page of the log arrives, is empty or fails.                         *)
FillSequence(f) ==
  /\ Turn /\ fills[f].phase = "log"
  /\ sequence' \in {sequence} \cup ({LogTail} \ {0})
  /\ fills' = [fills EXCEPT ![f].phase = "done"]
  /\ Settle(f)
  /\ UNCHANGED <<store, docs, listed, lists, writer, history>>

(* Mutant of Resume: the last handler called goes first.                   *)
ResumeLast(job) ==
  /\ job \in ready
  /\ \A other \in ready : job.at >= other.at
  /\ ready' = ready \ {job}
  /\ \/ job.kind = "command"  /\ Apply(job.edit)
     \/ job.kind = "restored" /\ Overwrite
  /\ UNCHANGED <<store, listed, pending, fills, waiting, lists, writing, orphans, edits, crossed, restores, reloads>>

(* Continuations run in the order their handlers were called.              *)
Resume(job) ==
  /\ job \in ready
  /\ \A other \in ready : job.at <= other.at
  /\ ready' = ready \ {job}
  /\ \/ job.kind = "command"  /\ Apply(job.edit)
     \/ job.kind = "restored" /\ Overwrite
  /\ UNCHANGED <<store, listed, pending, fills, waiting, lists, writing, orphans, edits, crossed, restores, reloads>>

(* instancesUpdated drops what is not in the list, both kinds enter what   *)
(* is.                                                                     *)
UseList(k) ==
  /\ Turn /\ lists[k] \in {"absent", "present"}
  /\ lists' = [lists EXCEPT ![k] = "none"]
  /\ crossed' = (crossed \/ ((lists[k] = "present") # (record # Nothing)))
  /\ \/ /\ lists[k] = "present"
        /\ listed' = TRUE
        /\ UNCHANGED docs
     \/ /\ lists[k] = "absent" /\ k = "reload" /\ listed
        /\ listed' = FALSE
        /\ docs' = Nothing
     \/ /\ lists[k] = "absent" /\ ~(k = "reload" /\ listed)
        /\ UNCHANGED <<docs, listed>>
  /\ UNCHANGED <<store, pending, sequence, fills, waiting, ready, writer, edits, applied, kept, late, restores, reloads>>

-----------------------------------------------------------------------------
(* The drain worker and its PATCH.                                         *)

StartWrite ==
  /\ queued # Nothing /\ writing = Nothing
  /\ writing' = queued
  /\ queued' = Nothing
  /\ UNCHANGED <<store, memory, awaits, orphans, history>>

(* The file server answers: the record is replaced, or is not there.       *)
Patch(body) == record' = IF record = Nothing THEN Nothing ELSE body

WriteEnds ==
  /\ writing # Nothing
  /\ Patch(writing)
  /\ writing' = Nothing
  /\ UNCHANGED <<deleted, notices, memory, awaits, queued, orphans, history>>

(* The write fails, or lands and its answer is lost: it is tried again,    *)
(* with newer content if there is any.                                     *)
WriteFails ==
  /\ writing # Nothing
  /\ \/ UNCHANGED record
     \/ Patch(writing)
  /\ queued' = IF queued = Nothing THEN writing ELSE queued
  /\ writing' = Nothing
  /\ UNCHANGED <<deleted, notices, memory, awaits, orphans, history>>

OrphanEnds ==
  /\ \E body \in orphans : Patch(body) /\ orphans' = orphans \ {body}
  /\ UNCHANGED <<deleted, notices, memory, awaits, queued, writing, history>>

-----------------------------------------------------------------------------
FileServer ==
  \/ Create \/ Delete \/ Restore \/ Reload
  \/ \E f \in Fills : AnswerFetch(f)
  \/ \E k \in ListKinds : AnswerList(k)

WsServer ==
  \/ SyncRequest \/ Command \/ WatchInstances
  \/ InstanceCreated \/ Restored \/ InstancesUpdated
  \/ \E n \in {"delete", "deleted"} : Deleted(n)
  \/ \E f \in Fills : FillFails(f) \/ FillDocs(f) \/ FillSequence(f)
  \/ \E job \in ready : Resume(job)
  \/ \E k \in ListKinds : UseList(k)

Writer == StartWrite \/ WriteEnds \/ WriteFails \/ OrphanEnds

Next == FileServer \/ WsServer \/ Writer

Spec == Init /\ [][Next]_vars

(* Every request of ws-server is answered or fails, and what awaits it     *)
(* runs: the HTTP client times out, the event loop goes on.                *)
Fairness ==
  /\ \A f \in Fills :
       /\ WF_vars(AnswerFetch(f))
       /\ WF_vars(FillFails(f) \/ FillDocs(f) \/ FillSequence(f))
  /\ WF_vars(\E job \in ready : Resume(job))

FairSpec == Spec /\ Fairness

-----------------------------------------------------------------------------
Coming == {notices[i] : i \in DOMAIN notices}

(* An acknowledged command stays in the copy, and reaches the record once  *)
(* nothing is left to write: a fetch never overwrites it.  Holds because   *)
(* one fetch serves all who wait and commands wait for it, unless a notice *)
(* or a list crosses a fetch (hydrateDocument, ws-server.ts:842-899).      *)
AckedEditsKept ==
  ~crossed /\ ~deleted =>
    /\ docs # Nothing => kept \subseteq docs
    /\ queued = Nothing /\ writing = Nothing /\ "restored" \notin Coming
         => kept = {} \/ (record # Nothing /\ kept \subseteq record)

(* After its delete notice nothing of the instance is left in memory: no   *)
(* copy a client could edit, no entry in the catalogue, no write.          *)
NothingOfDeleted ==
  ~crossed /\ deleted /\ "delete" \notin Coming =>
    docs = Nothing /\ ~listed /\ queued = Nothing /\ writing = Nothing

(* Commands are applied once, in the order they arrived, under numbers     *)
(* that rise, unless a restore sets the number back, or one is applied     *)
(* while the log is read: it overtakes those that wait, and the number     *)
(* read from the log replaces its own (ws-server.ts:862-889).              *)
AppliedInOrder ==
  ~crossed /\ ~late /\ restores = 0 =>
    \A i, j \in DOMAIN applied : i < j =>
      /\ applied[i].edit < applied[j].edit
      /\ applied[i].number < applied[j].number

(* A handler that awaits a fetch is resumed, whatever becomes of the fetch *)
(* and whatever is deleted, restored or reloaded meanwhile.                *)
HandlersResume == \A f \in Fills :
  (\E w \in waiting : w.fill = f) ~> ~\E w \in waiting : w.fill = f
=============================================================================
