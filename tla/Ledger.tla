------------------------------- MODULE Ledger -------------------------------
(***************************************************************************)
(* The relational ledger: the links between documents, kept in memory by   *)
(* ws-server, stored by the file server, and copied by the editor's pane   *)
(* and by the agent's tools, which write their copies back whole           *)
(* (RelationalLedgerStore.ts, LinkExtractor.ts, TarjanCycleDetector.ts,    *)
(* ws-server.ts, filesystemAPI.ts, RelationalLedgerContext.tsx,            *)
(* tools/wiki/adapters.ts).                                                *)
(*                                                                         *)
(* A ledger is a function from the links it holds to their entries.  A     *)
(* link is a source, a target and a relation; the maps by source and by    *)
(* target follow from it, and so does the identifier, which only its first *)
(* entry chooses.  A document is named by what its links name.             *)
(*                                                                         *)
(* Bounds: MaxCalls edits, commands, deletions, loads, dismissals and tool *)
(* calls; MaxMishaps failed writes of the ledger.                          *)
(***************************************************************************)
EXTENDS Naturals, Sequences

CONSTANTS Documents, Links,
          From, To,      (* source and target of each link                  *)
          Supersedes,    (* the links whose relation is "supersedes"        *)
          None, MaxCalls, MaxMishaps

ASSUME LedgerAssumption ==
  /\ From \in [Links -> Documents] /\ To \in [Links -> Documents]
  /\ Supersedes \subseteq Links
  /\ MaxCalls \in Nat /\ MaxMishaps \in Nat

Statuses == {"active", "anchor_lost", "archived"}
Entries  == [status : Statuses, claimed : BOOLEAN]   (* provenance: document_claim *)
Ledgers  == UNION {[L -> Entries] : L \in SUBSET Links}
Empty    == [l \in {} |-> None]

ASSUME NoneAssumption == (\A ledger \in Ledgers : ledger # None) /\ \A L \in SUBSET Links : L # None

VARIABLES
  server,    (* the ledgerStore of ws-server                                *)
  dirty,     (* an edit of it waits for the worker of the ledger            *)
  writing,   (* the edges that the worker is writing                        *)
  landed,    (* whether they are stored                                     *)
  fetched,   (* the edges that ws-server read and is to load                *)
  notices,   (* notices of a cascade on their way to ws-server              *)
  stored,    (* the ledger of the file server                               *)
  existing,  (* the documents that were not deleted                         *)
  text,      (* the claims in each document                                 *)
  saving,    (* the claims in the payload whose PATCH landed unanswered     *)
  pane,      (* the store of the editor's pane                              *)
  patches,   (* the edges that dismissals send                              *)
  tool,      (* the store of the tool that runs                             *)
  kept,      (* history: the claims of each document last brought in        *)
  apart,     (* history: the last to write was not ws-server                *)
  disturbed, (* history: loads raced, or links came or went by other means  *)
  revived,   (* history: an archived entry came back unchecked              *)
  calls, mishaps

serverVars == <<server, dirty, writing, landed, fetched>>
fileVars   == <<notices, stored, existing>>
docVars    == <<text, saving, kept>>
copies     == <<pane, patches, tool>>
history    == <<apart, disturbed, revived>>
vars == <<serverVars, fileVars, docVars, copies, history, calls, mishaps>>

LinksOf(d) == {l \in Links : From[l] = d}
Incident(d) == {l \in Links : From[l] = d \/ To[l] = d}

LedgerTypeOK ==
  /\ server \in Ledgers /\ stored \in Ledgers /\ pane \in Ledgers
  /\ dirty \in BOOLEAN /\ landed \in BOOLEAN
  /\ writing \in {None} \cup Ledgers /\ fetched \in {None} \cup Ledgers
  /\ tool \in {None} \cup Ledgers
  /\ notices \in Seq(Ledgers) /\ patches \in SUBSET Ledgers
  /\ existing \in SUBSET Documents
  /\ text \in [Documents -> SUBSET Links] /\ kept \in [Documents -> SUBSET Links]
  /\ saving \in [Documents -> {None} \cup SUBSET Links]
  /\ apart \in BOOLEAN /\ disturbed \in BOOLEAN /\ revived \in BOOLEAN
  /\ calls \in 0 .. MaxCalls /\ mishaps \in 0 .. MaxMishaps

Init ==
  /\ server = Empty /\ dirty = FALSE /\ writing = None /\ landed = FALSE /\ fetched = None
  /\ notices = <<>> /\ stored = Empty /\ existing = Documents
  /\ text = [d \in Documents |-> {}] /\ saving = [d \in Documents |-> None]
  /\ kept = [d \in Documents |-> {}]
  /\ pane = Empty /\ patches = {} /\ tool = None
  /\ apart = FALSE /\ disturbed = FALSE /\ revived = FALSE
  /\ calls = 0 /\ mishaps = 0

Call == calls < MaxCalls /\ calls' = calls + 1

-----------------------------------------------------------------------------
(* RelationalLedgerStore.                                                  *)

Claim == [status |-> "active", claimed |-> TRUE]

Put(ledger, l, e) == [k \in DOMAIN ledger \cup {l} |-> IF k = l THEN e ELSE ledger[k]]
Drop(ledger, L)   == [k \in DOMAIN ledger \ L |-> ledger[k]]

InForce(ledger) == {l \in DOMAIN ledger \cap Supersedes : ledger[l].status # "archived"}

(* No cycle: every set of documents has one that supersedes none of it.    *)
Acyclic(L) ==
  \A D \in SUBSET Documents :
    D # {} => \E d \in D : \A l \in L : From[l] = d => To[l] \notin D

(* assertNoSupersedenceCycle looks at what is in force and the new entry.  *)
MayUpsert(ledger, l, e) ==
  l \in Supersedes /\ e.status # "archived" => Acyclic(InForce(ledger) \cup {l})

(* upsertEdge: the entry there is, if any, is promoted.                    *)
Upserted(ledger, l, e) ==
  Put(ledger, l,
      IF l \notin DOMAIN ledger THEN e
      ELSE IF e.claimed THEN Claim
      ELSE [ledger[l] EXCEPT !.status = IF @ = "archived" THEN "active" ELSE @])

Archived(l) == l \in DOMAIN server /\ server[l].status = "archived"

-----------------------------------------------------------------------------
(* syncDocumentClaimsToLedger.                                             *)

WithClaims(ledger, C) ==
  [l \in DOMAIN ledger \cup C |-> IF l \in C THEN Claim ELSE ledger[l]]

(* Mutant of Reaches: the new claims are checked among themselves.         *)
ReachesAlone(ledger, C) == C \cap Supersedes = {} \/ Acyclic(C \cap Supersedes)

(* The claims are upserted one by one, each checked.                       *)
Reaches(ledger, C) ==
  C \cap Supersedes = {} \/ Acyclic(InForce(WithClaims(ledger, C)))

(* Mutants of Degraded: every document's links are degraded; the entry     *)
(* takes the name of the tray it goes to for its status.                   *)
DegradedOfAll(ledger, d, C) ==
  [l \in DOMAIN ledger |-> IF ledger[l] = Claim /\ l \notin C
                           THEN [ledger[l] EXCEPT !.status = "anchor_lost"] ELSE ledger[l]]
DegradedUnanchored(ledger, d, C) ==
  [l \in DOMAIN ledger |-> IF From[l] = d /\ ledger[l] = Claim /\ l \notin C
                           THEN [ledger[l] EXCEPT !.status = "unanchored"] ELSE ledger[l]]

(* A claim that is no longer in its document is kept, degraded.            *)
Degraded(ledger, d, C) ==
  [l \in DOMAIN ledger |-> IF From[l] = d /\ ledger[l] = Claim /\ l \notin C
                           THEN [ledger[l] EXCEPT !.status = "anchor_lost"] ELSE ledger[l]]

(* The claims are upserted up to one that would close a cycle, which throws *)
(* before anything is degraded.                                            *)
Upserts(ledger, C) ==
  IF Reaches(ledger, C) THEN {C}
  ELSE {P \in SUBSET C : /\ Reaches(ledger, P)
                         /\ \E l \in C \ P : ~Reaches(ledger, P \cup {l})}

Synced(ledger, d, C, P) ==
  IF P = C THEN Degraded(WithClaims(ledger, C), d, C) ELSE WithClaims(ledger, P)

-----------------------------------------------------------------------------
Busy     == dirty \/ writing # None
Replaced == fetched # None \/ notices # <<>>   (* a whole ledger is on its way *)
Disturb(condition) == disturbed' = (disturbed \/ condition)

(* A document is edited, in the pane; its worker's PATCH lands; once it is *)
(* answered, ws-server brings in the claims, and every upsert enqueues a   *)
(* write of the ledger, as does every degraded link.  The payload is read  *)
(* for its claims only then; it shares blocks with the document, so an     *)
(* edit made meanwhile may show in it.                                     *)
Edit(d) ==
  /\ d \in existing /\ Call
  /\ \E C \in SUBSET LinksOf(d) :
       /\ text' = [text EXCEPT ![d] = C]
       /\ \/ UNCHANGED saving
          \/ saving[d] # None /\ saving' = [saving EXCEPT ![d] = C]
       /\ \E P \in Upserts(pane, C) : pane' = Synced(pane, d, C, P)
  /\ UNCHANGED <<serverVars, fileVars, kept, patches, tool, history, mishaps>>

StoreDocument(d) ==
  /\ d \in existing /\ saving[d] = None
  /\ saving' = [saving EXCEPT ![d] = text[d]]
  /\ UNCHANGED <<serverVars, fileVars, text, kept, copies, history, calls, mishaps>>

(* A claim that is refused fails the save, which is retried or given up.   *)
ClaimsSynced(d) ==
  /\ saving[d] # None
  /\ saving' = [saving EXCEPT ![d] = None]
  /\ \E P \in Upserts(server, saving[d]) :
       /\ server' = Synced(server, d, saving[d], P)
       /\ dirty' = (dirty \/ P # {} \/ server' # server)
  /\ kept' = IF d \in existing THEN [kept EXCEPT ![d] = saving[d]] ELSE kept
  /\ Disturb(Replaced \/ d \notin existing \/ ~Reaches(server, saving[d]))
  /\ UNCHANGED <<writing, landed, fetched, fileVars, text, copies, apart, revived, calls, mishaps>>

-----------------------------------------------------------------------------
(* The ledger's commands, which a client may send.                         *)

Commanded(ledger, revives) ==
  /\ Call
  /\ server' = ledger /\ dirty' = TRUE
  /\ revived' = (revived \/ revives)
  /\ Disturb(TRUE)
  /\ UNCHANGED <<writing, landed, fetched, fileVars, docVars, copies, apart, mishaps>>

UpsertCommand(l, e) ==
  /\ MayUpsert(server, l, e)
  /\ Commanded(Upserted(server, l, e), Archived(l) /\ e.status = "archived")

RemoveCommand(l) == Commanded(Drop(server, {l}), FALSE)

DegradeCommand(l) ==
  /\ l \in DOMAIN server
  /\ Commanded(Put(server, l, [server[l] EXCEPT !.status = "anchor_lost"]), Archived(l))

RestoreCommand(l) ==
  /\ l \in DOMAIN server
  /\ Commanded(Put(server, l, Claim), Archived(l))

-----------------------------------------------------------------------------
(* The worker of the ledger: what it writes is read when it writes.        *)

StartWrite ==
  /\ dirty /\ writing = None
  /\ writing' = server /\ landed' = FALSE /\ dirty' = FALSE
  /\ UNCHANGED <<server, fetched, fileVars, docVars, copies, history, calls, mishaps>>

WriteLands ==
  /\ writing # None /\ ~landed
  /\ stored' = writing /\ landed' = TRUE /\ apart' = FALSE
  /\ UNCHANGED <<server, dirty, writing, fetched, notices, existing, docVars, copies, disturbed,
                 revived, calls, mishaps>>

(* Mutant of WriteEnds: an edit that came meanwhile is taken for written.  *)
WriteEndsClean ==
  /\ writing # None /\ landed
  /\ writing' = None /\ landed' = FALSE /\ dirty' = FALSE
  /\ UNCHANGED <<server, fetched, fileVars, docVars, copies, history, calls, mishaps>>

WriteEnds ==
  /\ writing # None /\ landed
  /\ writing' = None /\ landed' = FALSE
  /\ UNCHANGED <<server, dirty, fetched, fileVars, docVars, copies, history, calls, mishaps>>

(* A write that failed, landed or not, is retried, or given up.            *)
WriteFails ==
  /\ writing # None /\ mishaps < MaxMishaps /\ mishaps' = mishaps + 1
  /\ writing' = None /\ landed' = FALSE
  /\ \/ dirty' = TRUE /\ UNCHANGED <<apart, disturbed>>
     \/ UNCHANGED dirty /\ apart' = TRUE /\ Disturb(TRUE)
  /\ UNCHANGED <<server, fetched, fileVars, docVars, copies, revived, calls>>

(* A watcher of the instances, or a notice that they changed, makes        *)
(* ws-server load the stored ledger.                                       *)
LoadStarts ==
  /\ fetched = None /\ Call
  /\ fetched' = stored
  /\ Disturb(Busy \/ notices # <<>>)
  /\ UNCHANGED <<server, dirty, writing, landed, fileVars, docVars, copies, apart, revived, mishaps>>

LoadEnds ==
  /\ fetched # None
  /\ server' = fetched /\ dirty' = TRUE
  /\ fetched' = None
  /\ UNCHANGED <<writing, landed, fileVars, docVars, copies, history, calls, mishaps>>

-----------------------------------------------------------------------------
(* DELETE of a document takes its links out of the stored ledger.          *)
DeleteDocument(d) ==
  /\ d \in existing /\ Call
  /\ existing' = existing \ {d}
  /\ stored' = Drop(stored, Incident(d))
  /\ notices' = IF DOMAIN stored \cap Incident(d) # {} THEN Append(notices, stored') ELSE notices
  /\ kept' = [kept EXCEPT ![d] = {}]
  /\ Disturb(Busy \/ Replaced \/ saving[d] # None)
  /\ UNCHANGED <<serverVars, text, saving, copies, apart, revived, mishaps>>

(* The update notice: loadFromSnapshot.                                    *)
TakeNotice ==
  /\ notices # <<>>
  /\ server' = Head(notices) /\ dirty' = TRUE
  /\ notices' = Tail(notices)
  /\ UNCHANGED <<writing, landed, fetched, stored, existing, docVars, copies, history, calls,
                 mishaps>>

-----------------------------------------------------------------------------
(* Those that write the stored ledger without ws-server's knowledge: its   *)
(* notice of such a write is skipped as a confirmation.                    *)

WrittenApart(ledger) == stored' = ledger /\ apart' = TRUE /\ Disturb(TRUE)

(* dismissEdge.                                                            *)
DismissEdge(l) ==
  /\ l \in DOMAIN pane /\ Call
  /\ pane' = Drop(pane, {l})
  /\ patches' = patches \cup {pane'}
  /\ UNCHANGED <<serverVars, fileVars, docVars, tool, history, mishaps>>

PatchLands(ledger) ==
  /\ patches' = patches \ {ledger}
  /\ WrittenApart(ledger)
  /\ UNCHANGED <<serverVars, notices, existing, docVars, pane, tool, revived, calls, mishaps>>

(* refreshLedger, when a project is opened.                                *)
RefreshPane ==
  /\ Call
  /\ pane' = stored
  /\ UNCHANGED <<serverVars, fileVars, docVars, patches, tool, history, mishaps>>

(* A tool loads the stored ledger; writeGraph does not, and a load that    *)
(* failed is not noticed.                                                  *)
ToolStarts ==
  /\ tool = None /\ Call
  /\ tool' \in {stored, Empty}
  /\ UNCHANGED <<serverVars, fileVars, docVars, pane, patches, history, mishaps>>

(* It adds or removes links, or fails and saves what it unwound; a save    *)
(* that fails is not noticed either.                                       *)
ToolSaves ==
  /\ tool # None
  /\ \/ \E l \in Links, e \in [status : {"active"}, claimed : BOOLEAN] :
          MayUpsert(tool, l, e) /\ WrittenApart(Upserted(tool, l, e))
     \/ \E L \in SUBSET DOMAIN tool : WrittenApart(Drop(tool, L))
     \/ UNCHANGED <<stored, apart, disturbed>>
  /\ tool' = None
  /\ UNCHANGED <<serverVars, notices, existing, docVars, pane, patches, revived, calls, mishaps>>

Next ==
  \/ \E d \in Documents : Edit(d) \/ StoreDocument(d) \/ ClaimsSynced(d) \/ DeleteDocument(d)
  \/ \E l \in Links :
       \/ \E e \in Entries : UpsertCommand(l, e)
       \/ RemoveCommand(l) \/ DegradeCommand(l) \/ RestoreCommand(l) \/ DismissEdge(l)
  \/ StartWrite \/ WriteLands \/ WriteEnds \/ WriteFails
  \/ LoadStarts \/ LoadEnds \/ TakeNotice
  \/ \E ledger \in patches : PatchLands(ledger)
  \/ RefreshPane \/ ToolStarts \/ ToolSaves

Spec == Init /\ [][Next]_vars

-----------------------------------------------------------------------------
Copies == {server, stored, pane} \cup patches \cup {notices[i] : i \in DOMAIN notices}
            \cup ({writing, fetched, tool} \ {None})

(* No copy of the ledger has documents that supersede one another in a     *)
(* cycle, although each copy is checked alone and then replaces another    *)
(* whole, unless a command brought back an archived link, which is not     *)
(* checked (RelationalLedgerStore.ts:153-202, 286-328).                    *)
AcyclicUnlessRevived == ~revived => \A ledger \in Copies : Acyclic(InForce(ledger))

(* When nothing is under way, the stored ledger is the one ws-server       *)
(* holds, whatever was coalesced, retried, loaded or cascaded, unless the  *)
(* last to write it was a tool or the pane, or the worker gave up          *)
(* (ws-server.ts:713-721, 1090-1117, 1711-1719).                           *)
StoredFollowsServer == ~Busy /\ ~Replaced /\ ~apart => stored = server

Claimed(d) == {l \in DOMAIN server : From[l] = d /\ server[l] = Claim}

(* The claims in force are those in the documents, through edits,          *)
(* deletions and loads, as long as no claim was refused, no command, tool  *)
(* or dismissal touched the ledger, and no load or deletion overlapped a   *)
(* change of it (LinkExtractor.ts:57-128, ws-server.ts:811-817,            *)
(* filesystemAPI.ts:497-551).                                              *)
ClaimsFollowDocuments ==
  ~Replaced /\ ~disturbed => \A d \in Documents :
    /\ Claimed(d) \subseteq kept[d]
    /\ {l \in kept[d] : To[l] \in existing} \subseteq Claimed(d)
=============================================================================
