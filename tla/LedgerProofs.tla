---------------------------- MODULE LedgerProofs ----------------------------
(* No copy of the ledger ever holds a cycle that no archived link closed,    *)
(* and the stored ledger is the one in memory when nothing is under way, for *)
(* all documents, links, calls and mishaps.                                  *)
EXTENDS Ledger, TLAPS

-----------------------------------------------------------------------------
(* Ledgers.                                                                  *)

(* A ledger is a function on some links.                                     *)
LEMMA LedgerShape ==
  ASSUME NEW ledger \in Ledgers
  PROVE  /\ DOMAIN ledger \subseteq Links
         /\ \A l \in DOMAIN ledger : ledger[l] \in Entries
         /\ ledger = [l \in DOMAIN ledger |-> ledger[l]]
BY DEF Ledgers

(* A function on some links whose values are entries is a ledger.            *)
LEMMA LedgerFrom ==
  ASSUME NEW D \in SUBSET Links, NEW ledger \in [D -> Entries]
  PROVE  ledger \in Ledgers
BY DEF Ledgers

LEMMA EmptyIsLedger == Empty \in Ledgers
<1>1. Empty \in [{} -> Entries]
  BY DEF Empty
<1> QED
  BY <1>1, LedgerFrom

LEMMA ClaimIsEntry == Claim \in Entries
BY DEF Claim, Entries, Statuses

(* Setting the status of an entry leaves an entry.                           *)
LEMMA EntryStatus ==
  ASSUME NEW e \in Entries, NEW s \in Statuses
  PROVE  [e EXCEPT !.status = s] \in Entries
BY DEF Entries

LEMMA PutLedger ==
  ASSUME NEW ledger \in Ledgers, NEW l \in Links, NEW e \in Entries
  PROVE  Put(ledger, l, e) \in Ledgers
<1>1. Put(ledger, l, e) \in [DOMAIN ledger \cup {l} -> Entries]
  BY LedgerShape DEF Put
<1>2. DOMAIN ledger \cup {l} \in SUBSET Links
  BY LedgerShape
<1> QED
  BY <1>1, <1>2, LedgerFrom

LEMMA DropLedger ==
  ASSUME NEW ledger \in Ledgers, NEW L
  PROVE  Drop(ledger, L) \in Ledgers
<1>1. Drop(ledger, L) \in [DOMAIN ledger \ L -> Entries]
  BY LedgerShape DEF Drop
<1>2. DOMAIN ledger \ L \in SUBSET Links
  BY LedgerShape
<1> QED
  BY <1>1, <1>2, LedgerFrom

(* Taking away links that are not there changes nothing.                     *)
LEMMA DropNothing ==
  ASSUME NEW ledger \in Ledgers, NEW L, DOMAIN ledger \cap L = {}
  PROVE  Drop(ledger, L) = ledger
<1>1. DOMAIN ledger \ L = DOMAIN ledger
  OBVIOUS
<1> QED
  BY <1>1, LedgerShape DEF Drop

LEMMA UpsertedLedger ==
  ASSUME NEW ledger \in Ledgers, NEW l \in Links, NEW e \in Entries
  PROVE  Upserted(ledger, l, e) \in Ledgers
<1> DEFINE old == [ledger[l] EXCEPT !.status = IF @ = "archived" THEN "active" ELSE @]
<1>1. l \in DOMAIN ledger => old \in Entries
  BY LedgerShape DEF Entries, Statuses
<1> HIDE DEF old
<1>2. CASE l \notin DOMAIN ledger
  BY <1>2, PutLedger DEF Upserted
<1>3. CASE l \in DOMAIN ledger /\ e.claimed
  BY <1>3, PutLedger, ClaimIsEntry DEF Upserted
<1>4. CASE l \in DOMAIN ledger /\ ~e.claimed
  <2>1. Upserted(ledger, l, e) = Put(ledger, l, old)
    BY <1>4 DEF Upserted, old
  <2> QED
    BY <2>1, <1>1, <1>4, PutLedger
<1> QED
  BY <1>2, <1>3, <1>4

LEMMA WithClaimsLedger ==
  ASSUME NEW ledger \in Ledgers, NEW C \in SUBSET Links
  PROVE  WithClaims(ledger, C) \in Ledgers
<1>1. WithClaims(ledger, C) \in [DOMAIN ledger \cup C -> Entries]
  BY LedgerShape, ClaimIsEntry DEF WithClaims
<1>2. DOMAIN ledger \cup C \in SUBSET Links
  BY LedgerShape
<1> QED
  BY <1>1, <1>2, LedgerFrom

LEMMA DegradedLedger ==
  ASSUME NEW ledger \in Ledgers, NEW d, NEW C
  PROVE  Degraded(ledger, d, C) \in Ledgers
<1>1. \A l \in DOMAIN ledger : [ledger[l] EXCEPT !.status = "anchor_lost"] \in Entries
  BY LedgerShape, EntryStatus DEF Statuses
<1>2. Degraded(ledger, d, C) \in [DOMAIN ledger -> Entries]
  BY <1>1, LedgerShape DEF Degraded
<1>3. DOMAIN ledger \in SUBSET Links
  BY LedgerShape
<1> QED
  BY <1>2, <1>3, LedgerFrom

(* What is brought in of some claims is some of them.                        *)
LEMMA UpsertsSome ==
  ASSUME NEW ledger, NEW C, NEW P \in Upserts(ledger, C)
  PROVE  P \subseteq C
BY DEF Upserts

LEMMA SyncedLedger ==
  ASSUME NEW ledger \in Ledgers, NEW d, NEW C \in SUBSET Links, NEW P \in Upserts(ledger, C)
  PROVE  Synced(ledger, d, C, P) \in Ledgers
<1>1. P \in SUBSET Links
  BY UpsertsSome
<1>2. CASE P = C
  BY <1>2, WithClaimsLedger, DegradedLedger DEF Synced
<1>3. CASE P # C
  BY <1>1, <1>3, WithClaimsLedger DEF Synced
<1> QED
  BY <1>2, <1>3

-----------------------------------------------------------------------------
(* Types.                                                                    *)

LEMMA TypeInit == Init => LedgerTypeOK
<1>1. SUFFICES ASSUME Init PROVE LedgerTypeOK
  OBVIOUS
<1>2. server \in Ledgers /\ stored \in Ledgers /\ pane \in Ledgers /\ notices \in Seq(Ledgers)
  BY <1>1, EmptyIsLedger DEF Init
<1>3. /\ text \in [Documents -> SUBSET Links] /\ kept \in [Documents -> SUBSET Links]
      /\ saving \in [Documents -> {None} \cup SUBSET Links]
  BY <1>1 DEF Init
<1>4. calls \in 0 .. MaxCalls /\ mishaps \in 0 .. MaxMishaps
  BY <1>1, LedgerAssumption DEF Init
<1> QED
  BY <1>1, <1>2, <1>3, <1>4 DEF Init, LedgerTypeOK

(* Counting a call stays within the bound.                                   *)
LEMMA CallCounts ==
  ASSUME calls \in 0 .. MaxCalls, Call
  PROVE  calls' \in 0 .. MaxCalls
BY LedgerAssumption DEF Call

LEMMA EditTyped ==
  ASSUME LedgerTypeOK, NEW d \in Documents, Edit(d)
  PROVE  LedgerTypeOK'
<1>1. PICK C \in SUBSET LinksOf(d) :
        /\ text' = [text EXCEPT ![d] = C]
        /\ saving' \in {saving, [saving EXCEPT ![d] = C]}
        /\ \E P \in Upserts(pane, C) : pane' = Synced(pane, d, C, P)
  BY DEF Edit
<1>2. C \in SUBSET Links
  BY DEF LinksOf
<1>3. pane' \in Ledgers
  BY <1>1, <1>2, SyncedLedger DEF LedgerTypeOK
<1>4. /\ text' \in [Documents -> SUBSET Links]
      /\ saving' \in [Documents -> {None} \cup SUBSET Links]
  BY <1>1, <1>2 DEF LedgerTypeOK
<1>5. calls' \in 0 .. MaxCalls
  BY CallCounts DEF Edit, LedgerTypeOK
<1> QED
  BY <1>3, <1>4, <1>5 DEF LedgerTypeOK, Edit, serverVars, fileVars, history

LEMMA StoreDocumentTyped ==
  ASSUME LedgerTypeOK, NEW d \in Documents, StoreDocument(d)
  PROVE  LedgerTypeOK'
<1>1. saving' \in [Documents -> {None} \cup SUBSET Links]
  BY DEF StoreDocument, LedgerTypeOK
<1> QED
  BY <1>1 DEF LedgerTypeOK, StoreDocument, serverVars, fileVars, copies, history

LEMMA ClaimsSyncedTyped ==
  ASSUME LedgerTypeOK, NEW d \in Documents, ClaimsSynced(d)
  PROVE  LedgerTypeOK'
<1>1. saving[d] \in SUBSET Links
  BY DEF ClaimsSynced, LedgerTypeOK
<1>2. PICK P \in Upserts(server, saving[d]) :
        /\ server' = Synced(server, d, saving[d], P)
        /\ dirty' = (dirty \/ P # {} \/ server' # server)
  BY DEF ClaimsSynced
<1>3. server' \in Ledgers
  BY <1>1, <1>2, SyncedLedger DEF LedgerTypeOK
<1>4. saving' \in [Documents -> {None} \cup SUBSET Links]
  BY DEF ClaimsSynced, LedgerTypeOK
<1>5. kept' \in [Documents -> SUBSET Links]
  BY <1>1 DEF ClaimsSynced, LedgerTypeOK
<1>6. dirty' \in BOOLEAN /\ disturbed' \in BOOLEAN
  BY <1>2 DEF ClaimsSynced, Disturb
<1> QED
  BY <1>3, <1>4, <1>5, <1>6 DEF LedgerTypeOK, ClaimsSynced, fileVars, copies

LEMMA CommandTyped ==
  ASSUME LedgerTypeOK, NEW ledger \in Ledgers, NEW revives \in BOOLEAN, Commanded(ledger, revives)
  PROVE  LedgerTypeOK'
<1>1. calls' \in 0 .. MaxCalls
  BY CallCounts DEF Commanded, LedgerTypeOK
<1> QED
  BY <1>1 DEF LedgerTypeOK, Commanded, Disturb, fileVars, docVars, copies

LEMMA CommandsTyped ==
  ASSUME LedgerTypeOK, NEW l \in Links,
         \/ \E e \in Entries : UpsertCommand(l, e)
         \/ RemoveCommand(l) \/ DegradeCommand(l) \/ RestoreCommand(l)
  PROVE  LedgerTypeOK'
<1>1. server \in Ledgers /\ Archived(l) \in BOOLEAN
  BY DEF LedgerTypeOK, Archived
<1>2. ASSUME NEW e \in Entries, UpsertCommand(l, e) PROVE LedgerTypeOK'
  <2>1. Commanded(Upserted(server, l, e), Archived(l) /\ e.status = "archived")
    BY <1>2 DEF UpsertCommand
  <2> QED
    BY <2>1, <1>1, UpsertedLedger, CommandTyped
<1>3. ASSUME RemoveCommand(l) PROVE LedgerTypeOK'
  BY <1>3, <1>1, DropLedger, CommandTyped DEF RemoveCommand
<1>4. ASSUME DegradeCommand(l) PROVE LedgerTypeOK'
  <2>1. [server[l] EXCEPT !.status = "anchor_lost"] \in Entries
    BY <1>4, <1>1, LedgerShape, EntryStatus DEF DegradeCommand, Statuses
  <2> QED
    BY <1>4, <2>1, <1>1, PutLedger, CommandTyped DEF DegradeCommand
<1>5. ASSUME RestoreCommand(l) PROVE LedgerTypeOK'
  BY <1>5, <1>1, PutLedger, ClaimIsEntry, CommandTyped DEF RestoreCommand
<1> QED
  BY <1>2, <1>3, <1>4, <1>5

LEMMA WritesTyped ==
  ASSUME LedgerTypeOK, StartWrite \/ WriteLands \/ WriteEnds \/ WriteFails
  PROVE  LedgerTypeOK'
<1>1. ASSUME StartWrite PROVE LedgerTypeOK'
  BY <1>1 DEF StartWrite, LedgerTypeOK, fileVars, docVars, copies, history
<1>2. ASSUME WriteLands PROVE LedgerTypeOK'
  BY <1>2 DEF WriteLands, LedgerTypeOK, docVars, copies
<1>3. ASSUME WriteEnds PROVE LedgerTypeOK'
  BY <1>3 DEF WriteEnds, LedgerTypeOK, fileVars, docVars, copies, history
<1>4. ASSUME WriteFails PROVE LedgerTypeOK'
  <2>1. mishaps' \in 0 .. MaxMishaps
    BY <1>4, LedgerAssumption DEF WriteFails, LedgerTypeOK
  <2>2. dirty' \in BOOLEAN /\ apart' \in BOOLEAN /\ disturbed' \in BOOLEAN
    BY <1>4 DEF WriteFails, LedgerTypeOK, Disturb
  <2> QED
    BY <1>4, <2>1, <2>2 DEF WriteFails, LedgerTypeOK, fileVars, docVars, copies
<1> QED
  BY <1>1, <1>2, <1>3, <1>4

LEMMA LoadsTyped ==
  ASSUME LedgerTypeOK, LoadStarts \/ LoadEnds \/ TakeNotice
  PROVE  LedgerTypeOK'
<1>1. ASSUME LoadStarts PROVE LedgerTypeOK'
  <2>1. calls' \in 0 .. MaxCalls
    BY <1>1, CallCounts DEF LoadStarts, LedgerTypeOK
  <2> QED
    BY <1>1, <2>1 DEF LoadStarts, LedgerTypeOK, Disturb, fileVars, docVars, copies
<1>2. ASSUME LoadEnds PROVE LedgerTypeOK'
  BY <1>2 DEF LoadEnds, LedgerTypeOK, fileVars, docVars, copies, history
<1>3. ASSUME TakeNotice PROVE LedgerTypeOK'
  <2>1. Head(notices) \in Ledgers /\ Tail(notices) \in Seq(Ledgers)
    BY <1>3 DEF TakeNotice, LedgerTypeOK
  <2> QED
    BY <1>3, <2>1 DEF TakeNotice, LedgerTypeOK, docVars, copies, history
<1> QED
  BY <1>1, <1>2, <1>3

LEMMA DeleteTyped ==
  ASSUME LedgerTypeOK, NEW d \in Documents, DeleteDocument(d)
  PROVE  LedgerTypeOK'
<1>1. stored' \in Ledgers
  BY DropLedger DEF DeleteDocument, LedgerTypeOK
<1>2. notices' \in Seq(Ledgers)
  BY <1>1 DEF DeleteDocument, LedgerTypeOK
<1>3. kept' \in [Documents -> SUBSET Links]
  BY DEF DeleteDocument, LedgerTypeOK
<1>4. calls' \in 0 .. MaxCalls
  BY CallCounts DEF DeleteDocument, LedgerTypeOK
<1> QED
  BY <1>1, <1>2, <1>3, <1>4 DEF DeleteDocument, LedgerTypeOK, Disturb, serverVars, copies

LEMMA ApartTyped ==
  ASSUME LedgerTypeOK, NEW ledger \in Ledgers, WrittenApart(ledger)
  PROVE  stored' \in Ledgers /\ apart' \in BOOLEAN /\ disturbed' \in BOOLEAN
BY DEF WrittenApart, Disturb

LEMMA PaneTyped ==
  ASSUME LedgerTypeOK,
         \/ \E l \in Links : DismissEdge(l)
         \/ \E ledger \in patches : PatchLands(ledger)
         \/ RefreshPane
  PROVE  LedgerTypeOK'
<1>1. ASSUME NEW l \in Links, DismissEdge(l) PROVE LedgerTypeOK'
  <2>1. pane' \in Ledgers
    BY <1>1, DropLedger DEF DismissEdge, LedgerTypeOK
  <2>2. calls' \in 0 .. MaxCalls
    BY <1>1, CallCounts DEF DismissEdge, LedgerTypeOK
  <2> QED
    BY <1>1, <2>1, <2>2 DEF DismissEdge, LedgerTypeOK, serverVars, fileVars, docVars, history
<1>2. ASSUME NEW ledger \in patches, PatchLands(ledger) PROVE LedgerTypeOK'
  <2>1. ledger \in Ledgers
    BY <1>2 DEF LedgerTypeOK
  <2> QED
    BY <1>2, <2>1, ApartTyped DEF PatchLands, LedgerTypeOK, serverVars, docVars
<1>3. ASSUME RefreshPane PROVE LedgerTypeOK'
  <2>1. calls' \in 0 .. MaxCalls
    BY <1>3, CallCounts DEF RefreshPane, LedgerTypeOK
  <2> QED
    BY <1>3, <2>1 DEF RefreshPane, LedgerTypeOK, serverVars, fileVars, docVars, history
<1> QED
  BY <1>1, <1>2, <1>3

LEMMA ToolTyped ==
  ASSUME LedgerTypeOK, ToolStarts \/ ToolSaves
  PROVE  LedgerTypeOK'
<1>1. ASSUME ToolStarts PROVE LedgerTypeOK'
  <2>1. calls' \in 0 .. MaxCalls
    BY <1>1, CallCounts DEF ToolStarts, LedgerTypeOK
  <2>2. tool' \in Ledgers
    BY <1>1, EmptyIsLedger DEF ToolStarts, LedgerTypeOK
  <2> QED
    BY <1>1, <2>1, <2>2 DEF ToolStarts, LedgerTypeOK, serverVars, fileVars, docVars, history
<1>2. ASSUME ToolSaves PROVE LedgerTypeOK'
  <2>1. tool \in Ledgers
    BY <1>2 DEF ToolSaves, LedgerTypeOK
  <2>2. [status : {"active"}, claimed : BOOLEAN] \subseteq Entries
    BY DEF Entries, Statuses
  <2>3. stored' \in Ledgers /\ apart' \in BOOLEAN /\ disturbed' \in BOOLEAN
    <3>1. CASE \E l \in Links, e \in [status : {"active"}, claimed : BOOLEAN] :
                 WrittenApart(Upserted(tool, l, e))
      BY <3>1, <2>1, <2>2, UpsertedLedger, ApartTyped
    <3>2. CASE \E L \in SUBSET DOMAIN tool : WrittenApart(Drop(tool, L))
      BY <3>2, <2>1, DropLedger, ApartTyped
    <3>3. CASE UNCHANGED <<stored, apart, disturbed>>
      BY <3>3 DEF LedgerTypeOK
    <3> QED
      BY <1>2, <3>1, <3>2, <3>3 DEF ToolSaves
  <2> QED
    BY <1>2, <2>3 DEF ToolSaves, LedgerTypeOK, serverVars, docVars
<1> QED
  BY <1>1, <1>2

LEMMA TypeStep == LedgerTypeOK /\ [Next]_vars => LedgerTypeOK'
<1>1. SUFFICES ASSUME LedgerTypeOK, [Next]_vars PROVE LedgerTypeOK'
  OBVIOUS
<1>2. CASE UNCHANGED vars
  BY <1>1, <1>2 DEF LedgerTypeOK, vars, serverVars, fileVars, docVars, copies, history
<1>3. CASE Next
  BY <1>1, <1>3, EditTyped, StoreDocumentTyped, ClaimsSyncedTyped, CommandsTyped, WritesTyped,
     LoadsTyped, DeleteTyped, PaneTyped, ToolTyped DEF Next
<1> QED
  BY <1>1, <1>2, <1>3

(* Every copy of the ledger, read, written or on its way, is a ledger.       *)
THEOREM LedgerTypeCorrect == Spec => []LedgerTypeOK
BY TypeInit, TypeStep, PTL DEF Spec

-----------------------------------------------------------------------------
(* Cycles.                                                                   *)

Sound(ledger) == Acyclic(InForce(ledger))

(* Fewer links have no more cycles.                                          *)
LEMMA AcyclicSubset ==
  ASSUME NEW L, NEW M, M \subseteq L, Acyclic(L)
  PROVE  Acyclic(M)
BY DEF Acyclic

LEMMA EmptySound == Sound(Empty)
<1>1. InForce(Empty) = {}
  BY DEF InForce, Empty
<1> QED
  BY <1>1 DEF Sound, Acyclic

LEMMA DropSound ==
  ASSUME NEW ledger, NEW L, Sound(ledger)
  PROVE  Sound(Drop(ledger, L))
<1>1. InForce(Drop(ledger, L)) \subseteq InForce(ledger)
  BY DEF InForce, Drop
<1> QED
  BY <1>1, AcyclicSubset DEF Sound

(* An entry that is put in place brings no other link into force.            *)
LEMMA PutInForce ==
  ASSUME NEW ledger, NEW l, NEW e
  PROVE  InForce(Put(ledger, l, e)) \subseteq InForce(ledger) \cup ({l} \cap Supersedes)
BY DEF InForce, Put

(* One put in place of a link in force does not bring about a cycle.         *)
LEMMA PutSound ==
  ASSUME NEW ledger, NEW l, NEW e, Sound(ledger), l \in DOMAIN ledger,
         ledger[l].status # "archived"
  PROVE  Sound(Put(ledger, l, e))
<1>1. {l} \cap Supersedes \subseteq InForce(ledger)
  BY DEF InForce
<1>2. InForce(Put(ledger, l, e)) \subseteq InForce(ledger)
  BY <1>1, PutInForce
<1> QED
  BY <1>2, AcyclicSubset DEF Sound

(* The check before an upsert is enough, unless it is one that archives and  *)
(* by that revives an archived entry.                                        *)
LEMMA UpsertSound ==
  ASSUME NEW ledger, NEW l \in Links, NEW e \in Entries, Sound(ledger), MayUpsert(ledger, l, e),
         ~(l \in DOMAIN ledger /\ ledger[l].status = "archived" /\ e.status = "archived")
  PROVE  Sound(Upserted(ledger, l, e))
<1>1. PICK x : Upserted(ledger, l, e) = Put(ledger, l, x) /\ (l \notin DOMAIN ledger => x = e)
  BY DEF Upserted
<1>2. CASE l \in Supersedes /\ e.status # "archived"
  <2>1. Acyclic(InForce(ledger) \cup {l})
    BY <1>2 DEF MayUpsert
  <2>2. InForce(Put(ledger, l, x)) \subseteq InForce(ledger) \cup {l}
    BY PutInForce
  <2> QED
    BY <2>1, <2>2, <1>1, AcyclicSubset DEF Sound
<1>3. CASE l \notin Supersedes
  <2>1. InForce(Put(ledger, l, x)) \subseteq InForce(ledger)
    BY <1>3, PutInForce
  <2> QED
    BY <2>1, <1>1, AcyclicSubset DEF Sound
<1>4. CASE e.status = "archived" /\ l \in DOMAIN ledger
  BY <1>1, <1>4, PutSound
<1>5. CASE e.status = "archived" /\ l \notin DOMAIN ledger
  <2>1. InForce(Put(ledger, l, e)) \subseteq InForce(ledger)
    BY <1>5 DEF InForce, Put
  <2> QED
    BY <2>1, <1>1, <1>5, AcyclicSubset DEF Sound
<1> QED
  BY <1>2, <1>3, <1>4, <1>5

(* Claims that are brought in close no cycle.                                *)
LEMMA WithClaimsSound ==
  ASSUME NEW ledger, NEW C, Sound(ledger), Reaches(ledger, C)
  PROVE  Sound(WithClaims(ledger, C))
<1>1. CASE C \cap Supersedes = {}
  <2>1. InForce(WithClaims(ledger, C)) \subseteq InForce(ledger)
    BY <1>1 DEF InForce, WithClaims
  <2> QED
    BY <2>1, AcyclicSubset DEF Sound
<1>2. CASE C \cap Supersedes # {}
  BY <1>2 DEF Reaches, Sound
<1> QED
  BY <1>1, <1>2

LEMMA DegradedSound ==
  ASSUME NEW ledger, NEW d, NEW C, Sound(ledger)
  PROVE  Sound(Degraded(ledger, d, C))
<1>1. InForce(Degraded(ledger, d, C)) \subseteq InForce(ledger)
  <2>1. Claim.status # "archived"
    BY DEF Claim
  <2> QED
    BY <2>1 DEF InForce, Degraded
<1> QED
  BY <1>1, AcyclicSubset DEF Sound

LEMMA SyncedSound ==
  ASSUME NEW ledger, NEW d, NEW C, NEW P \in Upserts(ledger, C), Sound(ledger)
  PROVE  Sound(Synced(ledger, d, C, P))
<1>1. Reaches(ledger, P)
  BY DEF Upserts
<1>2. Sound(WithClaims(ledger, P))
  BY <1>1, WithClaimsSound
<1>3. CASE P = C
  BY <1>2, <1>3, DegradedSound DEF Synced
<1>4. CASE P # C
  BY <1>2, <1>4 DEF Synced
<1> QED
  BY <1>3, <1>4

(* The inductive invariant: AcyclicUnlessRevived, copy by copy.              *)
EveryCopySound ==
  ~revived =>
    /\ Sound(server) /\ Sound(stored) /\ Sound(pane)
    /\ writing # None => Sound(writing)
    /\ fetched # None => Sound(fetched)
    /\ tool # None => Sound(tool)
    /\ \A ledger \in patches : Sound(ledger)
    /\ \A i \in DOMAIN notices : Sound(notices[i])

LEMMA SoundInit == Init => EveryCopySound
BY EmptySound DEF Init, EveryCopySound

LEMMA SoundDocuments ==
  ASSUME EveryCopySound, NEW d \in Documents, Edit(d) \/ StoreDocument(d) \/ ClaimsSynced(d)
  PROVE  EveryCopySound'
<1>1. ASSUME Edit(d) PROVE EveryCopySound'
  <2>1. ~revived => Sound(pane')
    BY <1>1, SyncedSound DEF Edit, EveryCopySound
  <2> QED
    BY <1>1, <2>1 DEF Edit, EveryCopySound, serverVars, fileVars, history
<1>2. ASSUME StoreDocument(d) PROVE EveryCopySound'
  BY <1>2 DEF StoreDocument, EveryCopySound, serverVars, fileVars, copies, history
<1>3. ASSUME ClaimsSynced(d) PROVE EveryCopySound'
  <2>1. ~revived => Sound(server')
    BY <1>3, SyncedSound DEF ClaimsSynced, EveryCopySound
  <2> QED
    BY <1>3, <2>1 DEF ClaimsSynced, EveryCopySound, fileVars, copies
<1> QED
  BY <1>1, <1>2, <1>3

LEMMA SoundCommanded ==
  ASSUME EveryCopySound, NEW ledger, NEW revives, Commanded(ledger, revives),
         ~revived /\ ~revives => Sound(ledger)
  PROVE  EveryCopySound'
BY DEF Commanded, EveryCopySound, fileVars, docVars, copies

LEMMA SoundCommands ==
  ASSUME EveryCopySound, NEW l \in Links,
         \/ \E e \in Entries : UpsertCommand(l, e)
         \/ RemoveCommand(l) \/ DegradeCommand(l) \/ RestoreCommand(l)
  PROVE  EveryCopySound'
<1>1. ASSUME NEW e \in Entries, UpsertCommand(l, e) PROVE EveryCopySound'
  <2>1. ~revived /\ ~(Archived(l) /\ e.status = "archived") => Sound(Upserted(server, l, e))
    BY <1>1, UpsertSound DEF UpsertCommand, Archived, EveryCopySound
  <2> QED
    BY <1>1, <2>1, SoundCommanded DEF UpsertCommand
<1>2. ASSUME RemoveCommand(l) PROVE EveryCopySound'
  <2>1. ~revived => Sound(Drop(server, {l}))
    BY DropSound DEF EveryCopySound
  <2> QED
    BY <1>2, <2>1, SoundCommanded DEF RemoveCommand
<1>3. ASSUME DegradeCommand(l) PROVE EveryCopySound'
  <2> DEFINE e == [server[l] EXCEPT !.status = "anchor_lost"]
  <2>1. ~revived /\ ~Archived(l) => Sound(Put(server, l, e))
    BY <1>3, PutSound DEF DegradeCommand, Archived, EveryCopySound
  <2> QED
    BY <1>3, <2>1, SoundCommanded DEF DegradeCommand
<1>4. ASSUME RestoreCommand(l) PROVE EveryCopySound'
  <2>1. ~revived /\ ~Archived(l) => Sound(Put(server, l, Claim))
    BY <1>4, PutSound DEF RestoreCommand, Archived, EveryCopySound
  <2> QED
    BY <1>4, <2>1, SoundCommanded DEF RestoreCommand
<1> QED
  BY <1>1, <1>2, <1>3, <1>4

LEMMA SoundTransfers ==
  ASSUME EveryCopySound, StartWrite \/ WriteLands \/ WriteEnds \/ WriteFails \/ LoadStarts \/ LoadEnds
  PROVE  EveryCopySound'
<1>1. CASE StartWrite
  BY <1>1 DEF StartWrite, EveryCopySound, fileVars, docVars, copies, history
<1>2. CASE WriteLands
  BY <1>2 DEF WriteLands, EveryCopySound, docVars, copies
<1>3. CASE WriteEnds
  BY <1>3 DEF WriteEnds, EveryCopySound, fileVars, docVars, copies, history
<1>4. CASE WriteFails
  BY <1>4 DEF WriteFails, EveryCopySound, fileVars, docVars, copies
<1>5. CASE LoadStarts
  BY <1>5 DEF LoadStarts, EveryCopySound, fileVars, docVars, copies
<1>6. CASE LoadEnds
  BY <1>6 DEF LoadEnds, EveryCopySound, fileVars, docVars, copies, history
<1> QED
  BY <1>1, <1>2, <1>3, <1>4, <1>5, <1>6

LEMMA SoundCascade ==
  ASSUME LedgerTypeOK, EveryCopySound, (\E d \in Documents : DeleteDocument(d)) \/ TakeNotice
  PROVE  EveryCopySound'
<1>1. ASSUME NEW d \in Documents, DeleteDocument(d) PROVE EveryCopySound'
  <2>1. ~revived => Sound(stored')
    BY <1>1, DropSound DEF DeleteDocument, EveryCopySound
  <2>2. \A i \in DOMAIN notices' :
          notices'[i] = stored' \/ (i \in DOMAIN notices /\ notices'[i] = notices[i])
    BY <1>1 DEF DeleteDocument, LedgerTypeOK
  <2> QED
    BY <1>1, <2>1, <2>2 DEF DeleteDocument, EveryCopySound, serverVars, copies
<1>2. ASSUME TakeNotice PROVE EveryCopySound'
  <2>1. ~revived => Sound(server')
    BY <1>2 DEF TakeNotice, LedgerTypeOK, EveryCopySound
  <2>2. \A i \in DOMAIN notices' : i + 1 \in DOMAIN notices /\ notices'[i] = notices[i + 1]
    BY <1>2 DEF TakeNotice, LedgerTypeOK
  <2> QED
    BY <1>2, <2>1, <2>2 DEF TakeNotice, EveryCopySound, docVars, copies, history
<1> QED
  BY <1>1, <1>2

LEMMA SoundOthers ==
  ASSUME EveryCopySound,
         \/ \E l \in Links : DismissEdge(l)
         \/ \E ledger \in patches : PatchLands(ledger)
         \/ RefreshPane \/ ToolStarts \/ ToolSaves
  PROVE  EveryCopySound'
<1>1. ASSUME NEW l \in Links, DismissEdge(l) PROVE EveryCopySound'
  <2>1. ~revived => Sound(pane')
    BY <1>1, DropSound DEF DismissEdge, EveryCopySound
  <2> QED
    BY <1>1, <2>1 DEF DismissEdge, EveryCopySound, serverVars, fileVars, docVars, history
<1>2. ASSUME NEW ledger \in patches, PatchLands(ledger) PROVE EveryCopySound'
  BY <1>2 DEF PatchLands, WrittenApart, EveryCopySound, serverVars, docVars
<1>3. CASE RefreshPane
  BY <1>3 DEF RefreshPane, EveryCopySound, serverVars, fileVars, docVars, history
<1>4. CASE ToolStarts
  BY <1>4, EmptySound DEF ToolStarts, EveryCopySound, serverVars, fileVars, docVars, history
<1>5. CASE ToolSaves
  <2>1. ~revived => Sound(stored')
    <3>1. ASSUME NEW l \in Links, NEW e \in [status : {"active"}, claimed : BOOLEAN], ~revived,
                 MayUpsert(tool, l, e), WrittenApart(Upserted(tool, l, e))
          PROVE  Sound(stored')
      <4>1. e \in Entries /\ e.status # "archived"
        BY DEF Entries, Statuses
      <4> QED
        BY <1>5, <3>1, <4>1, UpsertSound DEF ToolSaves, WrittenApart, EveryCopySound
    <3>2. ASSUME NEW L, ~revived, WrittenApart(Drop(tool, L)) PROVE Sound(stored')
      BY <1>5, <3>2, DropSound DEF ToolSaves, WrittenApart, EveryCopySound
    <3> QED
      BY <1>5, <3>1, <3>2 DEF ToolSaves, EveryCopySound
  <2> QED
    BY <1>5, <2>1 DEF ToolSaves, EveryCopySound, serverVars, docVars
<1> QED
  BY <1>1, <1>2, <1>3, <1>4, <1>5

LEMMA SoundStep == LedgerTypeOK /\ EveryCopySound /\ [Next]_vars => EveryCopySound'
<1>1. SUFFICES ASSUME LedgerTypeOK, EveryCopySound, [Next]_vars PROVE EveryCopySound'
  OBVIOUS
<1>2. CASE UNCHANGED vars
  BY <1>1, <1>2 DEF EveryCopySound, vars, serverVars, fileVars, docVars, copies, history
<1>3. CASE Next
  BY <1>1, <1>3, SoundDocuments, SoundCommands, SoundTransfers, SoundCascade, SoundOthers DEF Next
<1> QED
  BY <1>1, <1>2, <1>3

LEMMA SoundSuffices == EveryCopySound => AcyclicUnlessRevived
BY DEF EveryCopySound, AcyclicUnlessRevived, Copies, Sound

(* No copy of the ledger has a cycle of supersession, unless a command       *)
(* brought back an archived link.                                            *)
THEOREM NoCycleUnlessRevived == Spec => []AcyclicUnlessRevived
<1>1. Spec => []EveryCopySound
  BY LedgerTypeCorrect, SoundInit, SoundStep, PTL DEF Spec
<1> QED
  BY <1>1, SoundSuffices, PTL

-----------------------------------------------------------------------------
(* What is stored.                                                           *)

(* Without an edit that waits, what is being written is what is in memory,   *)
(* and it is what is stored once it has landed.                              *)
WritingIsServer ==
  /\ landed => writing # None
  /\ writing # None /\ ~dirty => writing = server
  /\ writing # None /\ landed /\ ~dirty /\ ~Replaced /\ ~apart => stored = writing

StoredInv == WritingIsServer /\ StoredFollowsServer

LEMMA StoredInit == Init => StoredInv
BY DEF Init, StoredInv, WritingIsServer, StoredFollowsServer

LEMMA StoredDocuments ==
  ASSUME StoredInv, NEW d \in Documents, Edit(d) \/ StoreDocument(d) \/ ClaimsSynced(d)
  PROVE  StoredInv'
<1>1. CASE Edit(d)
  BY <1>1 DEF Edit, StoredInv, WritingIsServer, StoredFollowsServer, Busy, Replaced,
              serverVars, fileVars, history
<1>2. CASE StoreDocument(d)
  BY <1>2 DEF StoreDocument, StoredInv, WritingIsServer, StoredFollowsServer, Busy, Replaced,
              serverVars, fileVars, copies, history
<1>3. CASE ClaimsSynced(d)
  <2>1. ~dirty' => ~dirty /\ server' = server
    BY <1>3 DEF ClaimsSynced
  <2> QED
    BY <1>3, <2>1 DEF ClaimsSynced, StoredInv, WritingIsServer, StoredFollowsServer, Busy, Replaced,
              fileVars, copies
<1> QED
  BY <1>1, <1>2, <1>3

LEMMA StoredCommands ==
  ASSUME StoredInv, NEW ledger, NEW revives, Commanded(ledger, revives)
  PROVE  StoredInv'
BY DEF Commanded, StoredInv, WritingIsServer, StoredFollowsServer, Busy, Replaced, fileVars, docVars,
       copies

LEMMA StoredWrites ==
  ASSUME StoredInv, LedgerTypeOK, StartWrite \/ WriteLands \/ WriteEnds \/ WriteFails
  PROVE  StoredInv'
<1>0. server # None
  BY NoneAssumption DEF LedgerTypeOK
<1>1. CASE StartWrite
  BY <1>0, <1>1 DEF StartWrite, StoredInv, WritingIsServer, StoredFollowsServer, Busy, Replaced,
              fileVars, docVars, copies, history
<1>2. CASE WriteLands
  BY <1>2 DEF WriteLands, StoredInv, WritingIsServer, StoredFollowsServer, Busy, Replaced,
              docVars, copies
<1>3. CASE WriteEnds
  BY <1>3 DEF WriteEnds, StoredInv, WritingIsServer, StoredFollowsServer, Busy, Replaced,
              fileVars, docVars, copies, history
<1>4. CASE WriteFails
  BY <1>4 DEF WriteFails, StoredInv, WritingIsServer, StoredFollowsServer, Busy, Replaced,
              fileVars, docVars, copies
<1> QED
  BY <1>1, <1>2, <1>3, <1>4

LEMMA StoredLoads ==
  ASSUME StoredInv, LedgerTypeOK, LoadStarts \/ LoadEnds \/ TakeNotice
  PROVE  StoredInv'
<1>0. stored # None
  BY NoneAssumption DEF LedgerTypeOK
<1>1. CASE LoadStarts
  BY <1>0, <1>1 DEF LoadStarts, StoredInv, WritingIsServer, StoredFollowsServer, Busy, Replaced,
              fileVars, docVars, copies
<1>2. CASE LoadEnds
  BY <1>2 DEF LoadEnds, StoredInv, WritingIsServer, StoredFollowsServer, Busy, Replaced,
              fileVars, docVars, copies, history
<1>3. CASE TakeNotice
  BY <1>3 DEF TakeNotice, StoredInv, WritingIsServer, StoredFollowsServer, Busy, Replaced,
              docVars, copies, history
<1> QED
  BY <1>1, <1>2, <1>3

(* A deletion without a notice leaves the stored ledger as it was.           *)
LEMMA DeletionNoticed ==
  ASSUME LedgerTypeOK, NEW d \in Documents, DeleteDocument(d)
  PROVE  \/ notices' # <<>>
         \/ notices' = <<>> /\ notices = <<>> /\ stored' = stored
            /\ DOMAIN stored \cap Incident(d) = {}
<1>1. CASE DOMAIN stored \cap Incident(d) = {}
  <2>1. stored' = stored
    BY <1>1, DropNothing DEF DeleteDocument, LedgerTypeOK
  <2> QED
    BY <1>1, <2>1 DEF DeleteDocument
<1>2. CASE DOMAIN stored \cap Incident(d) # {}
  <2>1. notices' = Append(notices, stored') /\ notices \in Seq(Ledgers) /\ stored' \in Ledgers
    BY <1>2, DeleteTyped DEF DeleteDocument, LedgerTypeOK
  <2> QED
    BY <2>1
<1> QED
  BY <1>1, <1>2

LEMMA StoredDeletes ==
  ASSUME StoredInv, LedgerTypeOK, NEW d \in Documents, DeleteDocument(d)
  PROVE  StoredInv'
<1>1. /\ UNCHANGED <<server, dirty, writing, landed, fetched, apart>>
      /\ Replaced' \/ (~Replaced' /\ stored' = stored /\ (Replaced = Replaced'))
  BY DeletionNoticed DEF DeleteDocument, serverVars, Replaced
<1> QED
  BY <1>1 DEF StoredInv, WritingIsServer, StoredFollowsServer, Busy

LEMMA StoredOthers ==
  ASSUME StoredInv,
         \/ \E l \in Links : DismissEdge(l)
         \/ \E ledger \in patches : PatchLands(ledger)
         \/ RefreshPane \/ ToolStarts \/ ToolSaves
  PROVE  StoredInv'
<1>1. UNCHANGED <<server, dirty, writing, landed, fetched, notices>>
  BY DEF DismissEdge, PatchLands, RefreshPane, ToolStarts, ToolSaves, serverVars, fileVars
<1>2. apart' \/ UNCHANGED <<stored, apart>>
  BY DEF DismissEdge, PatchLands, RefreshPane, ToolStarts, ToolSaves, WrittenApart, fileVars, history
<1> QED
  BY <1>1, <1>2 DEF StoredInv, WritingIsServer, StoredFollowsServer, Busy, Replaced

LEMMA StoredStep == LedgerTypeOK /\ StoredInv /\ [Next]_vars => StoredInv'
<1>1. SUFFICES ASSUME LedgerTypeOK, StoredInv, [Next]_vars PROVE StoredInv'
  OBVIOUS
<1>2. CASE UNCHANGED vars
  BY <1>1, <1>2 DEF StoredInv, WritingIsServer, StoredFollowsServer, Busy, Replaced, vars, serverVars,
                    fileVars, docVars, copies, history
<1>3. ASSUME NEW l \in Links,
             \/ \E e \in Entries : UpsertCommand(l, e)
             \/ RemoveCommand(l) \/ DegradeCommand(l) \/ RestoreCommand(l)
      PROVE  StoredInv'
  BY <1>1, <1>3, StoredCommands DEF UpsertCommand, RemoveCommand, DegradeCommand, RestoreCommand
<1>4. CASE Next
  BY <1>1, <1>3, <1>4, StoredDocuments, StoredWrites, StoredLoads, StoredDeletes, StoredOthers
  DEF Next
<1> QED
  BY <1>1, <1>2, <1>4

(* When nothing is under way, the stored ledger is the one in memory, unless *)
(* another wrote it last or the worker gave up.                              *)
THEOREM StoredIsServer == Spec => []StoredFollowsServer
<1>1. StoredInv => StoredFollowsServer
  BY DEF StoredInv
<1> QED
  BY <1>1, LedgerTypeCorrect, StoredInit, StoredStep, PTL DEF Spec

-----------------------------------------------------------------------------
(* What the documents claim.                                                 *)

ClaimedIn(ledger, d) == {l \in DOMAIN ledger : From[l] = d /\ ledger[l] = Claim}

Follows(ledger) == \A d \in Documents :
  /\ ClaimedIn(ledger, d) \subseteq kept[d]
  /\ {l \in kept[d] : To[l] \in existing} \subseteq ClaimedIn(ledger, d)

(* A document holds only its own claims.                                     *)
OwnClaims == \A d \in Documents :
  /\ text[d] \subseteq LinksOf(d) /\ kept[d] \subseteq LinksOf(d)
  /\ saving[d] # None => saving[d] \subseteq LinksOf(d)

(* As long as nothing disturbed it, the ledger in memory, or the one that is *)
(* about to replace it, has the claims of the documents.                     *)
ClaimsInv ==
  /\ OwnClaims
  /\ ~disturbed =>
       /\ ~apart
       /\ ~Replaced => Follows(server)
       /\ fetched # None => notices = <<>> /\ Follows(fetched)
       /\ notices # <<>> => Len(notices) = 1 /\ Follows(notices[1])

LEMMA ClaimsInit == Init => ClaimsInv
<1>1. SUFFICES ASSUME Init PROVE ClaimsInv
  OBVIOUS
<1>2. OwnClaims
  BY <1>1 DEF Init, OwnClaims
<1>3. Follows(server)
  BY <1>1 DEF Init, Follows, ClaimedIn, Empty
<1> QED
  BY <1>1, <1>2, <1>3 DEF Init, ClaimsInv

(* Follows looks at no variable but kept and existing.                       *)
LEMMA FollowsStays ==
  ASSUME NEW ledger, Follows(ledger), UNCHANGED <<kept, existing>>
  PROVE  Follows(ledger)'
BY DEF Follows, ClaimedIn

(* Once the claims of a document are brought in, the ledger has just those.  *)
LEMMA FollowsSynced ==
  ASSUME LedgerTypeOK, OwnClaims, NEW d \in Documents, NEW C \in SUBSET LinksOf(d), Follows(server),
         server' = Degraded(WithClaims(server, C), d, C),
         kept' = [kept EXCEPT ![d] = C], existing' = existing
  PROVE  Follows(server)'
<1>1. DOMAIN server' = DOMAIN server \cup C
  BY DEF Degraded, WithClaims
<1>2. [Claim EXCEPT !.status = "anchor_lost"] # Claim
  BY DEF Claim
<1>3. \A l \in DOMAIN server' :
        server'[l] = IF l \in C THEN Claim
                     ELSE IF From[l] = d /\ server[l] = Claim
                          THEN [Claim EXCEPT !.status = "anchor_lost"] ELSE server[l]
  BY <1>1 DEF Degraded, WithClaims
<1>4. ClaimedIn(server', d) = C
  BY <1>1, <1>2, <1>3 DEF ClaimedIn, LinksOf
<1>5. ASSUME NEW e \in Documents, e # d PROVE ClaimedIn(server', e) = ClaimedIn(server, e)
  BY <1>1, <1>3, <1>5 DEF ClaimedIn, LinksOf
<1>6. kept'[d] = C /\ \A e \in Documents : e # d => kept'[e] = kept[e]
  BY DEF LedgerTypeOK
<1>7. \A e \in Documents :
        /\ ClaimedIn(server', e) \subseteq kept'[e]
        /\ {l \in kept'[e] : To[l] \in existing'} \subseteq ClaimedIn(server', e)
  BY <1>4, <1>5, <1>6 DEF Follows
<1> QED
  BY <1>7 DEF Follows, ClaimedIn

LEMMA ClaimsDocuments ==
  ASSUME LedgerTypeOK, ClaimsInv, NEW d \in Documents, Edit(d) \/ StoreDocument(d) \/ ClaimsSynced(d)
  PROVE  ClaimsInv'
<1>1. CASE Edit(d)
  <2>1. OwnClaims'
    BY <1>1 DEF Edit, ClaimsInv, OwnClaims, LedgerTypeOK
  <2> QED
    BY <1>1, <2>1 DEF Edit, ClaimsInv, Follows, ClaimedIn, Replaced, serverVars, fileVars, history
<1>2. CASE StoreDocument(d)
  <2>1. OwnClaims'
    BY <1>2 DEF StoreDocument, ClaimsInv, OwnClaims, LedgerTypeOK, docVars
  <2> QED
    BY <1>2, <2>1 DEF StoreDocument, ClaimsInv, Follows, ClaimedIn, Replaced, serverVars, fileVars, history
<1>3. CASE ClaimsSynced(d)
  <2>1. OwnClaims'
    BY <1>3, NoneAssumption DEF ClaimsSynced, ClaimsInv, OwnClaims, LedgerTypeOK
  <2>2. CASE disturbed'
    BY <2>1, <2>2 DEF ClaimsInv
  <2>3. CASE ~disturbed'
    <3>1. /\ ~disturbed /\ ~Replaced /\ d \in existing /\ Reaches(server, saving[d])
          /\ UNCHANGED <<fetched, notices, existing, apart>>
      BY <1>3, <2>3 DEF ClaimsSynced, Disturb, fileVars
    <3>2. /\ server' = Degraded(WithClaims(server, saving[d]), d, saving[d])
          /\ kept' = [kept EXCEPT ![d] = saving[d]]
          /\ saving[d] \in SUBSET LinksOf(d)
      BY <1>3, <3>1 DEF ClaimsSynced, Upserts, Synced, ClaimsInv, OwnClaims
    <3>3. Follows(server)'
      BY <3>1, <3>2, FollowsSynced DEF ClaimsInv
    <3> QED
      BY <2>1, <3>1, <3>3 DEF ClaimsInv, Replaced
  <2> QED
    BY <2>2, <2>3
<1> QED
  BY <1>1, <1>2, <1>3

LEMMA ClaimsCommands ==
  ASSUME ClaimsInv, NEW ledger, NEW revives, Commanded(ledger, revives)
  PROVE  ClaimsInv'
<1>1. OwnClaims' /\ disturbed'
  BY DEF Commanded, Disturb, ClaimsInv, OwnClaims, docVars
<1> QED
  BY <1>1 DEF ClaimsInv

LEMMA ClaimsTransfers ==
  ASSUME LedgerTypeOK, ClaimsInv, StoredInv,
         \/ StartWrite \/ WriteLands \/ WriteEnds \/ WriteFails
         \/ LoadStarts \/ LoadEnds \/ TakeNotice
  PROVE  ClaimsInv'
<1>1. OwnClaims' /\ UNCHANGED <<kept, existing>>
  BY DEF StartWrite, WriteLands, WriteEnds, WriteFails, LoadStarts, LoadEnds, TakeNotice, ClaimsInv,
         OwnClaims, docVars, fileVars
<1>2. CASE StartWrite \/ WriteLands \/ WriteEnds \/ WriteFails
  <2>1. UNCHANGED <<server, fetched, notices>>
    BY <1>2 DEF StartWrite, WriteLands, WriteEnds, WriteFails, fileVars
  <2>2. ~disturbed' /\ ~apart => ~disturbed /\ ~apart'
    BY <1>2 DEF StartWrite, WriteLands, WriteEnds, WriteFails, Disturb, history
  <2>3. ~disturbed' => ~disturbed
    BY <1>2 DEF StartWrite, WriteLands, WriteEnds, WriteFails, Disturb, history
  <2> QED
    BY <1>1, <2>1, <2>2, <2>3 DEF ClaimsInv, Follows, ClaimedIn, Replaced
<1>3. CASE LoadStarts
  <2>1. CASE disturbed'
    BY <1>1, <2>1 DEF ClaimsInv
  <2>2. CASE ~disturbed'
    <3>1. /\ ~disturbed /\ ~Busy /\ ~Replaced /\ notices = <<>>
          /\ fetched' = stored /\ UNCHANGED <<server, notices, apart>>
      BY <1>3, <2>2 DEF LoadStarts, Disturb, Replaced, fileVars
    <3>2. stored = server /\ Follows(server)
      BY <3>1 DEF StoredInv, StoredFollowsServer, ClaimsInv
    <3>3. fetched' # None
      BY <3>1, NoneAssumption DEF LedgerTypeOK
    <3> QED
      BY <1>1, <3>1, <3>2, <3>3 DEF ClaimsInv, Follows, ClaimedIn, Replaced
  <2> QED
    BY <2>1, <2>2
<1>4. CASE LoadEnds
  <2>1. server' = fetched /\ fetched # None /\ fetched' = None /\ UNCHANGED <<notices, disturbed, apart>>
    BY <1>4 DEF LoadEnds, fileVars, history
  <2> QED
    BY <1>1, <2>1 DEF ClaimsInv, Follows, ClaimedIn, Replaced
<1>5. CASE TakeNotice
  <2>1. /\ notices # <<>> /\ server' = Head(notices) /\ notices' = Tail(notices)
        /\ UNCHANGED <<fetched, disturbed, apart>>
    BY <1>5 DEF TakeNotice, history
  <2>2. ~disturbed => notices' = <<>> /\ server' = notices[1] /\ fetched = None
    BY <2>1 DEF ClaimsInv, LedgerTypeOK
  <2> QED
    BY <1>1, <2>1, <2>2 DEF ClaimsInv, Follows, ClaimedIn, Replaced
<1> QED
  BY <1>2, <1>3, <1>4, <1>5

(* A deletion takes with it the links that name the document.                *)
LEMMA FollowsDropped ==
  ASSUME LedgerTypeOK, NEW ledger, Follows(ledger), NEW d \in Documents,
         kept' = [kept EXCEPT ![d] = {}], existing' = existing \ {d}
  PROVE  \A e \in Documents :
           LET claimed == ClaimedIn(Drop(ledger, Incident(d)), e) IN
           /\ claimed \subseteq kept'[e]
           /\ {l \in kept'[e] : To[l] \in existing'} \subseteq claimed
<1> DEFINE rest == Drop(ledger, Incident(d))
<1>1. kept'[d] = {} /\ \A e \in Documents : e # d => kept'[e] = kept[e]
  BY DEF LedgerTypeOK
<1>2. DOMAIN rest = DOMAIN ledger \ Incident(d) /\ \A l \in DOMAIN rest : rest[l] = ledger[l]
  BY DEF Drop
<1> HIDE DEF rest
<1>3. \A e \in Documents : ClaimedIn(rest, e) = ClaimedIn(ledger, e) \ Incident(d)
  BY <1>2 DEF ClaimedIn
<1>4. \A e \in Documents : \A l \in ClaimedIn(ledger, e) : l \in kept[e] /\ From[l] = e
  BY DEF Follows, ClaimedIn
<1>5. \A e \in Documents : ClaimedIn(rest, e) \subseteq kept'[e]
  <2>1. \A l \in kept[d] : l \in Links
    BY DEF LedgerTypeOK
  <2> QED
    BY <1>1, <1>3, <1>4, <2>1 DEF Incident
<1>6. ASSUME NEW e \in Documents, NEW l \in kept'[e], To[l] \in existing'
      PROVE  l \in ClaimedIn(rest, e)
  <2>1. e # d /\ l \in kept[e] /\ To[l] \in existing /\ To[l] # d
    BY <1>1, <1>6
  <2>2. l \in ClaimedIn(ledger, e) /\ From[l] = e
    BY <2>1, <1>4 DEF Follows
  <2> QED
    BY <2>1, <2>2, <1>3 DEF Incident
<1> QED
  BY <1>5, <1>6 DEF rest

LEMMA ClaimsDeletes ==
  ASSUME LedgerTypeOK, ClaimsInv, StoredInv, NEW d \in Documents, DeleteDocument(d)
  PROVE  ClaimsInv'
<1>1. OwnClaims'
  BY DEF DeleteDocument, ClaimsInv, OwnClaims, LedgerTypeOK
<1>2. CASE disturbed'
  BY <1>1, <1>2 DEF ClaimsInv
<1>3. CASE ~disturbed'
  <2>1. /\ ~disturbed /\ ~Busy /\ ~Replaced /\ notices = <<>> /\ fetched = None
        /\ UNCHANGED <<server, fetched, apart>>
        /\ kept' = [kept EXCEPT ![d] = {}] /\ existing' = existing \ {d}
        /\ stored' = Drop(stored, Incident(d))
    BY <1>3 DEF DeleteDocument, Disturb, Replaced, serverVars
  <2>2. stored = server /\ Follows(server)
    BY <2>1 DEF StoredInv, StoredFollowsServer, ClaimsInv
  <2>3. \A e \in Documents :
          LET claimed == ClaimedIn(Drop(server, Incident(d)), e) IN
          /\ claimed \subseteq kept'[e]
          /\ {l \in kept'[e] : To[l] \in existing'} \subseteq claimed
    BY <2>1, <2>2, FollowsDropped
  <2>4. CASE DOMAIN stored \cap Incident(d) = {}
    <3>1. notices' = notices /\ Drop(server, Incident(d)) = server
      BY <2>2, <2>4, DropNothing DEF DeleteDocument, LedgerTypeOK
    <3>2. Follows(server)'
      BY <2>1, <2>3, <3>1 DEF Follows, ClaimedIn
    <3> QED
      BY <1>1, <2>1, <3>1, <3>2 DEF ClaimsInv, Follows, ClaimedIn, Replaced
  <2>5. CASE DOMAIN stored \cap Incident(d) # {}
    <3>1. notices' = <<stored'>>
      BY <2>1, <2>5 DEF DeleteDocument
    <3>2. Len(notices') = 1 /\ notices'[1] = Drop(server, Incident(d))
      BY <2>1, <2>2, <3>1
    <3>3. Follows(notices[1])'
      BY <2>3, <3>2 DEF Follows, ClaimedIn
    <3> QED
      BY <1>1, <2>1, <3>1, <3>2, <3>3 DEF ClaimsInv, Replaced
  <2> QED
    BY <2>4, <2>5
<1> QED
  BY <1>2, <1>3

LEMMA ClaimsOthers ==
  ASSUME ClaimsInv,
         \/ \E l \in Links : DismissEdge(l)
         \/ \E ledger \in patches : PatchLands(ledger)
         \/ RefreshPane \/ ToolStarts \/ ToolSaves
  PROVE  ClaimsInv'
<1>1. UNCHANGED <<server, fetched, notices, existing, text, saving, kept>>
  BY DEF DismissEdge, PatchLands, RefreshPane, ToolStarts, ToolSaves, serverVars, fileVars, docVars
<1>2. disturbed' \/ UNCHANGED <<apart, disturbed>>
  BY DEF DismissEdge, PatchLands, RefreshPane, ToolStarts, ToolSaves, WrittenApart, Disturb, history
<1> QED
  BY <1>1, <1>2 DEF ClaimsInv, OwnClaims, Follows, ClaimedIn, Replaced

LEMMA ClaimsStep == LedgerTypeOK /\ StoredInv /\ ClaimsInv /\ [Next]_vars => ClaimsInv'
<1>1. SUFFICES ASSUME LedgerTypeOK, StoredInv, ClaimsInv, [Next]_vars PROVE ClaimsInv'
  OBVIOUS
<1>2. CASE UNCHANGED vars
  BY <1>1, <1>2 DEF ClaimsInv, OwnClaims, Follows, ClaimedIn, Replaced, vars, serverVars, fileVars,
                    docVars, copies, history
<1>3. ASSUME NEW l \in Links,
             \/ \E e \in Entries : UpsertCommand(l, e)
             \/ RemoveCommand(l) \/ DegradeCommand(l) \/ RestoreCommand(l)
      PROVE  ClaimsInv'
  BY <1>1, <1>3, ClaimsCommands DEF UpsertCommand, RemoveCommand, DegradeCommand, RestoreCommand
<1>4. CASE Next
  BY <1>1, <1>3, <1>4, ClaimsDocuments, ClaimsTransfers, ClaimsDeletes, ClaimsOthers DEF Next
<1> QED
  BY <1>1, <1>2, <1>4

(* The claims in force are those in the documents, unless something          *)
(* disturbed the ledger.                                                     *)
THEOREM ClaimsAreInForce == Spec => []ClaimsFollowDocuments
<1>1. ClaimsInv => ClaimsFollowDocuments
  BY DEF ClaimsInv, ClaimsFollowDocuments, Follows, ClaimedIn, Claimed
<1> QED
  BY <1>1, LedgerTypeCorrect, StoredInit, StoredStep, ClaimsInit, ClaimsStep, PTL DEF Spec
=============================================================================
