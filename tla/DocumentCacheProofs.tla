------------------------ MODULE DocumentCacheProofs ------------------------
(***************************************************************************)
(* Proofs about the copy of a document in ws-server.                       *)
(*                                                                         *)
(* What is kept, deleted and ordered is about histories in which no answer *)
(* crossed a notice.  It rests on there being one fetch at a time then,    *)
(* that it runs only while there is no copy, and that whatever the file    *)
(* server answers, the record it answers with does not come and go: it     *)
(* exists from its creation to its deletion.  That whoever waits has a     *)
(* fetch to wait for holds in every history.                               *)
(***************************************************************************)
EXTENDS DocumentCache, TLAPS

Active(f) == fills[f].phase \in {"asked", "answered", "log"}

(* What waits for a fetch, or for its turn after one.                      *)
Due == ready \cup {w.job : w \in waiting}

JobsNamed ==
  \A j \in Due :
    /\ j.kind = "command" => j.edit \in 1 .. edits /\ (restores = 0 => j.at + 1 = j.edit)
    /\ j.kind = "restored" => restores > 0

GivenFits ==
  \A f \in Fills : /\ fills[f].phase \in {"unused", "asked"} => fills[f].given = Nothing
                   /\ fills[f].phase = "log" => fills[f].given # Nothing

OneFetch ==
  /\ pending # 0 => Active(pending)
  /\ ~crossed =>
       /\ \A f \in Fills : Active(f) => f = pending
       /\ \A w \in waiting : w.fill = pending
       /\ ready # {} => pending = 0
       /\ \A f \in Fills : fills[f].phase \in {"asked", "answered"} => docs = Nothing

(* Nothing that announces or restores the record is sent after its delete. *)
InOrder(s) ==
  \A i, j \in DOMAIN s : i < j /\ s[i] = "delete" => s[j] \in {"deleted", "reload"}

(* The record is there from the time anything knows of it to its deletion. *)
RecordStays ==
  /\ deleted => record = Nothing
  /\ ~deleted =>
       /\ Coming \cap {"delete", "deleted"} = {} /\ orphans = {}
       /\ record = Nothing =>
            /\ docs = Nothing /\ "restored" \notin Coming
            /\ \A f \in Fills : fills[f].given = Nothing
            /\ \A j \in Due : j.kind = "command"
  /\ "restored" \in Coming => restores > 0
  /\ InOrder(notices)

(* After the notice of its deletion only fetches that find nothing and     *)
(* commands that will be dropped are left of an instance.                  *)
Gone ==
  ~crossed /\ deleted /\ "delete" \notin Coming =>
    /\ docs = Nothing /\ ~listed /\ queued = Nothing /\ writing = Nothing
    /\ Coming \cap {"created", "restored"} = {}
    /\ \A f \in Fills : fills[f].phase # "log" /\ (Active(f) => fills[f].given = Nothing)
    /\ \A j \in Due : j.kind = "command"

(* The newest of the copy, what is queued, what is written and the record  *)
(* has every edit that is to be kept.                                      *)
KeptSafe ==
  ~crossed /\ ~deleted =>
    /\ IF docs = Nothing THEN kept = {} ELSE kept \subseteq docs
    /\ queued # Nothing => kept \subseteq queued
    /\ queued = Nothing /\ writing # Nothing => kept \subseteq writing
    /\ queued = Nothing /\ writing = Nothing /\ "restored" \notin Coming
         => kept = {} \/ (record # Nothing /\ kept \subseteq record)

(* Commands that wait are newer than those applied, whose numbers are used *)
(* up; a fetch that found the record found it before any was applied.      *)
Rising ==
  ~crossed /\ ~late /\ restores = 0 =>
    /\ \A i, j \in DOMAIN applied : i < j =>
         applied[i].edit < applied[j].edit /\ applied[i].number < applied[j].number
    /\ \A i \in DOMAIN applied :
         /\ applied[i].edit <= edits /\ applied[i].number <= sequence
         /\ \A j \in Due : applied[i].edit < j.edit
    /\ docs = Nothing => applied = <<>> \/ deleted
    /\ \A f \in Fills : fills[f].given # Nothing /\ fills[f].phase \in {"answered", "log"}
                          => applied = <<>>

CInv == CacheTypeOK /\ JobsNamed /\ GivenFits /\ OneFetch /\ RecordStays /\ Gone /\ KeptSafe /\ Rising

-----------------------------------------------------------------------------
LEMMA NothingApart == Nothing \notin Contents
BY CacheAssumption DEF Nothing, Contents, Edits

LEMMA JobParts ==
  ASSUME NEW j \in Jobs
  PROVE  /\ j.at \in Nat /\ j.kind \in {"command", "restored"} /\ j.edit \in {0} \cup Edits
         /\ \A k \in Jobs : j.at = k.at /\ j.kind = k.kind /\ j.edit = k.edit => j = k
BY DEF Jobs

(* What is due consists of jobs.                                           *)
LEMMA DueTyped == CacheTypeOK => Due \subseteq Jobs
BY DEF CacheTypeOK, Due

(* What was acknowledged is a command with its number.                     *)
LEMMA AppliedTyped ==
  CacheTypeOK => \A i \in DOMAIN applied : applied[i].edit \in Edits /\ applied[i].number \in Nat
<1> SUFFICES ASSUME CacheTypeOK, NEW i \in DOMAIN applied
             PROVE  applied[i].edit \in Edits /\ applied[i].number \in Nat
  OBVIOUS
<1>1. applied \in Seq(Acks)
  BY DEF CacheTypeOK
<1>2. applied[i] \in Acks
  BY <1>1
<1> QED
  BY <1>2 DEF Acks

Sent(s) == {s[i] : i \in DOMAIN s}

LEMMA SentAppend ==
  ASSUME NEW s \in Seq(Notices), NEW n \in Notices
  PROVE  /\ Sent(Append(s, n)) = Sent(s) \cup {n} /\ Append(s, n) \in Seq(Notices)
         /\ InOrder(s) /\ (n \in {"deleted", "reload"} \/ "delete" \notin Sent(s)) => InOrder(Append(s, n))
<1>1. /\ Append(s, n) \in Seq(Notices) /\ DOMAIN s = 1 .. Len(s) /\ Len(s) \in Nat
      /\ DOMAIN Append(s, n) = 1 .. Len(s) + 1 /\ Append(s, n)[Len(s) + 1] = n
      /\ \A i \in 1 .. Len(s) : Append(s, n)[i] = s[i]
  OBVIOUS
<1>2. Sent(Append(s, n)) = Sent(s) \cup {n}
  BY <1>1 DEF Sent
<1>3. ASSUME InOrder(s), n \in {"deleted", "reload"} \/ "delete" \notin Sent(s)
      PROVE  InOrder(Append(s, n))
  BY <1>1, <1>3 DEF InOrder, Sent
<1> QED
  BY <1>1, <1>2, <1>3

LEMMA SentTail ==
  ASSUME NEW s \in Seq(Notices), s # <<>>
  PROVE  /\ Sent(s) = Sent(Tail(s)) \cup {Head(s)} /\ Tail(s) \in Seq(Notices)
         /\ InOrder(s) => /\ InOrder(Tail(s))
                          /\ Head(s) = "delete" => Sent(Tail(s)) \subseteq {"deleted", "reload"}
<1>1. /\ Tail(s) \in Seq(Notices) /\ DOMAIN s = 1 .. Len(s) /\ Len(s) \in Nat \ {0}
      /\ DOMAIN Tail(s) = 1 .. Len(s) - 1 /\ Head(s) = s[1]
      /\ \A i \in 1 .. Len(s) - 1 : Tail(s)[i] = s[i + 1]
  OBVIOUS
<1>2. Sent(s) = Sent(Tail(s)) \cup {Head(s)}
  <2>1. ASSUME NEW i \in 2 .. Len(s) PROVE s[i] = Tail(s)[i - 1] /\ i - 1 \in DOMAIN Tail(s)
    BY <1>1
  <2>2. ASSUME NEW x \in Sent(s) PROVE x \in Sent(Tail(s)) \cup {Head(s)}
    <3>1. PICK i \in 1 .. Len(s) : x = s[i]
      BY <1>1 DEF Sent
    <3>2. i = 1 \/ i \in 2 .. Len(s)
      BY <1>1
    <3> QED
      BY <1>1, <2>1, <3>1, <3>2 DEF Sent
  <2>3. ASSUME NEW x \in Sent(Tail(s)) \cup {Head(s)} PROVE x \in Sent(s)
    BY <1>1 DEF Sent
  <2> QED
    BY <2>2, <2>3
<1>3. ASSUME InOrder(s) PROVE InOrder(Tail(s))
  <2>1. SUFFICES ASSUME NEW i \in DOMAIN Tail(s), NEW j \in DOMAIN Tail(s), i < j,
                        Tail(s)[i] = "delete"
                 PROVE  Tail(s)[j] \in {"deleted", "reload"}
    BY DEF InOrder
  <2>2. i + 1 \in DOMAIN s /\ j + 1 \in DOMAIN s /\ i + 1 < j + 1 /\ s[i + 1] = "delete"
    BY <1>1, <2>1
  <2> QED
    BY <1>1, <1>3, <2>1, <2>2 DEF InOrder
<1>4. ASSUME InOrder(s), Head(s) = "delete" PROVE Sent(Tail(s)) \subseteq {"deleted", "reload"}
  <2>1. SUFFICES ASSUME NEW i \in DOMAIN Tail(s) PROVE Tail(s)[i] \in {"deleted", "reload"}
    BY DEF Sent
  <2>2. 1 \in DOMAIN s /\ i + 1 \in DOMAIN s /\ 1 < i + 1 /\ s[1] = "delete"
    BY <1>1, <1>4
  <2> QED
    BY <1>1, <1>4, <2>2 DEF InOrder
<1> QED
  BY <1>1, <1>2, <1>3, <1>4

-----------------------------------------------------------------------------
LEMMA CacheInit == Init => CInv
<1> SUFFICES ASSUME Init PROVE CInv
  OBVIOUS
<1>1. CacheTypeOK
  <2>1. /\ {} \in Contents /\ 0 \in 0 .. MaxEdits /\ 0 \in 0 .. MaxRestores
        /\ 0 \in 0 .. MaxReloads
    BY CacheAssumption DEF Contents
  <2>2. fills \in [Fills -> [phase : Phases, given : {Nothing} \cup Contents]]
    BY DEF Init, Phases
  <2>3. lists \in [ListKinds -> ListStates]
    BY DEF Init, ListStates
  <2>4. notices \in Seq(Notices) /\ applied \in Seq(Acks)
    BY DEF Init
  <2> QED
    BY <2>1, <2>2, <2>3, <2>4 DEF Init, CacheTypeOK
<1>2. Due = {} /\ Coming = {} /\ \A f \in Fills : fills[f] = [phase |-> "unused", given |-> Nothing]
  BY DEF Init, Due, Coming
<1> QED
  BY <1>1, <1>2
     DEF Init, CInv, JobsNamed, GivenFits, OneFetch, RecordStays, InOrder, Gone, KeptSafe, Rising, Active

(* Steps that only ask for a list or answer one.                           *)
LEMMA ListsMove ==
  ASSUME CInv, lists' \in [ListKinds -> ListStates], reloads' \in 0 .. MaxReloads,
         UNCHANGED <<store, memory, fills, waiting, ready, writer, edits, applied, kept, crossed,
                     late, restores>>
  PROVE  CInv'
<1>1. UNCHANGED <<record, deleted, notices, docs, listed, pending, sequence, fills, waiting, ready,
                  queued, writing, orphans, edits, applied, kept, crossed, late, restores>>
  BY DEF store, memory, writer
<1>2. Due' = Due /\ Coming' = Coming
  BY <1>1 DEF Due, Coming
<1> QED
  BY <1>1, <1>2
     DEF CInv, CacheTypeOK, JobsNamed, GivenFits, OneFetch, RecordStays, InOrder, Gone, KeptSafe,
         Rising, Active

(* One more notice is sent.                                                *)
LEMMA NoticeSent ==
  ASSUME CInv, NEW n \in Notices, notices' = Append(notices, n), n = "reload" \/ ~deleted
  PROVE  Coming' = Coming \cup {n} /\ notices' \in Seq(Notices) /\ InOrder(notices)'
<1>1. notices \in Seq(Notices) /\ InOrder(notices) /\ (~deleted => "delete" \notin Sent(notices))
  BY DEF CInv, CacheTypeOK, RecordStays, Coming, Sent
<1>2. /\ Append(notices, n) \in Seq(Notices) /\ Sent(Append(notices, n)) = Sent(notices) \cup {n}
      /\ InOrder(Append(notices, n))
  BY <1>1, SentAppend
<1> QED
  BY <1>2 DEF Coming, Sent, InOrder

LEMMA CreateKeeps == CInv /\ Create => CInv'
<1> SUFFICES ASSUME CInv, Create PROVE CInv'
  OBVIOUS
<1>1. /\ record = Nothing /\ ~deleted /\ record' = {} /\ notices' = Append(notices, "created")
      /\ UNCHANGED <<deleted, docs, listed, pending, sequence, fills, waiting, ready, lists, queued,
                     writing, orphans, edits, applied, kept, crossed, late, restores, reloads>>
  BY DEF Create, memory, awaits, writer, history
<1>2. Due' = Due
  BY <1>1 DEF Due
<1>3. Coming' = Coming \cup {"created"} /\ notices' \in Seq(Notices) /\ InOrder(notices)'
  BY <1>1, NoticeSent DEF Notices
<1>4. {} \in Contents /\ {} # Nothing
  BY DEF Contents, Nothing
<1>5. CacheTypeOK'
  BY <1>1, <1>3, <1>4 DEF CInv, CacheTypeOK
<1>6. RecordStays'
  BY <1>1, <1>2, <1>3, <1>4 DEF CInv, RecordStays
<1>7. KeptSafe'
  BY <1>1 DEF CInv, KeptSafe, RecordStays
<1> QED
  BY <1>1, <1>2, <1>5, <1>6, <1>7 DEF CInv, JobsNamed, GivenFits, OneFetch, Gone, Rising, Active

LEMMA DeleteKeeps == CInv /\ Delete => CInv'
<1> SUFFICES ASSUME CInv, Delete PROVE CInv'
  OBVIOUS
<1>1. /\ record # Nothing /\ record' = Nothing /\ deleted' = TRUE
      /\ notices' = notices \o <<"delete", "deleted">>
      /\ UNCHANGED <<docs, listed, pending, sequence, fills, waiting, ready, lists, queued, writing,
                     orphans, edits, applied, kept, crossed, late, restores, reloads>>
  BY DEF Delete, memory, awaits, writer, history
<1>2. Due' = Due
  BY <1>1 DEF Due
<1>3. /\ Coming' = Coming \cup {"delete", "deleted"} /\ notices' \in Seq(Notices)
      /\ InOrder(notices)'
  <2>1. notices' = Append(Append(notices, "delete"), "deleted") /\ notices \in Seq(Notices)
    BY <1>1 DEF CInv, CacheTypeOK
  <2>2. /\ Append(notices, "delete") \in Seq(Notices) /\ InOrder(Append(notices, "delete"))
        /\ Sent(Append(notices, "delete")) = Sent(notices) \cup {"delete"}
    BY <1>1, <2>1, SentAppend DEF CInv, RecordStays, Coming, Sent, Notices
  <2>3. /\ notices' \in Seq(Notices) /\ InOrder(notices') /\ Sent(notices') = Sent(notices) \cup {"delete", "deleted"}
    BY <2>1, <2>2, SentAppend DEF Notices
  <2> QED
    BY <2>3 DEF Coming, Sent, InOrder
<1>4. CacheTypeOK'
  BY <1>1, <1>3 DEF CInv, CacheTypeOK
<1>5. RecordStays'
  BY <1>1, <1>3 DEF CInv, RecordStays
<1> QED
  BY <1>1, <1>2, <1>3, <1>4, <1>5
     DEF CInv, JobsNamed, GivenFits, OneFetch, Gone, KeptSafe, Rising, Active

LEMMA RestoreKeeps == CInv /\ Restore => CInv'
<1> SUFFICES ASSUME CInv, Restore PROVE CInv'
  OBVIOUS
<1>1. /\ record # Nothing /\ record' = {} /\ notices' = Append(notices, "restored")
      /\ restores < MaxRestores /\ restores' = restores + 1
      /\ UNCHANGED <<deleted, docs, listed, pending, sequence, fills, waiting, ready, lists, queued,
                     writing, orphans, edits, applied, kept, crossed, late, reloads>>
  BY DEF Restore, memory, awaits, writer
<1>2. Due' = Due
  BY <1>1 DEF Due
<1>3. ~deleted
  BY <1>1 DEF CInv, RecordStays
<1>4. Coming' = Coming \cup {"restored"} /\ notices' \in Seq(Notices) /\ InOrder(notices)'
  BY <1>1, <1>3, NoticeSent DEF Notices
<1>5. restores' \in 0 .. MaxRestores /\ restores' > 0 /\ restores \in Nat
  BY <1>1, CacheAssumption DEF CInv, CacheTypeOK
<1>6. {} \in Contents /\ {} # Nothing
  BY DEF Contents, Nothing
<1>7. CacheTypeOK'
  BY <1>1, <1>4, <1>5, <1>6 DEF CInv, CacheTypeOK
<1>8. JobsNamed' /\ RecordStays'
  BY <1>1, <1>2, <1>3, <1>4, <1>5, <1>6 DEF CInv, JobsNamed, RecordStays
<1>9. Gone' /\ KeptSafe' /\ Rising'
  BY <1>1, <1>3, <1>4, <1>5 DEF CInv, Gone, KeptSafe, Rising
<1> QED
  BY <1>1, <1>7, <1>8, <1>9 DEF CInv, GivenFits, OneFetch, Active

LEMMA ReloadKeeps == CInv /\ Reload => CInv'
<1> SUFFICES ASSUME CInv, Reload PROVE CInv'
  OBVIOUS
<1>1. /\ notices' = Append(notices, "reload") /\ reloads < MaxReloads /\ reloads' = reloads + 1
      /\ UNCHANGED <<record, deleted, docs, listed, pending, sequence, fills, waiting, ready, lists,
                     queued, writing, orphans, edits, applied, kept, crossed, late, restores>>
  BY DEF Reload, memory, awaits, writer
<1>2. Due' = Due
  BY <1>1 DEF Due
<1>3. Coming' = Coming \cup {"reload"} /\ notices' \in Seq(Notices) /\ InOrder(notices)'
  BY <1>1, NoticeSent DEF Notices
<1>4. CacheTypeOK'
  BY <1>1, <1>3, CacheAssumption DEF CInv, CacheTypeOK
<1>5. RecordStays'
  BY <1>1, <1>2, <1>3 DEF CInv, RecordStays
<1> QED
  BY <1>1, <1>2, <1>3, <1>4, <1>5
     DEF CInv, JobsNamed, GivenFits, OneFetch, Gone, KeptSafe, Rising, Active

LEMMA AnswerFetchKeeps == \A f \in Fills : CInv /\ AnswerFetch(f) => CInv'
<1> SUFFICES ASSUME CInv, NEW f \in Fills, AnswerFetch(f) PROVE CInv'
  OBVIOUS
<1>1. PICK given \in {record, Nothing} :
        fills' = [fills EXCEPT ![f] = [phase |-> "answered", given |-> given]]
  BY DEF AnswerFetch
<1>2. /\ fills[f].phase = "asked"
      /\ UNCHANGED <<record, deleted, notices, docs, listed, pending, sequence, waiting, ready,
                     lists, queued, writing, orphans, edits, applied, kept, crossed, late, restores,
                     reloads>>
  BY DEF AnswerFetch, store, memory, writer, history
<1>3. Due' = Due /\ Coming' = Coming
  BY <1>2 DEF Due, Coming
<1>4. /\ fills'[f] = [phase |-> "answered", given |-> given]
      /\ \A g \in Fills \ {f} : fills'[g] = fills[g]
  BY <1>1 DEF CInv, CacheTypeOK
<1>5. CacheTypeOK'
  <2>1. fills' \in [Fills -> [phase : Phases, given : {Nothing} \cup Contents]]
    BY <1>1 DEF CInv, CacheTypeOK, Phases
  <2> QED
    BY <1>2, <2>1 DEF CInv, CacheTypeOK
<1>6. GivenFits'
  BY <1>4 DEF CInv, GivenFits
<1>7. OneFetch'
  <2>1. \A g \in Fills : Active(g)' <=> Active(g)
    BY <1>2, <1>4 DEF Active
  <2>2. pending \in {0} \cup Fills
    BY DEF CInv, CacheTypeOK
  <2>3. \A g \in Fills : fills'[g].phase \in {"asked", "answered"} =>
                             fills[g].phase \in {"asked", "answered"}
    BY <1>2, <1>4
  <2> QED
    BY <1>2, <2>1, <2>2, <2>3 DEF CInv, OneFetch
<1>8. RecordStays'
  BY <1>2, <1>3, <1>4 DEF CInv, RecordStays
<1>9. Gone'
  BY <1>2, <1>3, <1>4 DEF CInv, Gone, Active, RecordStays
<1>10. Rising'
  BY <1>2, <1>3, <1>4 DEF CInv, Rising, OneFetch, RecordStays
<1> QED
  BY <1>2, <1>3, <1>5, <1>6, <1>7, <1>8, <1>9, <1>10 DEF CInv, JobsNamed, KeptSafe

LEMMA AnswerListKeeps == \A k \in ListKinds : CInv /\ AnswerList(k) => CInv'
<1> SUFFICES ASSUME CInv, NEW k \in ListKinds, AnswerList(k) PROVE CInv'
  OBVIOUS
<1>1. lists' \in [ListKinds -> ListStates] /\ reloads' \in 0 .. MaxReloads
  BY DEF AnswerList, CInv, CacheTypeOK, ListStates, history
<1> QED
  BY <1>1, ListsMove DEF AnswerList, history

-----------------------------------------------------------------------------
(* One fetch is joined, or the next is started.                            *)
LEMMA HydrateParts ==
  ASSUME CInv, NEW f \in Fills, Hydrate(f)
  PROVE  /\ pending' = f /\ Active(f)'
         /\ fills' \in [Fills -> [phase : Phases, given : {Nothing} \cup Contents]]
         /\ \A g \in Fills : fills'[g].given = fills[g].given
         /\ \A g \in Fills \ {f} : fills'[g] = fills[g]
         /\ \/ pending = f /\ fills'[f].phase = fills[f].phase
            \/ pending = 0 /\ fills[f].phase = "unused" /\ fills'[f].phase = "asked"
<1>0. fills \in [Fills -> [phase : Phases, given : {Nothing} \cup Contents]]
  BY DEF CInv, CacheTypeOK
<1>1. CASE pending # 0
  BY <1>0, <1>1 DEF Hydrate, CInv, OneFetch, Active
<1>2. CASE pending = 0
  <2>1. pending' = f /\ fills[f].phase = "unused" /\ fills' = [fills EXCEPT ![f].phase = "asked"]
    BY <1>2 DEF Hydrate
  <2>2. /\ fills'[f].phase = "asked" /\ fills'[f].given = fills[f].given
        /\ \A g \in Fills \ {f} : fills'[g] = fills[g]
    BY <1>0, <2>1
  <2>3. fills' \in [Fills -> [phase : Phases, given : {Nothing} \cup Contents]]
    BY <1>0, <2>1 DEF Phases
  <2> QED
    BY <1>2, <2>1, <2>2, <2>3 DEF Active
<1> QED
  BY <1>1, <1>2

LEMMA HydrateKeeps ==
  ASSUME CInv, NEW f \in Fills, Hydrate(f), docs' = Nothing, ready = {}, ready' = {},
         ~crossed' => ~crossed, \A w \in waiting' : w \in waiting \/ w.fill = f
  PROVE  GivenFits' /\ OneFetch'
<1>1. /\ pending' = f /\ Active(f)'
      /\ \A g \in Fills : fills'[g].given = fills[g].given
      /\ \A g \in Fills \ {f} : fills'[g] = fills[g]
      /\ \/ pending = f /\ fills'[f].phase = fills[f].phase
         \/ pending = 0 /\ fills[f].phase = "unused" /\ fills'[f].phase = "asked"
  BY HydrateParts
<1>2. GivenFits'
  BY <1>1 DEF CInv, GivenFits
<1>3. OneFetch'
  <2>1. SUFFICES ASSUME ~crossed'
                 PROVE  /\ \A g \in Fills : Active(g)' => g = f
                        /\ \A w \in waiting' : w.fill = f
    BY <1>1 DEF OneFetch
  <2>2. /\ \A g \in Fills : Active(g) => g = pending
        /\ \A w \in waiting : w.fill = pending
    BY <2>1 DEF CInv, OneFetch
  <2>3. 0 \notin Fills /\ \A w \in waiting : w.fill \in Fills
    BY CacheAssumption DEF CInv, CacheTypeOK, Fills
  <2>4. \A g \in Fills : Active(g)' => g = f
    BY <1>1, <2>2, <2>3 DEF Active
  <2> QED
    BY <1>1, <2>2, <2>3, <2>4
<1> QED
  BY <1>2, <1>3

(* A handler that goes to wait for a fetch: a command, or a restore.       *)
LEMMA AwaitKeeps ==
  ASSUME CInv, NEW kind \in {"command", "restored"}, NEW edit \in {0} \cup Edits,
         Await(kind, edit), ready = {}, docs = Nothing,
         notices' \in Seq(Notices), InOrder(notices)', Coming' \subseteq Coming,
         "delete" \in Coming => "delete" \in Coming',
         kind = "restored" => "restored" \in Coming,
         kind = "command" => /\ edits' = edits + 1 /\ edit = edits' /\ edits' \in Edits
                             /\ Coming' = Coming,
         kind # "command" => edits' = edits,
         ~crossed' => ~crossed, crossed' \in BOOLEAN,
         UNCHANGED <<record, deleted, docs, listed, sequence, ready, lists, queued, writing, orphans,
                     applied, kept, late, restores, reloads>>
  PROVE  CInv'
<1> DEFINE j == [at |-> edits + restores, kind |-> kind, edit |-> edit]
<1>1. PICK f \in Fills : Hydrate(f) /\ waiting' = waiting \cup {[fill |-> f, job |-> j]}
  BY DEF Await
<1>2. edits \in Nat /\ restores \in Nat /\ j \in Jobs
  BY CacheAssumption DEF CInv, CacheTypeOK, Jobs
<1>3. j.kind = kind /\ j.edit = edit /\ j.at = edits + restores
  OBVIOUS
<1> HIDE DEF j
<1>4. Due' = Due \cup {j}
  <2> DEFINE v == [fill |-> f, job |-> j]
  <2>1. v.job = j /\ waiting' = waiting \cup {v}
    BY <1>1
  <2> HIDE DEF v
  <2>2. {w.job : w \in waiting'} = {w.job : w \in waiting} \cup {j}
    BY <2>1
  <2> QED
    BY <2>2 DEF Due
<1>5. /\ pending' = f /\ fills' \in [Fills -> [phase : Phases, given : {Nothing} \cup Contents]]
      /\ \A g \in Fills : fills'[g].given = fills[g].given
      /\ \A g \in Fills \ {f} : fills'[g] = fills[g]
      /\ \/ pending = f /\ fills'[f].phase = fills[f].phase
         \/ pending = 0 /\ fills[f].phase = "unused" /\ fills'[f].phase = "asked"
  BY <1>1, HydrateParts
<1>6. CacheTypeOK'
  <2>1. waiting' \subseteq [fill : Fills, job : Jobs]
    BY <1>1, <1>2 DEF CInv, CacheTypeOK
  <2>2. edits' \in 0 .. MaxEdits
    BY <1>2, CacheAssumption DEF CInv, CacheTypeOK, Edits
  <2> QED
    BY <1>5, <2>1, <2>2 DEF CInv, CacheTypeOK
<1>7. JobsNamed'
  <2>1. \A k \in Due : k.kind = "command" => k.edit \in 1 .. edits'
    BY <1>2 DEF CInv, JobsNamed
  <2>2. j.kind = "command" => j.edit \in 1 .. edits' /\ (restores = 0 => j.at + 1 = j.edit)
    BY <1>2, <1>3
  <2>3. j.kind = "restored" => restores > 0
    BY <1>3 DEF CInv, RecordStays
  <2> QED
    BY <1>4, <2>1, <2>2, <2>3 DEF CInv, JobsNamed
<1>8. GivenFits' /\ OneFetch'
  BY <1>1, HydrateKeeps
<1>9. RecordStays'
  <2>1. ~deleted /\ record = Nothing => kind = "command"
    BY DEF CInv, RecordStays
  <2> QED
    BY <1>3, <1>4, <1>5, <2>1 DEF CInv, RecordStays
<1>10. Gone'
  <2>1. SUFFICES ASSUME ~crossed, deleted, "delete" \notin Coming
                 PROVE  /\ \A g \in Fills : /\ fills'[g].phase # "log"
                                            /\ Active(g)' => fills'[g].given = Nothing
                        /\ kind = "command"
    BY <1>3, <1>4 DEF CInv, Gone
  <2>2. \A g \in Fills : /\ fills[g].phase # "log" /\ (Active(g) => fills[g].given = Nothing)
                         /\ fills[g].phase = "unused" => fills[g].given = Nothing
    BY <2>1 DEF CInv, Gone, GivenFits
  <2>3. \A g \in Fills : fills'[g].phase = fills[g].phase
                         \/ (fills[g].phase = "unused" /\ fills'[g].phase = "asked")
    BY <1>5
  <2> QED
    BY <1>5, <2>1, <2>2, <2>3 DEF Active, CInv, Gone
<1>11. KeptSafe'
  BY DEF CInv, KeptSafe, RecordStays
<1>12. Rising'
  <2>1. SUFFICES ASSUME ~crossed, ~late, restores = 0, kind = "command"
                 PROVE  Rising'
    BY DEF CInv, RecordStays, Rising
  <2>2. \A i \in DOMAIN applied : applied[i].edit <= edits /\ applied[i].edit \in Nat
    <3>1. \A i \in DOMAIN applied : applied[i].edit \in Edits
      BY AppliedTyped DEF CInv
    <3> QED
      BY <2>1, <3>1 DEF CInv, Edits, Rising
  <2>3. \A i \in DOMAIN applied : applied[i].edit < j.edit /\ applied[i].edit <= edits'
    BY <1>2, <1>3, <2>1, <2>2
  <2>4. \A g \in Fills : fills'[g].phase \in {"answered", "log"} => fills'[g].phase = fills[g].phase
    BY <1>5
  <2> QED
    BY <1>4, <1>5, <2>1, <2>3, <2>4 DEF CInv, Rising
<1> QED
  BY <1>6, <1>7, <1>8, <1>9, <1>10, <1>11, <1>12 DEF CInv

LEMMA SyncRequestKeeps == CInv /\ SyncRequest => CInv'
<1> SUFFICES ASSUME CInv, SyncRequest PROVE CInv'
  OBVIOUS
<1>1. PICK f \in Fills : Hydrate(f)
  BY DEF SyncRequest
<1>2. /\ ready = {} /\ docs = Nothing
      /\ UNCHANGED <<record, deleted, notices, docs, listed, sequence, waiting, ready, lists, queued,
                     writing, orphans, edits, applied, kept, crossed, late, restores, reloads>>
  BY DEF SyncRequest, Turn, store, writer, history
<1>3. Due' = Due /\ Coming' = Coming
  BY <1>2 DEF Due, Coming
<1>4. /\ pending' = f /\ fills' \in [Fills -> [phase : Phases, given : {Nothing} \cup Contents]]
      /\ \A g \in Fills : fills'[g].given = fills[g].given
      /\ \A g \in Fills : fills'[g].phase = fills[g].phase
                          \/ (fills[g].phase = "unused" /\ fills'[g].phase = "asked")
  BY <1>1, HydrateParts
<1>5. GivenFits' /\ OneFetch'
  BY <1>1, <1>2, HydrateKeeps
<1>6. CacheTypeOK'
  BY <1>2, <1>4 DEF CInv, CacheTypeOK
<1>7. Gone'
  BY <1>2, <1>3, <1>4 DEF CInv, Gone, Active, GivenFits
<1>8. Rising'
  <2>1. \A g \in Fills : fills'[g].phase \in {"answered", "log"} => fills'[g].phase = fills[g].phase
    BY <1>4
  <2> QED
    BY <1>2, <1>3, <1>4, <2>1 DEF CInv, Rising
<1>9. RecordStays'
  BY <1>2, <1>3, <1>4 DEF CInv, RecordStays
<1> QED
  BY <1>2, <1>3, <1>5, <1>6, <1>7, <1>8, <1>9 DEF CInv, JobsNamed, KeptSafe

(* A command is applied to the copy, or dropped where there is none.       *)
LEMMA ApplyKeeps ==
  ASSUME CInv, NEW e \in Edits, Apply(e),
         edits' \in 0 .. MaxEdits, edits <= edits', e <= edits',
         ready' \subseteq ready,
         ~crossed /\ ~late' /\ restores = 0 /\ docs # Nothing =>
            /\ \A i \in DOMAIN applied : applied[i].edit < e
            /\ \A j \in Due' : e < j.edit,
         UNCHANGED <<record, deleted, notices, listed, pending, fills, waiting, lists, writing,
                     orphans, crossed, restores, reloads>>
  PROVE  CInv'
<1>1. Due' \subseteq Due /\ Coming' = Coming
  BY DEF Due, Coming
<1>2. e \notin Nothing /\ edits \in Nat /\ edits' \in Nat
  BY CacheAssumption DEF Nothing, Edits, CInv, CacheTypeOK
<1>3. JobsNamed'
  <2>1. \A j \in Due : j.kind = "command" => j.edit \in 1 .. edits'
    BY <1>2 DEF CInv, JobsNamed
  <2> QED
    BY <1>1, <2>1 DEF CInv, JobsNamed
<1>4. CASE docs = Nothing
  <2>1. UNCHANGED <<docs, sequence, queued, applied, kept, late>>
    BY <1>4 DEF Apply
  <2>2. CacheTypeOK'
    BY <2>1 DEF CInv, CacheTypeOK
  <2>3. Rising'
    <3>1. \A i \in DOMAIN applied : applied[i].edit \in Nat
      BY AppliedTyped DEF CInv, Edits
    <3>2. SUFFICES ASSUME ~crossed, ~late, restores = 0 PROVE Rising'
      BY <2>1 DEF Rising
    <3>3. \A i \in DOMAIN applied : applied[i].edit <= edits'
      BY <1>2, <3>1, <3>2 DEF CInv, Rising
    <3> QED
      BY <1>1, <2>1, <3>2, <3>3 DEF CInv, Rising
  <2>4. OneFetch' /\ Gone' /\ RecordStays'
    BY <1>1, <2>1 DEF CInv, OneFetch, Gone, RecordStays, Active
  <2> QED
    BY <1>1, <1>3, <2>1, <2>2, <2>3, <2>4 DEF CInv, GivenFits, KeptSafe
<1>5. CASE docs # Nothing
  <2>1. /\ sequence' = sequence + 1 /\ docs' = docs \cup {e} /\ queued' = docs \cup {e}
        /\ applied' = Append(applied, [edit |-> e, number |-> sequence + 1])
        /\ kept' = kept \cup {e} /\ late' = (late \/ \E f \in Fills : fills[f].phase = "log")
    BY <1>5 DEF Apply
  <2>2. docs \cup {e} \in Contents /\ docs \cup {e} # Nothing /\ sequence \in Nat
    BY <1>2, <1>5 DEF CInv, CacheTypeOK, Contents
  <2>3. CacheTypeOK'
    <3>1. applied' \in Seq(Acks)
      BY <2>1, <2>2 DEF CInv, CacheTypeOK, Acks
    <3>2. late' \in BOOLEAN /\ kept' \subseteq Edits /\ sequence' \in Nat
      BY <2>1, <2>2 DEF CInv, CacheTypeOK
    <3> QED
      BY <2>1, <2>2, <3>1, <3>2 DEF CInv, CacheTypeOK
  <2>4. OneFetch'
    BY <1>5 DEF CInv, OneFetch, Active
  <2>5. RecordStays'
    BY <1>1, <1>5 DEF CInv, RecordStays
  <2>6. Gone'
    BY <1>1, <1>5 DEF CInv, Gone
  <2>7. KeptSafe'
    BY <1>1, <1>5, <2>1, <2>2 DEF CInv, KeptSafe
  <2>8. Rising'
    <3>1. SUFFICES ASSUME ~crossed, ~late', restores = 0 PROVE Rising'
      BY DEF Rising
    <3>2. ~late /\ \A f \in Fills : fills[f].phase \notin {"answered", "log"}
      BY <1>5, <2>1, <3>1 DEF CInv, OneFetch
    <3>3. applied \in Seq(Acks) /\ \A i \in DOMAIN applied : applied[i].edit \in Nat /\ applied[i].number \in Nat
      BY AppliedTyped DEF CInv, CacheTypeOK, Edits
    <3> DEFINE n == Len(applied)
               a == [edit |-> e, number |-> sequence + 1]
    <3>4. a.edit = e /\ a.number = sequence + 1
      OBVIOUS
    <3>5. /\ n \in Nat /\ DOMAIN applied = 1 .. n /\ DOMAIN applied' = 1 .. n + 1
          /\ applied'[n + 1] = a /\ \A i \in 1 .. n : applied'[i] = applied[i]
      BY <2>1, <3>3
    <3> HIDE DEF n, a
    <3>6. \A i \in 1 .. n : /\ applied[i].edit < e /\ applied[i].edit <= edits'
                            /\ applied[i].number < sequence + 1 /\ applied[i].number <= sequence'
                            /\ \A j \in Due' : applied[i].edit < j.edit
      <4>1. \A i \in 1 .. n : /\ applied[i].edit <= edits /\ applied[i].number <= sequence
                              /\ applied[i].edit < e
                              /\ \A j \in Due' : applied[i].edit < j.edit
        BY <1>1, <1>5, <3>1, <3>2, <3>5 DEF CInv, Rising
      <4>2. \A i \in 1 .. n : applied[i].edit \in Nat /\ applied[i].number \in Nat
        BY <3>3, <3>5
      <4>3. ASSUME NEW i \in 1 .. n
            PROVE  /\ applied[i].edit <= edits' /\ applied[i].number < sequence + 1
                   /\ applied[i].number <= sequence'
        <5>1. /\ applied[i].edit <= edits /\ applied[i].number <= sequence
              /\ applied[i].edit \in Nat /\ applied[i].number \in Nat
          BY <4>1, <4>2
        <5>2. edits \in Nat /\ edits' \in Nat /\ edits <= edits' /\ sequence \in Nat
              /\ sequence' = sequence + 1
          BY <1>2, <2>1, <2>2
        <5> QED
          BY <5>1, <5>2
      <4> QED
        BY <4>1, <4>3
    <3>7. \A i, j \in 1 .. n + 1 : i < j =>
             applied'[i].edit < applied'[j].edit /\ applied'[i].number < applied'[j].number
      <4>1. \A i, j \in 1 .. n : i < j =>
               applied[i].edit < applied[j].edit /\ applied[i].number < applied[j].number
        BY <3>1, <3>2, <3>5 DEF CInv, Rising
      <4>2. SUFFICES ASSUME NEW i \in 1 .. n + 1, NEW k \in 1 .. n + 1, i < k
                     PROVE  applied'[i].edit < applied'[k].edit /\ applied'[i].number < applied'[k].number
        OBVIOUS
      <4>3. i \in 1 .. n /\ (k \in 1 .. n \/ k = n + 1)
        BY <3>5, <4>2
      <4>4. CASE k \in 1 .. n
        BY <3>5, <4>1, <4>2, <4>3, <4>4
      <4>5. CASE k = n + 1
        <5>1. applied'[k] = a /\ applied'[i] = applied[i]
          BY <3>5, <4>3, <4>5
        <5> QED
          BY <3>4, <3>6, <4>3, <5>1
      <4> QED
        BY <4>3, <4>4, <4>5
    <3>8. \A i \in 1 .. n + 1 : /\ applied'[i].edit <= edits' /\ applied'[i].number <= sequence'
                                /\ \A j \in Due' : applied'[i].edit < j.edit
      <4>1. \A j \in Due' : e < j.edit
        BY <1>5, <3>1
      <4>2. SUFFICES ASSUME NEW i \in 1 .. n + 1
                     PROVE  /\ applied'[i].edit <= edits' /\ applied'[i].number <= sequence'
                            /\ \A j \in Due' : applied'[i].edit < j.edit
        OBVIOUS
      <4>3. i \in 1 .. n \/ i = n + 1
        BY <3>5
      <4>4. sequence + 1 <= sequence'
        BY <2>1, <2>2
      <4> QED
        BY <3>4, <3>5, <3>6, <4>1, <4>3, <4>4
    <3>9. docs' # Nothing /\ \A f \in Fills : fills'[f].phase \notin {"answered", "log"}
      BY <2>1, <2>2, <3>2
    <3> QED
      BY <3>5, <3>7, <3>8, <3>9 DEF Rising
  <2> QED
    BY <1>3, <2>3, <2>4, <2>5, <2>6, <2>7, <2>8 DEF CInv, GivenFits
<1> QED
  BY <1>4, <1>5

(* One notice is taken from those on their way.                            *)
LEMMA NoticeTaken ==
  ASSUME CInv, NEW n \in Notices, Notice(n)
  PROVE  /\ notices' \in Seq(Notices) /\ InOrder(notices)' /\ Coming = Coming' \cup {n}
         /\ n = "delete" => Coming' \subseteq {"deleted", "reload"}
         /\ ready = {} /\ UNCHANGED <<record, deleted, edits, applied, restores, reloads>>
<1>1. /\ notices \in Seq(Notices) /\ notices # <<>> /\ Head(notices) = n /\ InOrder(notices)
      /\ notices' = Tail(notices)
  BY DEF Notice, CInv, CacheTypeOK, RecordStays
<1>2. /\ Tail(notices) \in Seq(Notices) /\ InOrder(Tail(notices))
      /\ Sent(notices) = Sent(Tail(notices)) \cup {n}
      /\ n = "delete" => Sent(Tail(notices)) \subseteq {"deleted", "reload"}
  BY <1>1, SentTail
<1>3. Coming = Sent(notices) /\ Coming' = Sent(Tail(notices)) /\ InOrder(notices)'
  BY <1>1, <1>2 DEF Coming, Sent, InOrder
<1> QED
  BY <1>1, <1>2, <1>3 DEF Notice, Turn

LEMMA CommandKeeps == CInv /\ Command => CInv'
<1> SUFFICES ASSUME CInv, Command PROVE CInv'
  OBVIOUS
<1>1. /\ ready = {} /\ edits < MaxEdits /\ edits' = edits + 1
      /\ UNCHANGED <<record, deleted, notices, listed, ready, lists, writing, orphans, crossed,
                     restores, reloads>>
  BY DEF Command, Turn, store
<1>2. edits \in Nat /\ edits' \in Edits /\ edits' \in 0 .. MaxEdits /\ edits <= edits'
  BY <1>1, CacheAssumption DEF CInv, CacheTypeOK, Edits
<1>3. CASE docs # Nothing
  <2>1. Apply(edits + 1) /\ UNCHANGED <<pending, fills, waiting>>
    BY <1>1, <1>3 DEF Command
  <2>2. ASSUME ~crossed, ~late', restores = 0
        PROVE  Due' = {} /\ \A i \in DOMAIN applied : applied[i].edit < edits + 1
    <3>1. ~late /\ \A f \in Fills : fills[f].phase # "log"
      BY <1>3, <2>1, <2>2 DEF Apply
    <3>2. waiting = {}
      <4>1. SUFFICES ASSUME NEW w \in waiting PROVE FALSE
        OBVIOUS
      <4>2. w.fill \in Fills /\ w.fill = pending /\ 0 \notin Fills
        BY <2>2, CacheAssumption DEF CInv, CacheTypeOK, OneFetch, Fills
      <4> QED
        BY <1>3, <2>2, <3>1, <4>2 DEF CInv, OneFetch, Active
    <3>3. \A i \in DOMAIN applied : applied[i].edit <= edits /\ applied[i].edit \in Nat
      BY <2>2, <3>1, AppliedTyped DEF CInv, Rising, Edits
    <3> QED
      BY <1>1, <1>2, <2>1, <3>2, <3>3 DEF Due
  <2>3. edits + 1 \in Edits /\ edits + 1 <= edits'
    BY <1>1, <1>2
  <2> QED
    BY <1>1, <1>2, <2>1, <2>2, <2>3, ApplyKeeps
<1>4. CASE docs = Nothing
  <2>1. /\ Await("command", edits + 1)
        /\ UNCHANGED <<docs, sequence, queued, applied, kept, late>>
    BY <1>1, <1>4 DEF Command
  <2>2. /\ notices' \in Seq(Notices) /\ InOrder(notices)' /\ Coming' = Coming
        /\ crossed' \in BOOLEAN
    BY <1>1 DEF CInv, CacheTypeOK, RecordStays, InOrder, Coming
  <2> QED
    BY <1>1, <1>2, <1>4, <2>1, <2>2, AwaitKeeps
<1> QED
  BY <1>3, <1>4

LEMMA WatchKeeps == CInv /\ WatchInstances => CInv'
<1> SUFFICES ASSUME CInv, WatchInstances PROVE CInv'
  OBVIOUS
<1>1. lists' \in [ListKinds -> ListStates]
  BY DEF WatchInstances, CInv, CacheTypeOK, ListStates
<1>2. reloads' \in 0 .. MaxReloads
  <2>1. reloads \in 0 .. MaxReloads /\ reloads < MaxReloads /\ reloads' = reloads + 1
    BY DEF WatchInstances, CInv, CacheTypeOK
  <2> QED
    BY <2>1, CacheAssumption
<1> QED
  BY <1>1, <1>2, ListsMove DEF WatchInstances

LEMMA InstanceCreatedKeeps == CInv /\ InstanceCreated => CInv'
<1> SUFFICES ASSUME CInv, InstanceCreated PROVE CInv'
  OBVIOUS
<1>1. /\ Notice("created") /\ listed' = TRUE
      /\ UNCHANGED <<docs, pending, sequence, fills, waiting, ready, lists, queued, writing, orphans,
                     kept, crossed, late>>
  BY DEF InstanceCreated, awaits, writer
<1>2. /\ notices' \in Seq(Notices) /\ InOrder(notices)' /\ Coming = Coming' \cup {"created"}
      /\ UNCHANGED <<record, deleted, edits, applied, restores, reloads>>
  BY <1>1, NoticeTaken DEF Notices
<1>3. Due' = Due
  BY <1>1 DEF Due
<1>4. CacheTypeOK' /\ Gone' /\ RecordStays' /\ KeptSafe'
  BY <1>1, <1>2, <1>3 DEF CInv, CacheTypeOK, Gone, RecordStays, KeptSafe
<1> QED
  BY <1>1, <1>2, <1>3, <1>4 DEF CInv, JobsNamed, GivenFits, OneFetch, Rising, Active

LEMMA InstancesUpdatedKeeps == CInv /\ InstancesUpdated => CInv'
<1> SUFFICES ASSUME CInv, InstancesUpdated PROVE CInv'
  OBVIOUS
<1>1. /\ Notice("reload") /\ lists' \in [ListKinds -> ListStates]
      /\ UNCHANGED <<docs, listed, pending, sequence, fills, waiting, ready, queued, writing, orphans,
                     kept, crossed, late>>
  BY DEF InstancesUpdated, memory, writer, CInv, CacheTypeOK, ListStates
<1>2. /\ notices' \in Seq(Notices) /\ InOrder(notices)' /\ Coming = Coming' \cup {"reload"}
      /\ UNCHANGED <<record, deleted, edits, applied, restores, reloads>>
  BY <1>1, NoticeTaken DEF Notices
<1>3. Due' = Due
  BY <1>1 DEF Due
<1>4. CacheTypeOK' /\ Gone' /\ RecordStays' /\ KeptSafe'
  BY <1>1, <1>2, <1>3 DEF CInv, CacheTypeOK, Gone, RecordStays, KeptSafe, Active
<1> QED
  BY <1>1, <1>2, <1>3, <1>4 DEF CInv, JobsNamed, GivenFits, OneFetch, Rising, Active

(* The copy becomes that of a checkpoint that was restored.                *)
LEMMA OverwriteKeeps ==
  ASSUME CInv, Overwrite, restores > 0, record # Nothing \/ deleted,
         ~crossed' => ~crossed /\ \A f \in Fills : fills[f].phase \notin {"asked", "answered"},
         ~crossed' => ~deleted \/ "delete" \in Coming',
         crossed' \in BOOLEAN, notices' \in Seq(Notices), InOrder(notices)', Coming' \subseteq Coming,
         ready' \subseteq ready,
         UNCHANGED <<record, deleted, listed, pending, fills, waiting, lists, writing, orphans, edits,
                     restores, reloads>>
  PROVE  CInv'
<1>1. /\ docs' = {} /\ sequence' = 0 /\ kept' = {} /\ UNCHANGED <<queued, applied, late>>
      /\ {} \in Contents /\ {} # Nothing /\ Due' \subseteq Due
  BY DEF Overwrite, Contents, Nothing, Due
<1>2. CacheTypeOK'
  BY <1>1 DEF CInv, CacheTypeOK
<1>3. OneFetch'
  BY <1>1 DEF CInv, OneFetch, Active
<1>4. RecordStays'
  BY <1>1 DEF CInv, RecordStays
<1>5. Gone' /\ KeptSafe' /\ Rising' /\ JobsNamed'
  BY <1>1 DEF CInv, Gone, KeptSafe, Rising, JobsNamed
<1> QED
  BY <1>2, <1>3, <1>4, <1>5 DEF CInv, GivenFits

LEMMA RestoredKeeps == CInv /\ Restored => CInv'
<1> SUFFICES ASSUME CInv, Restored PROVE CInv'
  OBVIOUS
<1>1. /\ Notice("restored") /\ crossed' = (crossed \/ Fetching)
      /\ UNCHANGED <<listed, ready, lists, writing, orphans>>
  BY DEF Restored
<1>2. /\ notices' \in Seq(Notices) /\ InOrder(notices)' /\ Coming = Coming' \cup {"restored"}
      /\ ready = {} /\ UNCHANGED <<record, deleted, edits, applied, restores, reloads>>
  BY <1>1, NoticeTaken DEF Notices
<1>3. crossed' \in BOOLEAN /\ restores > 0 /\ (record # Nothing \/ deleted)
  BY <1>1, <1>2 DEF CInv, CacheTypeOK, RecordStays
<1>4. CASE Overwrite /\ UNCHANGED <<pending, fills, waiting>>
  <2>1. ~crossed' => ~crossed /\ \A f \in Fills : fills[f].phase \notin {"asked", "answered"}
    BY <1>1 DEF Fetching
  <2>2. ~crossed' => ~deleted \/ "delete" \in Coming'
    BY <1>1, <1>2 DEF CInv, Gone
  <2> QED
    BY <1>1, <1>2, <1>3, <1>4, <2>1, <2>2, OverwriteKeeps
<1>5. CASE /\ docs = Nothing /\ Await("restored", 0)
           /\ UNCHANGED <<docs, sequence, queued, applied, kept, late>>
  <2>1. "restored" \in {"command", "restored"} /\ 0 \in {0} \cup Edits
    OBVIOUS
  <2> QED
    BY <1>1, <1>2, <1>3, <1>5, <2>1, AwaitKeeps
<1> QED
  BY <1>4, <1>5 DEF Restored

LEMMA DeletedKeeps == \A n \in {"delete", "deleted"} : CInv /\ Deleted(n) => CInv'
<1> SUFFICES ASSUME CInv, NEW n \in {"delete", "deleted"}, Deleted(n) PROVE CInv'
  OBVIOUS
<1>1. /\ Notice(n) /\ docs' = Nothing /\ listed' = FALSE /\ pending' \in {0, pending}
      /\ queued' = Nothing /\ writing' = Nothing
      /\ orphans' = orphans \cup ({writing} \ {Nothing}) /\ crossed' = (crossed \/ Fetching)
      /\ UNCHANGED <<sequence, fills, waiting, ready, lists, kept, late>>
  BY DEF Deleted, EvictWorker, awaits
<1>2. /\ notices' \in Seq(Notices) /\ InOrder(notices)' /\ Coming = Coming' \cup {n}
      /\ n = "delete" => Coming' \subseteq {"deleted", "reload"}
      /\ ready = {} /\ UNCHANGED <<record, deleted, edits, applied, restores, reloads>>
  BY <1>1, NoticeTaken DEF Notices
<1>3. Due' = Due /\ deleted
  BY <1>1, <1>2 DEF Due, CInv, RecordStays
<1>4. CacheTypeOK'
  <2>1. orphans' \subseteq Contents /\ pending' \in {0} \cup Fills /\ crossed' \in BOOLEAN
    BY <1>1 DEF CInv, CacheTypeOK
  <2> QED
    BY <1>1, <1>2, <2>1 DEF CInv, CacheTypeOK
<1>5. ASSUME ~crossed'
      PROVE  ~crossed /\ (\A f \in Fills : ~Active(f)) /\ pending = 0 /\ waiting = {}
  <2>1. ~crossed /\ \A f \in Fills : ~Active(f)
    BY <1>1, <1>5 DEF Fetching, Active
  <2>2. pending = 0
    BY <2>1 DEF CInv, OneFetch, CacheTypeOK
  <2>3. waiting = {}
    BY <2>1, <2>2, CacheAssumption DEF CInv, OneFetch, CacheTypeOK, Fills
  <2> QED
    BY <2>1, <2>2, <2>3
<1>6. OneFetch'
  <2>1. pending' # 0 => Active(pending)'
    BY <1>1 DEF CInv, OneFetch, Active
  <2>2. \A f \in Fills : Active(f)' <=> Active(f)
    BY <1>1 DEF Active
  <2> QED
    BY <1>1, <1>2, <1>5, <2>1, <2>2 DEF OneFetch
<1>7. RecordStays'
  BY <1>1, <1>2, <1>3 DEF CInv, RecordStays
<1>8. Gone'
  <2>1. SUFFICES ASSUME ~crossed', "delete" \notin Coming'
                 PROVE  /\ Coming' \cap {"created", "restored"} = {}
                        /\ \A f \in Fills : fills[f].phase # "log" /\ ~Active(f)
                        /\ \A j \in Due : j.kind = "command"
    BY <1>1, <1>3 DEF Gone, Active
  <2>2. Coming' \cap {"created", "restored"} = {}
    BY <1>2, <1>3, <1>5, <2>1 DEF CInv, Gone
  <2> QED
    BY <1>2, <1>5, <2>1, <2>2 DEF Due, Active
<1>9. Rising' /\ KeptSafe' /\ JobsNamed'
  BY <1>1, <1>2, <1>3 DEF CInv, Rising, KeptSafe, JobsNamed
<1> QED
  BY <1>1, <1>4, <1>6, <1>7, <1>8, <1>9 DEF CInv, GivenFits

-----------------------------------------------------------------------------
(* A fetch is over: who waited for it is due.                              *)
LEMMA SettleKeeps ==
  ASSUME CInv, NEW f \in Fills, Active(f), Settle(f), ready = {},
         fills' = [fills EXCEPT ![f].phase = "done"],
         sequence' \in {sequence, LogTail}, fills[f].phase # "log" => sequence' = sequence,
         UNCHANGED <<record, deleted, notices, docs, listed, lists, queued, writing, orphans, edits,
                     applied, kept, crossed, late, restores, reloads>>
  PROVE  CInv'
<1>1. /\ pending' = 0 /\ waiting' = {w \in waiting : w.fill # f}
      /\ ready' = {w.job : w \in {v \in waiting : v.fill = f}}
  BY DEF Settle
<1>2. /\ fills'[f].phase = "done" /\ fills'[f].given = fills[f].given
      /\ \A g \in Fills \ {f} : fills'[g] = fills[g]
      /\ fills' \in [Fills -> [phase : Phases, given : {Nothing} \cup Contents]]
  BY DEF CInv, CacheTypeOK, Phases
<1>3. Due' = Due /\ Coming' = Coming
  <2>1. \A j : j \in ready' <=> \E w \in waiting : w.fill = f /\ w.job = j
    BY <1>1
  <2>2. \A j : j \in Due' <=> j \in ready' \/ \E w \in waiting' : w.job = j
    BY DEF Due
  <2>3. \A j : j \in Due <=> \E w \in waiting : w.job = j
    BY DEF Due
  <2>4. \A w : w \in waiting' <=> w \in waiting /\ w.fill # f
    BY <1>1
  <2>5. \A j : j \in Due' <=> j \in Due
    BY <2>1, <2>2, <2>3, <2>4
  <2>6. Due' = Due
    BY <2>5
  <2> QED
    BY <2>6 DEF Coming
<1>4. CacheTypeOK'
  <2>1. waiting' \subseteq [fill : Fills, job : Jobs] /\ ready' \subseteq Jobs
    BY <1>1 DEF CInv, CacheTypeOK
  <2> QED
    BY <1>1, <1>2, <2>1, CacheAssumption DEF CInv, CacheTypeOK
<1>5. GivenFits'
  BY <1>2 DEF CInv, GivenFits
<1>6. OneFetch'
  BY <1>1, <1>2 DEF CInv, OneFetch, Active
<1>7. RecordStays'
  <2>1. \A g \in Fills : fills'[g].given = fills[g].given
    BY <1>2
  <2> QED
    BY <1>3, <2>1 DEF CInv, RecordStays
<1>8. Gone'
  BY <1>2, <1>3 DEF CInv, Gone, Active
<1>9. Rising'
  <2>1. SUFFICES ASSUME ~crossed, ~late, restores = 0 PROVE Rising'
    BY DEF Rising
  <2>2. applied # <<>> => sequence' = sequence
    BY <2>1 DEF CInv, Rising, GivenFits
  <2>3. applied = <<>> => DOMAIN applied = {}
    OBVIOUS
  <2>4. \A g \in Fills : fills'[g].phase \in {"answered", "log"} =>
                           fills'[g].phase = fills[g].phase /\ fills'[g].given = fills[g].given
    BY <1>2
  <2> QED
    BY <1>3, <2>1, <2>2, <2>3, <2>4 DEF CInv, Rising
<1> QED
  BY <1>3, <1>4, <1>5, <1>6, <1>7, <1>8, <1>9 DEF CInv, JobsNamed, KeptSafe

LEMMA FillKeeps ==
  \A f \in Fills : CInv /\ (FillFails(f) \/ FillSequence(f)) => CInv'
<1> SUFFICES ASSUME CInv, NEW f \in Fills, FillFails(f) \/ FillSequence(f) PROVE CInv'
  OBVIOUS
<1>1. CASE FillFails(f)
  BY <1>1, SettleKeeps DEF FillFails, Turn, store, writer, history, Active
<1>2. CASE FillSequence(f)
  <2>1. sequence' \in {sequence, LogTail}
    BY <1>2 DEF FillSequence
  <2> QED
    BY <1>2, <2>1, SettleKeeps DEF FillSequence, Turn, store, writer, history, Active
<1> QED
  BY <1>1, <1>2

LEMMA FillDocsKeeps == \A f \in Fills : CInv /\ FillDocs(f) => CInv'
<1> SUFFICES ASSUME CInv, NEW f \in Fills, FillDocs(f) PROVE CInv'
  OBVIOUS
<1>1. /\ fills[f].phase = "answered" /\ fills[f].given # Nothing /\ ready = {}
      /\ docs' = fills[f].given /\ listed' = TRUE
      /\ UNCHANGED <<record, deleted, notices, pending, sequence, waiting, ready, lists, queued,
                     writing, orphans, edits, applied, kept, crossed, late, restores, reloads>>
  BY DEF FillDocs, Turn, store, writer, history
<1>2. /\ fills'[f].phase = "log" /\ fills'[f].given = fills[f].given
      /\ \A g \in Fills \ {f} : fills'[g] = fills[g]
      /\ fills' \in [Fills -> [phase : Phases, given : {Nothing} \cup Contents]]
  BY DEF FillDocs, CInv, CacheTypeOK, Phases
<1>3. Due' = Due /\ Coming' = Coming
  BY <1>1 DEF Due, Coming
<1>4. CacheTypeOK'
  BY <1>1, <1>2 DEF CInv, CacheTypeOK
<1>5. GivenFits'
  BY <1>1, <1>2 DEF CInv, GivenFits
<1>6. OneFetch'
  <2>1. \A g \in Fills : Active(g)' <=> Active(g)
    BY <1>1, <1>2 DEF Active
  <2>2. ~crossed => \A g \in Fills : fills'[g].phase \notin {"asked", "answered"}
    BY <1>1, <1>2 DEF CInv, OneFetch, Active
  <2> QED
    BY <1>1, <2>1, <2>2 DEF CInv, OneFetch, CacheTypeOK
<1>7. RecordStays'
  BY <1>1, <1>2, <1>3 DEF CInv, RecordStays
<1>8. Gone'
  BY <1>1, <1>3 DEF CInv, Gone, Active
<1>9. KeptSafe'
  <2>1. ~crossed => docs = Nothing
    BY <1>1 DEF CInv, OneFetch
  <2> QED
    BY <1>1, <1>3, <2>1 DEF CInv, KeptSafe
<1>10. Rising'
  BY <1>1, <1>2, <1>3 DEF CInv, Rising
<1> QED
  BY <1>1, <1>3, <1>4, <1>5, <1>6, <1>7, <1>8, <1>9, <1>10 DEF CInv, JobsNamed

LEMMA ResumeKeeps == \A job \in ready : CInv /\ Resume(job) => CInv'
<1> SUFFICES ASSUME CInv, NEW job \in ready, Resume(job) PROVE CInv'
  OBVIOUS
<1>1. /\ \A other \in ready : job.at <= other.at
      /\ ready' = ready \ {job}
      /\ UNCHANGED <<record, deleted, notices, listed, pending, fills, waiting, lists, writing,
                     orphans, edits, crossed, restores, reloads>>
      /\ \/ job.kind = "command"  /\ Apply(job.edit)
         \/ job.kind = "restored" /\ Overwrite
  BY DEF Resume, store
<1>2. job \in Due /\ job \in Jobs /\ Due \subseteq Jobs /\ ready' \subseteq ready
  BY <1>1, DueTyped DEF CInv, CacheTypeOK, Due
<1>3. ~crossed => pending = 0 /\ waiting = {} /\ \A f \in Fills : ~Active(f)
  BY CacheAssumption DEF CInv, OneFetch, CacheTypeOK, Fills
<1>4. CASE job.kind = "command"
  <2>1. /\ Apply(job.edit) /\ job.edit \in 1 .. edits /\ edits \in 0 .. MaxEdits
        /\ (restores = 0 => job.at + 1 = job.edit)
    BY <1>1, <1>2, <1>4 DEF CInv, JobsNamed, CacheTypeOK
  <2>2. job.edit \in Edits /\ job.edit <= edits' /\ edits <= edits' /\ edits' \in 0 .. MaxEdits
    BY <1>1, <2>1, CacheAssumption DEF Edits
  <2>3. ASSUME ~crossed, ~late', restores = 0
        PROVE  /\ \A i \in DOMAIN applied : applied[i].edit < job.edit
               /\ \A j \in Due' : job.edit < j.edit
    <3>1. ~late
      BY <2>1, <2>3 DEF Apply
    <3>2. \A i \in DOMAIN applied : applied[i].edit < job.edit
      BY <1>2, <2>3, <3>1 DEF CInv, Rising
    <3>3. ASSUME NEW j \in Due' PROVE job.edit < j.edit
      <4>1. j \in ready /\ j # job /\ j \in Due
        BY <1>1, <1>3, <2>3 DEF Due
      <4>2. j.kind = "command" /\ j.at + 1 = j.edit /\ job.at + 1 = job.edit
        BY <1>2, <2>1, <2>3, <4>1, JobParts DEF CInv, JobsNamed
      <4>3. job.at \in Nat /\ j.at \in Nat /\ job.at <= j.at /\ job.at # j.at
        BY <1>1, <1>2, <1>4, <4>1, <4>2, JobParts
      <4> QED
        BY <4>2, <4>3
    <3> QED
      BY <3>2, <3>3
  <2> QED
    BY <1>1, <1>2, <2>1, <2>2, <2>3, ApplyKeeps
<1>5. CASE job.kind = "restored"
  <2>1. restores > 0 /\ (record # Nothing \/ deleted)
    BY <1>2, <1>5 DEF CInv, JobsNamed, RecordStays
  <2>2. ~crossed => ~deleted \/ "delete" \in Coming
    BY <1>2, <1>5 DEF CInv, Gone
  <2>3. ~crossed => \A f \in Fills : fills[f].phase \notin {"asked", "answered"}
    BY <1>3 DEF Active
  <2>4. /\ crossed' \in BOOLEAN /\ notices' \in Seq(Notices) /\ InOrder(notices)' /\ Coming' = Coming
    BY <1>1 DEF CInv, CacheTypeOK, RecordStays, InOrder, Coming
  <2> QED
    BY <1>1, <1>2, <1>5, <2>1, <2>2, <2>3, <2>4, OverwriteKeeps
<1> QED
  BY <1>2, <1>4, <1>5, JobParts

LEMMA UseListKeeps == \A k \in ListKinds : CInv /\ UseList(k) => CInv'
<1> SUFFICES ASSUME CInv, NEW k \in ListKinds, UseList(k) PROVE CInv'
  OBVIOUS
<1>1. /\ lists' = [lists EXCEPT ![k] = "none"]
      /\ crossed' = (crossed \/ ((lists[k] = "present") # (record # Nothing)))
      /\ \/ lists[k] = "present" /\ listed' = TRUE /\ docs' = docs
         \/ lists[k] = "absent" /\ listed' = FALSE /\ docs' = Nothing
         \/ lists[k] = "absent" /\ listed' = listed /\ docs' = docs
      /\ UNCHANGED <<record, deleted, notices, pending, sequence, fills, waiting, ready, queued,
                     writing, orphans, edits, applied, kept, late, restores, reloads>>
  BY DEF UseList, store, writer
<1>2. Due' = Due /\ Coming' = Coming
  BY <1>1 DEF Due, Coming
<1>3. /\ docs' \in {docs, Nothing} /\ crossed' \in BOOLEAN
      /\ ~crossed' => /\ ~crossed
                      /\ docs' # docs => record = Nothing
                      /\ listed' = TRUE => listed \/ record # Nothing
  BY <1>1 DEF CInv, CacheTypeOK
<1>4. CacheTypeOK'
  <2>1. lists' \in [ListKinds -> ListStates] /\ listed' \in BOOLEAN
    BY <1>1 DEF CInv, CacheTypeOK, ListStates
  <2> QED
    BY <1>1, <1>3, <2>1 DEF CInv, CacheTypeOK
<1>5. OneFetch'
  BY <1>1, <1>3 DEF CInv, OneFetch, Active
<1>6. RecordStays'
  BY <1>1, <1>2, <1>3 DEF CInv, RecordStays
<1>7. Gone'
  BY <1>1, <1>2, <1>3 DEF CInv, Gone, Active, RecordStays, CacheTypeOK
<1>8. KeptSafe'
  BY <1>1, <1>2, <1>3 DEF CInv, KeptSafe, RecordStays
<1>9. Rising'
  BY <1>1, <1>2, <1>3 DEF CInv, Rising, RecordStays
<1> QED
  BY <1>1, <1>2, <1>4, <1>5, <1>6, <1>7, <1>8, <1>9 DEF CInv, JobsNamed, GivenFits

LEMMA WriterKeeps == CInv /\ Writer => CInv'
<1> SUFFICES ASSUME CInv, Writer PROVE CInv'
  OBVIOUS
<1>1. UNCHANGED <<deleted, notices, docs, listed, pending, sequence, fills, waiting, ready, lists,
                  edits, applied, kept, crossed, late, restores, reloads>>
  BY DEF Writer, StartWrite, WriteEnds, WriteFails, OrphanEnds, store, memory, awaits, history
<1>2. Due' = Due /\ Coming' = Coming
  BY <1>1 DEF Due, Coming
<1>3. \/ /\ queued # Nothing /\ writing = Nothing /\ writing' = queued /\ queued' = Nothing
         /\ UNCHANGED <<record, orphans>>
      \/ /\ writing # Nothing /\ writing' = Nothing /\ UNCHANGED <<queued, orphans>>
         /\ record' = IF record = Nothing THEN Nothing ELSE writing
      \/ /\ writing # Nothing /\ writing' = Nothing /\ UNCHANGED orphans
         /\ record' \in {record, IF record = Nothing THEN Nothing ELSE writing}
         /\ queued' = IF queued = Nothing THEN writing ELSE queued
      \/ /\ UNCHANGED <<queued, writing>>
         /\ \E body \in orphans : /\ record' = IF record = Nothing THEN Nothing ELSE body
                                  /\ orphans' = orphans \ {body}
  BY DEF Writer, StartWrite, WriteEnds, WriteFails, OrphanEnds, Patch, store
<1>4. /\ record' = Nothing <=> record = Nothing
      /\ ~deleted => UNCHANGED orphans
  BY <1>3, NothingApart DEF CInv, CacheTypeOK, RecordStays
<1>5. CacheTypeOK'
  <2>1. /\ record' \in {Nothing} \cup Contents /\ queued' \in {Nothing} \cup Contents
        /\ writing' \in {Nothing} \cup Contents /\ orphans' \subseteq Contents
    BY <1>3 DEF CInv, CacheTypeOK
  <2> QED
    BY <1>1, <2>1 DEF CInv, CacheTypeOK
<1>6. RecordStays'
  BY <1>1, <1>2, <1>4 DEF CInv, RecordStays
<1>7. Gone'
  BY <1>1, <1>2, <1>3 DEF CInv, Gone, Active
<1>8. KeptSafe'
  <2>1. SUFFICES ASSUME ~crossed, ~deleted PROVE KeptSafe'
    BY <1>1 DEF KeptSafe
  <2>2. orphans = {} /\ (record = Nothing => docs = Nothing)
    BY <2>1 DEF CInv, RecordStays
  <2>3. CASE queued # Nothing /\ writing = Nothing /\ writing' = queued /\ queued' = Nothing
    BY <1>1, <1>2, <2>1, <2>3 DEF CInv, KeptSafe
  <2>4. CASE /\ writing # Nothing /\ writing' = Nothing /\ UNCHANGED queued
             /\ record' = IF record = Nothing THEN Nothing ELSE writing
    BY <1>1, <1>2, <2>1, <2>2, <2>4 DEF CInv, KeptSafe
  <2>5. CASE /\ writing # Nothing /\ writing' = Nothing
             /\ queued' = IF queued = Nothing THEN writing ELSE queued
    BY <1>1, <1>2, <2>1, <2>5 DEF CInv, KeptSafe
  <2> QED
    BY <1>3, <2>2, <2>3, <2>4, <2>5
<1> QED
  BY <1>1, <1>2, <1>5, <1>6, <1>7, <1>8
     DEF CInv, JobsNamed, GivenFits, OneFetch, Rising, Active

-----------------------------------------------------------------------------
LEMMA CacheStep == CInv /\ [Next]_vars => CInv'
<1> SUFFICES ASSUME CInv, [Next]_vars PROVE CInv'
  OBVIOUS
<1>1. CASE FileServer
  BY <1>1, CreateKeeps, DeleteKeeps, RestoreKeeps, ReloadKeeps, AnswerFetchKeeps, AnswerListKeeps
     DEF FileServer
<1>2. CASE WsServer
  BY <1>2, SyncRequestKeeps, CommandKeeps, WatchKeeps, InstanceCreatedKeeps, RestoredKeeps,
     InstancesUpdatedKeeps, DeletedKeeps, FillKeeps, FillDocsKeeps, ResumeKeeps, UseListKeeps
     DEF WsServer
<1>3. CASE Writer
  BY <1>3, WriterKeeps
<1>4. CASE UNCHANGED vars
  <2>1. lists' \in [ListKinds -> ListStates] /\ reloads' \in 0 .. MaxReloads
    BY <1>4 DEF vars, awaits, history, CInv, CacheTypeOK
  <2> QED
    BY <1>4, <2>1, ListsMove DEF vars, awaits, history
<1> QED
  BY <1>1, <1>2, <1>3, <1>4 DEF Next

LEMMA CacheAlways == Spec => []CInv
BY CacheInit, CacheStep, PTL DEF Spec

(* Everything ws-server keeps of an instance is of its type.               *)
THEOREM CacheTypeCorrect == Spec => []CacheTypeOK
<1>1. CInv => CacheTypeOK
  BY DEF CInv
<1> QED
  BY <1>1, CacheAlways, PTL

(* No fetch overwrites an acknowledged command, which reaches the record   *)
(* once nothing is left to write.                                          *)
THEOREM FetchesLoseNothing == Spec => []AckedEditsKept
<1>1. CInv => AckedEditsKept
  BY DEF CInv, KeptSafe, AckedEditsKept
<1> QED
  BY <1>1, CacheAlways, PTL

(* After its delete notice nothing of an instance is left in memory.       *)
THEOREM DeletedLeavesNothing == Spec => []NothingOfDeleted
<1>1. CInv => NothingOfDeleted
  BY DEF CInv, Gone, NothingOfDeleted
<1> QED
  BY <1>1, CacheAlways, PTL

(* Commands are applied in the order they came, under rising numbers.      *)
THEOREM CommandsInOrder == Spec => []AppliedInOrder
<1>1. CInv => AppliedInOrder
  BY DEF CInv, Rising, AppliedInOrder
<1> QED
  BY <1>1, CacheAlways, PTL

-----------------------------------------------------------------------------
(* Whoever waits, waits for a fetch that is under way.                     *)

Awaited == \A w \in waiting : Active(w.fill)

LEMMA AwaitServed ==
  ASSUME CInv, Awaited, NEW kind, NEW edit, Await(kind, edit)
  PROVE  Awaited'
<1>1. PICK f \in Fills :
        /\ Hydrate(f)
        /\ waiting' = waiting \cup
             {[fill |-> f, job |-> [at |-> edits + restores, kind |-> kind, edit |-> edit]]}
  BY DEF Await
<1>2. /\ Active(f)' /\ \A g \in Fills \ {f} : fills'[g] = fills[g]
  BY <1>1, HydrateParts
<1>3. \A w \in waiting : w.fill \in Fills
  BY DEF CInv, CacheTypeOK
<1> QED
  BY <1>1, <1>2, <1>3 DEF Awaited, Active

LEMMA HydrateServed ==
  ASSUME CInv, Awaited, NEW f \in Fills, Hydrate(f), UNCHANGED waiting
  PROVE  Awaited'
<1>1. /\ Active(f)' /\ \A g \in Fills \ {f} : fills'[g] = fills[g]
  BY HydrateParts
<1>2. \A w \in waiting : w.fill \in Fills
  BY DEF CInv, CacheTypeOK
<1> QED
  BY <1>1, <1>2 DEF Awaited, Active

(* The phase of a fetch moves on; nobody waits for one that is over.       *)
LEMMA PhaseServed ==
  ASSUME CInv, Awaited, NEW f \in Fills,
         \A g \in Fills \ {f} : fills'[g] = fills[g],
         \/ Active(f)' /\ UNCHANGED waiting
         \/ waiting' = {w \in waiting : w.fill # f}
  PROVE  Awaited'
<1>1. \A w \in waiting : w.fill \in Fills
  BY DEF CInv, CacheTypeOK
<1> QED
  BY <1>1 DEF Awaited, Active

LEMMA AwaitedStep == CInv /\ Awaited /\ [Next]_vars => Awaited'
<1> SUFFICES ASSUME CInv, Awaited, [Next]_vars PROVE Awaited'
  OBVIOUS
<1>1. fills \in [Fills -> [phase : Phases, given : {Nothing} \cup Contents]]
  BY DEF CInv, CacheTypeOK
<1>2. CASE UNCHANGED <<fills, waiting>>
  BY <1>2 DEF Awaited, Active
<1>3. CASE SyncRequest
  BY <1>3, HydrateServed DEF SyncRequest
<1>4. CASE Command
  BY <1>2, <1>4, AwaitServed DEF Command
<1>5. CASE Restored
  BY <1>2, <1>5, AwaitServed DEF Restored
<1>6. ASSUME NEW f \in Fills, AnswerFetch(f) PROVE Awaited'
  <2>1. PICK given \in {record, Nothing} :
          fills' = [fills EXCEPT ![f] = [phase |-> "answered", given |-> given]]
    BY <1>6 DEF AnswerFetch
  <2>2. fills'[f].phase = "answered" /\ \A g \in Fills \ {f} : fills'[g] = fills[g]
    BY <1>1, <2>1
  <2>3. Active(f)' /\ UNCHANGED waiting
    BY <1>6, <2>2 DEF AnswerFetch, Active
  <2> QED
    BY <2>2, <2>3, PhaseServed
<1>7. ASSUME NEW f \in Fills, FillDocs(f) PROVE Awaited'
  <2>1. fills'[f].phase = "log" /\ \A g \in Fills \ {f} : fills'[g] = fills[g]
    BY <1>1, <1>7 DEF FillDocs
  <2>2. Active(f)' /\ UNCHANGED waiting
    BY <1>7, <2>1 DEF FillDocs, Active
  <2> QED
    BY <2>1, <2>2, PhaseServed
<1>8. ASSUME NEW f \in Fills, FillFails(f) \/ FillSequence(f) PROVE Awaited'
  <2>1. \A g \in Fills \ {f} : fills'[g] = fills[g]
    BY <1>1, <1>8 DEF FillFails, FillSequence
  <2>2. waiting' = {w \in waiting : w.fill # f}
    BY <1>8 DEF FillFails, FillSequence, Settle
  <2> QED
    BY <2>1, <2>2, PhaseServed
<1>9. CASE FileServer
  BY <1>2, <1>6, <1>9 DEF FileServer, Create, Delete, Restore, Reload, AnswerList, awaits
<1>10. CASE WsServer
  <2>1. ASSUME NEW n \in {"delete", "deleted"}, Deleted(n) PROVE UNCHANGED <<fills, waiting>>
    BY <2>1 DEF Deleted, awaits
  <2>2. ASSUME NEW job \in ready, Resume(job) PROVE UNCHANGED <<fills, waiting>>
    BY <2>2 DEF Resume
  <2>3. ASSUME NEW k \in ListKinds, UseList(k) PROVE UNCHANGED <<fills, waiting>>
    BY <2>3 DEF UseList
  <2>4. WatchInstances \/ InstanceCreated \/ InstancesUpdated => UNCHANGED <<fills, waiting>>
    BY DEF WatchInstances, InstanceCreated, InstancesUpdated, awaits
  <2> QED
    BY <1>2, <1>3, <1>4, <1>5, <1>7, <1>8, <1>10, <2>1, <2>2, <2>3, <2>4 DEF WsServer
<1>11. CASE Writer
  BY <1>2, <1>11 DEF Writer, StartWrite, WriteEnds, WriteFails, OrphanEnds, awaits
<1>12. CASE UNCHANGED vars
  BY <1>2, <1>12 DEF vars, awaits
<1> QED
  BY <1>9, <1>10, <1>11, <1>12 DEF Next

(* No handler waits for a fetch that is over, not even after a delete has  *)
(* forgotten the fetch or a restore has crossed it: together with the      *)
(* fairness of its steps this is why a handler is resumed.                 *)
THEOREM WaitersHaveAFetch == Spec => []Awaited
<1>1. Init => Awaited
  BY DEF Init, Awaited
<1> QED
  BY <1>1, AwaitedStep, CacheAlways, PTL DEF Spec

=============================================================================
