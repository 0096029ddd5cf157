-------------------------- MODULE SyncSessionProofs --------------------------
(* What the clients of an instance and ws-server do with its commands keeps   *)
(* the promise of send (module CommandLog); the commands of one batch stay    *)
(* together; what a tool was refused was not applied; a window at rest shows  *)
(* what the server holds; and a send that waits has its answer coming; for    *)
(* any numbers of windows, agents, commands and mishaps.                      *)
EXTENDS SyncSession, FiniteSetTheorems, SequenceTheorems, TLAPS

-----------------------------------------------------------------------------
(* The inductive invariant.                                                   *)

Messages == Requests \cup Sends

(* A tool that waits, waits for a command.                                    *)
TasksUnderWay == {x \in Tasks : x.step = "waiting" => x.last # 0}

Typed ==
  /\ log \in Seq(Entries)
  /\ seq \in Nat
  /\ deleted \in BOOLEAN
  /\ socket \in [Clients -> Sockets]
  /\ up \in [Clients -> Seq(Messages)]
  /\ down \in [Clients -> Seq(Replies)]
  /\ ready \in [Clients -> {"pending", "ready", "failed"}]
  /\ known \in [Clients -> Nat]
  /\ made \in 0 .. MaxCommands
  /\ by \in [Commands -> Clients \cup {None}]
  /\ status \in [Commands -> Statuses]
  /\ answers \in [Commands -> {0} \cup Numbers]
  /\ task \in [Agents -> TasksUnderWay]
  /\ view \in [Windows -> Contents]
  /\ paused \in [Windows -> BOOLEAN]
  /\ buffer \in [Windows -> Contents \cup {{0}}]
  /\ raced \in [Windows -> BOOLEAN]
  /\ mishaps \in 0 .. MaxMishaps
  /\ syncs \in 0 .. MaxSyncs

Logged(k, n) == \E i \in DOMAIN log : log[i].edit = k /\ log[i].number = n

(* The log is in the order of its numbers, of commands that were made.        *)
LogOrdered ==
  \A i \in DOMAIN log :
    /\ log[i].number <= seq /\ log[i].edit <= made
    /\ \A j \in DOMAIN log : i < j => log[i].number < log[j].number

(* Every number that was used was used by an entry or lost in a mishap.       *)
NumbersUsed == seq <= Cardinality(Content) + mishaps

(* A command on its way was made and not applied, and one of a batch carries  *)
(* the number of the one before it.                                           *)
UpSound ==
  \A c \in Clients : \A i \in DOMAIN up[c] : up[c][i].kind = "command" =>
    /\ up[c][i].edit <= made /\ up[c][i].edit \notin Content
    /\ status[up[c][i].edit] # "unsent"
    /\ up[c][i].after # 0 => Logged(up[c][i].after, up[c][i].base)

(* It is on its way once.                                                     *)
UpOnce ==
  \A c, d \in Clients : \A i \in DOMAIN up[c], j \in DOMAIN up[d] :
    up[c][i].kind = "command" /\ up[d][j].kind = "command" /\ up[c][i].edit = up[d][j].edit
      => c = d /\ i = j

(* An acknowledgement, on its way or received, is of an entry of the log.     *)
DownSound ==
  \A c \in Clients : \A i \in DOMAIN down[c] :
    down[c][i].kind = "ack" => Logged(down[c][i].edit, down[c][i].number)

CallsSound ==
  \A k \in Commands :
    /\ k > made => status[k] = "unsent"
    /\ status[k] = "acked" => Logged(k, answers[k])

SyncInv ==
  /\ Typed /\ LogOrdered /\ NumbersUsed /\ BatchesContiguous
  /\ UpSound /\ UpOnce /\ DownSound /\ CallsSound

-----------------------------------------------------------------------------
(* Types of messages and queues.                                              *)

LEMMA MessageFields ==
  ASSUME NEW m \in Messages, m.kind = "command"
  PROVE  m \in Sends
BY DEF Messages, Requests, Sends

LEMMA ReplyFields ==
  ASSUME NEW m \in Replies
  PROVE  /\ m.kind \in {"snapshot", "command", "ack"} => m.number \in Nat
         /\ m.kind \in {"command", "ack"} => m.edit \in Commands
         /\ m.kind = "snapshot" => m.content \in Contents
BY DEF Replies

LEMMA RepliesTyped ==
  /\ \A n \in Nat, k \in Commands : [kind |-> "ack", number |-> n, edit |-> k] \in Replies
  /\ \A n \in Nat, k \in Commands : [kind |-> "command", number |-> n, edit |-> k] \in Replies
  /\ \A n \in Nat, x \in Contents : [kind |-> "snapshot", number |-> n, content |-> x] \in Replies
  /\ [kind |-> "stale"] \in Replies /\ [kind |-> "error"] \in Replies
BY DEF Replies

LEMMA Appended ==
  ASSUME NEW S, NEW s \in Seq(S), NEW e \in S
  PROVE  /\ Append(s, e) \in Seq(S)
         /\ Len(s) \in Nat /\ DOMAIN s = 1 .. Len(s)
         /\ DOMAIN Append(s, e) = 1 .. Len(s) + 1
         /\ \A i \in DOMAIN s : Append(s, e)[i] = s[i] /\ s[i] \in S
         /\ Append(s, e)[Len(s) + 1] = e
OBVIOUS

LEMMA Shortened ==
  ASSUME NEW S, NEW s \in Seq(S), s # <<>>
  PROVE  /\ Tail(s) \in Seq(S)
         /\ Head(s) \in S /\ Head(s) = s[1] /\ 1 \in DOMAIN s
         /\ \A i \in DOMAIN Tail(s) : i + 1 \in DOMAIN s /\ Tail(s)[i] = s[i + 1] /\ i \in Nat /\ i > 0
BY HeadTailProperties, LenProperties, EmptySeq

LEMMA ElementTyped ==
  ASSUME NEW S, NEW s \in Seq(S), NEW i \in DOMAIN s
  PROVE  s[i] \in S /\ i \in Nat /\ i >= 1 /\ DOMAIN s = 1 .. Len(s)
BY LenProperties, ElementOfSeq

LEMMA ContentTyped ==
  ASSUME Typed
  PROVE  Content \in SUBSET Commands /\ Content \in Contents
<1>1. \A i \in DOMAIN log : log[i] \in Entries
  BY ElementTyped DEF Typed
<1> QED
  BY <1>1 DEF Content, Contents, Entries

(* There are no more entries than commands, so seq + 1 is a number as long as *)
(* a command is not applied.                                                  *)
LEMMA NumberLeft ==
  ASSUME Typed, NumbersUsed
  PROVE  /\ IsFiniteSet(Content) /\ Cardinality(Content) \in Nat
         /\ seq \in {0} \cup Numbers
         /\ \A k \in Commands \ Content :
              /\ Cardinality(Content \cup {k}) = Cardinality(Content) + 1
              /\ seq + 1 \in Numbers
<1>1. MaxCommands \in Nat /\ MaxMishaps \in Nat
  BY SessionAssumption
<1>2. IsFiniteSet(Commands) /\ Cardinality(Commands) = MaxCommands
  BY <1>1, FS_Interval DEF Commands
<1>3. /\ IsFiniteSet(Content) /\ Cardinality(Content) \in Nat
      /\ Cardinality(Content) <= MaxCommands
  BY <1>2, ContentTyped, FS_Subset, FS_CardinalityType
<1>4. ASSUME NEW k \in Commands \ Content
      PROVE  /\ Cardinality(Content \cup {k}) = Cardinality(Content) + 1
             /\ Cardinality(Content) + 1 <= MaxCommands
  <2>1. Content \cup {k} \in SUBSET Commands
    BY ContentTyped
  <2> QED
    BY <1>2, <1>3, <2>1, FS_AddElement, FS_Subset
<1>5. seq \in Nat /\ mishaps \in Nat /\ mishaps <= MaxMishaps
  BY <1>1 DEF Typed
<1>6. seq <= MaxCommands + MaxMishaps
  BY <1>1, <1>3, <1>5 DEF NumbersUsed
<1>7. ASSUME NEW k \in Commands \ Content PROVE seq + 1 \in Numbers
  <2>1. Cardinality(Content) + 1 <= MaxCommands
    BY <1>4, <1>7
  <2> QED
    BY <1>1, <1>3, <1>5, <2>1 DEF NumbersUsed, Numbers
<1> QED
  BY <1>1, <1>3, <1>4, <1>5, <1>6, <1>7 DEF Numbers

LEMMA InvTyped == SyncInv => SyncTypeOK
<1>1. TasksUnderWay \subseteq Tasks
  BY DEF TasksUnderWay
<1> QED
  BY <1>1, NumberLeft DEF SyncInv, Typed, SyncTypeOK, Messages

-----------------------------------------------------------------------------
(* Steps that neither send nor apply a command.                               *)

(* A queue to the server loses its first message, all of them, or gains a     *)
(* request.                                                                   *)
NoneSent(s, t) ==
  \/ t = s
  \/ s # <<>> /\ t = Tail(s)
  \/ \A i \in DOMAIN t : t[i].kind # "command"
  \/ t = Append(s, [kind |-> "request"])

(* A queue to a client gains no acknowledgement.                              *)
NoneAcked(s, t) ==
  \/ t = s
  \/ s # <<>> /\ t = Tail(s)
  \/ t = <<>>
  \/ \E m \in Replies : m.kind # "ack" /\ t = Append(s, m)

(* Each command on its way was on its way before.                             *)
LEMMA Kept ==
  ASSUME NEW s \in Seq(Messages), NEW t \in Seq(Messages), NoneSent(s, t)
  PROVE  \/ \A i \in DOMAIN t : t[i].kind = "command" => i \in DOMAIN s /\ t[i] = s[i]
         \/ \A i \in DOMAIN t : i \in Nat /\ i + 1 \in DOMAIN s /\ t[i] = s[i + 1]
<1>1. CASE s # <<>> /\ t = Tail(s)
  BY <1>1, Shortened
<1>2. CASE t = Append(s, [kind |-> "request"])
  <2>1. [kind |-> "request"] \in Messages
    BY DEF Messages, Requests
  <2> QED
    BY <1>2, <2>1, Appended
<1> QED
  BY <1>1, <1>2 DEF NoneSent

LEMMA AcksKept ==
  ASSUME NEW s \in Seq(Replies), NEW t \in Seq(Replies), NoneAcked(s, t),
         NEW i \in DOMAIN t, t[i].kind = "ack"
  PROVE  \E j \in DOMAIN s : t[i] = s[j]
<1>1. CASE s # <<>> /\ t = Tail(s)
  BY <1>1, Shortened
<1>2. ASSUME NEW m \in Replies, m.kind # "ack", t = Append(s, m)
      PROVE  \E j \in DOMAIN s : t[i] = s[j]
  BY <1>2, Appended
<1>3. CASE t = <<>>
  BY <1>3
<1> QED
  BY <1>1, <1>2, <1>3 DEF NoneAcked

LEMMA AllKept ==
  ASSUME SyncInv, Typed', \A c \in Clients : NoneSent(up[c], up'[c]), NEW c \in Clients
  PROVE  /\ up[c] \in Seq(Messages) /\ up'[c] \in Seq(Messages)
         /\ \/ \A i \in DOMAIN up'[c] :
                 up'[c][i].kind = "command" => i \in DOMAIN up[c] /\ up'[c][i] = up[c][i]
            \/ \A i \in DOMAIN up'[c] : i \in Nat /\ i + 1 \in DOMAIN up[c] /\ up'[c][i] = up[c][i + 1]
<1>1. up[c] \in Seq(Messages) /\ up'[c] \in Seq(Messages)
  BY DEF SyncInv, Typed
<1> QED
  BY <1>1, Kept

LEMMA UpOnceKeeps ==
  ASSUME SyncInv, Typed', \A c \in Clients : NoneSent(up[c], up'[c])
  PROVE  UpOnce'
<1>1. SUFFICES ASSUME NEW c \in Clients, NEW d \in Clients,
                      NEW i \in DOMAIN up'[c], NEW j \in DOMAIN up'[d],
                      up'[c][i].kind = "command", up'[d][j].kind = "command",
                      up'[c][i].edit = up'[d][j].edit
               PROVE  c = d /\ i = j
  BY DEF UpOnce
<1>2. \A e \in Clients :
        \/ \A l \in DOMAIN up'[e] :
             up'[e][l].kind = "command" => l \in DOMAIN up[e] /\ up'[e][l] = up[e][l]
        \/ \A l \in DOMAIN up'[e] : l \in Nat /\ l + 1 \in DOMAIN up[e] /\ up'[e][l] = up[e][l + 1]
  BY AllKept
<1>3. i \in Nat /\ j \in Nat
  BY AllKept, ElementTyped
<1> QED
  BY <1>1, <1>2, <1>3 DEF SyncInv, UpOnce

LEMMA UpKeeps ==
  ASSUME SyncInv, Typed', UNCHANGED log, made <= made',
         \A c \in Clients : NoneSent(up[c], up'[c]),
         \A k \in Commands : status[k] # "unsent" => status'[k] # "unsent"
  PROVE  UpSound' /\ UpOnce'
<1>3. ASSUME NEW c \in Clients, NEW i \in DOMAIN up'[c], up'[c][i].kind = "command"
      PROVE  /\ up'[c][i].edit <= made' /\ up'[c][i].edit \notin Content'
             /\ status'[up'[c][i].edit] # "unsent"
             /\ up'[c][i].after # 0 => Logged(up'[c][i].after, up'[c][i].base)
  <2>1. PICK j \in DOMAIN up[c] : up'[c][i] = up[c][j]
    BY <1>3, AllKept
  <2>2. up[c][j] \in Sends
    BY <1>3, <2>1, AllKept, ElementTyped, MessageFields
  <2>3. up[c][j].edit \in Commands /\ up[c][j].edit \in Nat /\ made \in Nat /\ made' \in Nat
    BY <2>2, SessionAssumption DEF Sends, Commands, SyncInv, Typed
  <2>4. /\ up[c][j].edit <= made /\ up[c][j].edit \notin Content
        /\ status[up[c][j].edit] # "unsent"
        /\ up[c][j].after # 0 => Logged(up[c][j].after, up[c][j].base)
    BY <1>3, <2>1 DEF SyncInv, UpSound
  <2>5. up[c][j].edit <= made' /\ Content' = Content
    BY <2>3, <2>4 DEF Content
  <2> QED
    BY <2>1, <2>3, <2>4, <2>5
<1> QED
  BY <1>3, UpOnceKeeps DEF UpSound, Logged

LEMMA DownKeeps ==
  ASSUME SyncInv, Typed', UNCHANGED log,
         \A c \in Clients : NoneAcked(down[c], down'[c])
  PROVE  DownSound'
<1>1. \A c \in Clients : down[c] \in Seq(Replies) /\ down'[c] \in Seq(Replies)
  BY DEF SyncInv, Typed
<1>2. SUFFICES ASSUME NEW c \in Clients, NEW i \in DOMAIN down'[c], down'[c][i].kind = "ack"
               PROVE  Logged(down'[c][i].edit, down'[c][i].number)
  BY DEF DownSound, Logged
<1>3. PICK j \in DOMAIN down[c] : down'[c][i] = down[c][j]
  BY <1>1, <1>2, AcksKept
<1> QED
  BY <1>2, <1>3 DEF SyncInv, DownSound, Logged

(* Numbers may be lost in mishaps; every send may get another status, but     *)
(* only from an entry of the log that of an acknowledged one.                 *)
LEMMA QuietStep ==
  ASSUME SyncInv, Typed', UNCHANGED log, made <= made',
         seq <= seq', seq' - seq <= mishaps' - mishaps,
         \A c \in Clients : NoneSent(up[c], up'[c]) /\ NoneAcked(down[c], down'[c]),
         \A k \in Commands : status[k] # "unsent" => status'[k] # "unsent",
         CallsSound'
  PROVE  SyncInv'
<1>1. UpSound' /\ UpOnce' /\ DownSound'
  BY UpKeeps, DownKeeps
<1>2. seq \in Nat /\ seq' \in Nat /\ mishaps \in Nat /\ mishaps' \in Nat /\ made \in Nat /\ made' \in Nat
  BY SessionAssumption DEF SyncInv, Typed
<1>3. \A i \in DOMAIN log : log[i].number \in Nat /\ log[i].edit \in Nat
  <2>1. \A i \in DOMAIN log : log[i] \in Entries
    BY ElementTyped DEF SyncInv, Typed
  <2> QED
    BY <2>1, SessionAssumption DEF Entries, Numbers, Commands
<1>4. LogOrdered'
  BY <1>2, <1>3 DEF SyncInv, LogOrdered
<1>5. Cardinality(Content) \in Nat
  BY NumberLeft DEF SyncInv
<1>6. NumbersUsed'
  <2>1. Content' = Content
    BY DEF Content
  <2>2. seq <= Cardinality(Content) + mishaps
    BY DEF SyncInv, NumbersUsed
  <2> HIDE DEF Content
  <2> QED
    BY <1>2, <1>5, <2>1, <2>2 DEF NumbersUsed
<1>7. BatchesContiguous'
  BY DEF SyncInv, BatchesContiguous
<1> QED
  BY <1>1, <1>4, <1>6, <1>7 DEF SyncInv

-----------------------------------------------------------------------------
(* A step that sends a command.                                               *)

LEMMA SendKeeps ==
  ASSUME SyncInv, Typed', NEW c \in Clients, NEW k \in Commands,
         NEW base \in Nat \cup {None}, NEW after \in {0} \cup Commands,
         Send(c, k, base, after), UNCHANGED <<log, seq, mishaps>>,
         after # 0 => Logged(after, base)
  PROVE  SyncInv'
<1>1. /\ made \in Nat /\ made' = k /\ k = made + 1 /\ k \in Nat
      /\ \A e \in Commands : e \in Nat
  BY SessionAssumption DEF SyncInv, Typed, Send, Commands
<1>2. /\ status[k] = "unsent" /\ k \notin Content
      /\ \A d \in Clients : \A i \in DOMAIN up[d] : up[d][i].kind = "command" => up[d][i].edit # k
  <2>1. \A i \in DOMAIN log : log[i].edit # k
    BY <1>1 DEF SyncInv, LogOrdered
  <2> QED
    BY <1>1, <2>1 DEF SyncInv, CallsSound, UpSound, Content
<1>3. /\ \A e \in Commands \ {k} : status'[e] = status[e]
      /\ status'[k] \in {"waiting", "lost"} /\ answers' = answers
  BY DEF Send, SyncInv, Typed
<1>4. CallsSound'
  <2>1. SUFFICES ASSUME NEW e \in Commands
                 PROVE  /\ e > made' => status'[e] = "unsent"
                        /\ status'[e] = "acked" => Logged(e, answers[e])
    BY <1>3 DEF CallsSound, Logged
  <2>2. /\ e > made => status[e] = "unsent"
        /\ status[e] = "acked" => Logged(e, answers[e])
    BY DEF SyncInv, CallsSound
  <2> QED
    BY <1>1, <1>3, <2>2
<1>5. CASE UNCHANGED <<up, down>>
  <2>1. \A e \in Commands : status[e] # "unsent" => status'[e] # "unsent"
    BY <1>3
  <2>2. seq \in Nat /\ mishaps \in Nat
    BY SessionAssumption DEF SyncInv, Typed
  <2> QED
    BY <1>1, <1>4, <1>5, <2>1, <2>2, QuietStep DEF NoneSent, NoneAcked
<1>6. CASE socket[c] = "open"
  <2> DEFINE m == [kind |-> "command", edit |-> k, base |-> base, after |-> after]
  <2>1. m \in Messages /\ m.kind = "command" /\ m.edit = k /\ m.base = base /\ m.after = after
    BY DEF Messages, Sends
  <2>2. /\ up'[c] = Append(up[c], m) /\ \A d \in Clients \ {c} : up'[d] = up[d]
        /\ down' = down
    BY <1>6 DEF Send, SyncInv, Typed
  <2> HIDE DEF m
  <2>3. /\ Len(up[c]) \in Nat /\ DOMAIN up[c] = 1 .. Len(up[c])
        /\ DOMAIN up'[c] = 1 .. Len(up[c]) + 1
        /\ \A i \in DOMAIN up[c] : up'[c][i] = up[c][i]
        /\ up'[c][Len(up[c]) + 1] = m
    BY <2>1, <2>2, Appended DEF SyncInv, Typed
  <2>4. Content' = Content
    BY DEF Content
  <2>5. ASSUME NEW d \in Clients, NEW i \in DOMAIN up'[d], up'[d][i].kind = "command"
        PROVE  \/ d = c /\ up'[d][i] = m /\ i = Len(up[c]) + 1
               \/ i \in DOMAIN up[d] /\ up'[d][i] = up[d][i]
    BY <2>2, <2>3
  <2>6. UpSound'
    <3>1. SUFFICES ASSUME NEW d \in Clients, NEW i \in DOMAIN up'[d], up'[d][i].kind = "command"
                   PROVE  /\ up'[d][i].edit <= made' /\ up'[d][i].edit \notin Content
                          /\ status'[up'[d][i].edit] # "unsent"
                          /\ up'[d][i].after # 0 => Logged(up'[d][i].after, up'[d][i].base)
      BY <2>4 DEF UpSound, Logged
    <3>2. CASE up'[d][i] = m
      BY <1>1, <1>2, <1>3, <2>1, <3>2
    <3>3. CASE i \in DOMAIN up[d] /\ up'[d][i] = up[d][i]
      <4>1. up[d][i] \in Sends
        BY <3>1, <3>3, ElementTyped, MessageFields DEF SyncInv, Typed
      <4>2. up[d][i].edit \in Commands
        BY <4>1 DEF Sends
      <4>3. /\ up[d][i].edit <= made /\ up[d][i].edit \notin Content /\ up[d][i].edit # k
            /\ status[up[d][i].edit] # "unsent"
            /\ up[d][i].after # 0 => Logged(up[d][i].after, up[d][i].base)
        BY <1>2, <3>1, <3>3 DEF SyncInv, UpSound
      <4>4. up[d][i].edit <= made'
        <5> DEFINE x == up[d][i].edit
        <5>1. x \in Nat /\ x <= made
          BY <1>1, <4>2, <4>3
        <5> HIDE DEF x
        <5>2. x <= made'
          BY <1>1, <5>1
        <5> QED
          BY <5>2 DEF x
      <4>5. status'[up[d][i].edit] # "unsent"
        BY <1>3, <4>2, <4>3
      <4> QED
        BY <3>3, <4>3, <4>4, <4>5
    <3> QED
      BY <2>5, <3>1, <3>2, <3>3
  <2>7. UpOnce'
    <3>1. SUFFICES ASSUME NEW d \in Clients, NEW e \in Clients,
                          NEW i \in DOMAIN up'[d], NEW j \in DOMAIN up'[e],
                          up'[d][i].kind = "command", up'[e][j].kind = "command",
                          up'[d][i].edit = up'[e][j].edit
                   PROVE  d = e /\ i = j
      BY DEF UpOnce
    <3> QED
      BY <1>2, <2>1, <2>5, <3>1 DEF SyncInv, UpOnce
  <2>8. DownSound'
    BY <2>2 DEF SyncInv, DownSound, Logged
  <2>9. LogOrdered'
    <3>1. \A i \in DOMAIN log : log[i].edit \in Nat
      <4>1. \A i \in DOMAIN log : log[i] \in Entries
        BY ElementTyped DEF SyncInv, Typed
      <4> QED
        BY <1>1, <4>1 DEF Entries
    <3> QED
      BY <1>1, <3>1 DEF SyncInv, LogOrdered
  <2>10. NumbersUsed' /\ BatchesContiguous'
    <3>1. seq <= Cardinality(Content) + mishaps
      BY DEF SyncInv, NumbersUsed
    <3> HIDE DEF Content
    <3> QED
      BY <2>4, <3>1 DEF SyncInv, NumbersUsed, BatchesContiguous
  <2> QED
    BY <1>4, <2>6, <2>7, <2>8, <2>9, <2>10 DEF SyncInv
<1>7. CASE socket[c] # "open"
  BY <1>5, <1>7 DEF Send
<1> QED
  BY <1>6, <1>7

-----------------------------------------------------------------------------
(* The step that applies one.                                                 *)

(* What is known of the message that the server takes.                        *)
LEMMA Taken ==
  ASSUME SyncInv, NEW c \in Clients, Take(c, "command")
  PROVE  /\ Head(up[c]) \in Sends /\ Head(up[c]) = up[c][1] /\ 1 \in DOMAIN up[c]
         /\ Head(up[c]).edit \in Commands \ Content /\ Head(up[c]).edit <= made
         /\ status[Head(up[c]).edit] # "unsent" /\ status[Head(up[c]).edit] # "acked"
         /\ Head(up[c]).after # 0 => Logged(Head(up[c]).after, Head(up[c]).base)
<1>1. up[c] \in Seq(Messages) /\ up[c] # <<>> /\ Head(up[c]).kind = "command"
  BY DEF SyncInv, Typed, Take
<1>2. Head(up[c]) \in Messages /\ Head(up[c]) = up[c][1] /\ 1 \in DOMAIN up[c]
  BY <1>1, Shortened
<1>3. Head(up[c]) \in Sends
  BY <1>1, <1>2, MessageFields
<1>4. Head(up[c]).edit \in Commands
  BY <1>3 DEF Sends
<1>5. /\ Head(up[c]).edit <= made /\ Head(up[c]).edit \notin Content
      /\ status[Head(up[c]).edit] # "unsent"
      /\ Head(up[c]).after # 0 => Logged(Head(up[c]).after, Head(up[c]).base)
  BY <1>1, <1>2 DEF SyncInv, UpSound
<1>6. status[Head(up[c]).edit] # "acked"
  BY <1>4, <1>5 DEF SyncInv, CallsSound, Logged, Content
<1> QED
  BY <1>2, <1>3, <1>4, <1>5, <1>6

(* What taking a message leaves alone, and the queue it leaves.               *)
LEMMA TakeTyped ==
  ASSUME SyncInv, NEW c \in Clients, NEW kind, Take(c, kind)
  PROVE  /\ up' \in [Clients -> Seq(Messages)]
         /\ up[c] # <<>> /\ up'[c] = Tail(up[c])
         /\ \A d \in Clients \ {c} : up'[d] = up[d]
         /\ \A d \in Clients : NoneSent(up[d], up'[d])
         /\ UNCHANGED <<deleted, socket, ready, known, made, by, status, answers, task,
                        view, paused, buffer, syncs>>
<1>1. up[c] # <<>> /\ up' = [up EXCEPT ![c] = Tail(up[c])]
  BY DEF Take, SyncInv, Typed
<1>2. up \in [Clients -> Seq(Messages)]
  BY DEF SyncInv, Typed
<1>3. Tail(up[c]) \in Seq(Messages)
  BY <1>1, <1>2, Shortened
<1>4. UNCHANGED <<deleted, socket, ready, known, made, by, status, answers, task,
                  view, paused, buffer, syncs>>
  BY DEF Take, client, calls
<1> QED
  BY <1>1, <1>2, <1>3, <1>4 DEF NoneSent

LEMMA SpreadTyped ==
  ASSUME SyncInv, NEW c \in Clients, NEW k \in Commands, NEW n \in Nat, Spread(c, k, n)
  PROVE  /\ down' \in [Clients -> Seq(Replies)]
         /\ down'[c] = Append(down[c], [kind |-> "ack", number |-> n, edit |-> k])
         /\ \A d \in Clients \ {c} : NoneAcked(down[d], down'[d])
<1> DEFINE a == [kind |-> "ack", number |-> n, edit |-> k]
           b == [kind |-> "command", number |-> n, edit |-> k]
<1>1. a \in Replies /\ b \in Replies /\ b.kind # "ack"
  BY RepliesTyped
<1>2. down' = [d \in Clients |-> IF d = c THEN Append(down[d], a)
                                 ELSE IF socket[d] = "open" THEN Append(down[d], b) ELSE down[d]]
  BY DEF Spread
<1>3. \A d \in Clients : down[d] \in Seq(Replies)
  BY DEF SyncInv, Typed
<1> HIDE DEF a, b
<1>4. \A d \in Clients : Append(down[d], a) \in Seq(Replies) /\ Append(down[d], b) \in Seq(Replies)
  BY <1>1, <1>3, Appended
<1>5. down' \in [Clients -> Seq(Replies)]
  BY <1>2, <1>3, <1>4
<1>6. down'[c] = Append(down[c], a) /\ \A d \in Clients \ {c} : NoneAcked(down[d], down'[d])
  BY <1>1, <1>2 DEF NoneAcked
<1> QED
  BY <1>5, <1>6 DEF a

LEMMA ServeCommandKeeps ==
  ASSUME SyncInv, NEW c \in Clients, ServeCommand(c)
  PROVE  SyncInv'
<1> DEFINE m == Head(up[c])
           k == m.edit
           n == seq + 1
           e == [edit |-> k, number |-> n, after |-> m.after]
<1>1. Take(c, "command") /\ ~Stale(m) /\ raced' = raced /\ mishaps' = mishaps
  BY DEF ServeCommand
<1>2. seq' = n /\ log' = Append(log, e) /\ Spread(c, k, n)
  BY DEF ServeCommand
<1>3. /\ m \in Sends /\ m = up[c][1] /\ 1 \in DOMAIN up[c]
      /\ k \in Commands \ Content /\ k <= made
      /\ status[k] # "unsent" /\ status[k] # "acked"
      /\ m.after # 0 => Logged(m.after, m.base)
  BY <1>1, Taken
<1>4. n \in Nat /\ n \in Numbers /\ seq \in Nat /\ n > seq
  <2>1. seq \in Nat
    BY DEF SyncInv, Typed
  <2>2. seq + 1 \in Numbers
    BY <1>3, NumberLeft DEF SyncInv
  <2> QED
    BY <2>1, <2>2
<1>5. e \in Entries /\ e.edit = k /\ e.number = n /\ e.after = m.after
  BY <1>3, <1>4 DEF Entries, Sends
<1>6. m.kind = "command" /\ up[c] # <<>>
  BY <1>1 DEF Take
<1> HIDE DEF m, k, n, e
<1>8. /\ Len(log) \in Nat /\ DOMAIN log = 1 .. Len(log) /\ DOMAIN log' = 1 .. Len(log) + 1
      /\ \A i \in DOMAIN log : log'[i] = log[i] /\ log[i] \in Entries
      /\ log'[Len(log) + 1] = e /\ log' \in Seq(Entries)
  BY <1>2, <1>5, Appended DEF SyncInv, Typed
<1>9. \A i \in DOMAIN log : log[i].number \in Nat /\ log[i].edit \in Commands
  BY <1>8, SessionAssumption DEF Entries, Numbers
<1>10. Content' = Content \cup {k}
  BY <1>5, <1>8 DEF Content
<1>11. /\ \A x, y : Logged(x, y) => \E i \in DOMAIN log' : log'[i].edit = x /\ log'[i].number = y
       /\ \E i \in DOMAIN log' : log'[i].edit = k /\ log'[i].number = n
  BY <1>5, <1>8 DEF Logged
<1>12. /\ up' \in [Clients -> Seq(Messages)] /\ up'[c] = Tail(up[c])
       /\ \A d \in Clients \ {c} : up'[d] = up[d]
       /\ \A d \in Clients : NoneSent(up[d], up'[d])
       /\ UNCHANGED <<deleted, socket, ready, known, made, by, status, answers, task,
                      view, paused, buffer, syncs>>
  BY <1>1, TakeTyped
<1>13. /\ down' \in [Clients -> Seq(Replies)]
       /\ down'[c] = Append(down[c], [kind |-> "ack", number |-> n, edit |-> k])
       /\ \A d \in Clients \ {c} : NoneAcked(down[d], down'[d])
  BY <1>2, <1>3, <1>4, SpreadTyped
<1>14. Typed'
  BY <1>1, <1>2, <1>4, <1>8, <1>12, <1>13 DEF SyncInv, Typed
<1>15. LogOrdered'
  <2>1. \A i \in DOMAIN log : log[i].number <= seq /\ log[i].edit <= made
    BY DEF SyncInv, LogOrdered
  <2>2. ASSUME NEW i \in DOMAIN log' PROVE log'[i].number <= seq' /\ log'[i].edit <= made'
    BY <1>2, <1>3, <1>4, <1>5, <1>8, <1>9, <1>12, <2>1
  <2>3. ASSUME NEW i \in DOMAIN log', NEW j \in DOMAIN log', i < j
        PROVE  log'[i].number < log'[j].number
    <3>1. i \in DOMAIN log
      BY <1>8, <2>3
    <3>2. CASE j \in DOMAIN log
      BY <1>8, <2>3, <3>1, <3>2 DEF SyncInv, LogOrdered
    <3>3. CASE j = Len(log) + 1
      BY <1>4, <1>5, <1>8, <1>9, <2>1, <3>1, <3>3
    <3> QED
      BY <1>8, <3>2, <3>3
  <2> QED
    BY <2>2, <2>3 DEF LogOrdered
<1>16. NumbersUsed'
  <2>1. Cardinality(Content \cup {k}) = Cardinality(Content) + 1 /\ Cardinality(Content) \in Nat
    BY <1>3, NumberLeft DEF SyncInv
  <2>2. seq <= Cardinality(Content) + mishaps /\ mishaps \in Nat
    BY SessionAssumption DEF SyncInv, NumbersUsed, Typed
  <2>3. seq' = seq + 1 /\ mishaps' = mishaps
    BY <1>1, <1>2 DEF n
  <2> QED
    BY <1>4, <1>10, <2>1, <2>2, <2>3 DEF NumbersUsed
<1>17. BatchesContiguous'
  <2>1. ASSUME NEW i \in DOMAIN log, log[i].after # 0
        PROVE  i > 1 /\ log'[i - 1].edit = log[i].after
    BY <1>8, <2>1 DEF SyncInv, BatchesContiguous
  <2>2. ASSUME m.after # 0 PROVE Len(log) >= 1 /\ log[Len(log)].edit = m.after
    <3>1. PICK j \in DOMAIN log : log[j].edit = m.after /\ log[j].number = m.base
      BY <1>3, <2>2 DEF Logged
    <3>2. m.base # None /\ m.base \in Nat
      BY <1>9, <3>1, SessionAssumption
    <3>3. log[j].number >= seq
      BY <1>1, <1>4, <3>1, <3>2 DEF Stale
    <3>4. ASSUME j < Len(log) PROVE FALSE
      <4>1. Len(log) \in DOMAIN log /\ log[j].number < log[Len(log)].number /\ log[Len(log)].number <= seq
        BY <1>8, <3>4 DEF SyncInv, LogOrdered
      <4> QED
        BY <1>4, <1>9, <3>3, <4>1
    <3> QED
      BY <1>8, <3>1, <3>4
  <2> QED
    BY <1>5, <1>8, <2>1, <2>2 DEF BatchesContiguous
<1>18. UpSound'
  <2>1. SUFFICES ASSUME NEW d \in Clients, NEW i \in DOMAIN up'[d], up'[d][i].kind = "command"
                 PROVE  /\ up'[d][i].edit <= made' /\ up'[d][i].edit \notin Content'
                        /\ status'[up'[d][i].edit] # "unsent"
                        /\ up'[d][i].after # 0 =>
                             \E l \in DOMAIN log' : /\ log'[l].edit = up'[d][i].after
                                                   /\ log'[l].number = up'[d][i].base
    BY DEF UpSound, Logged
  <2>2. PICK j \in DOMAIN up[d] : up'[d][i] = up[d][j] /\ ~(d = c /\ j = 1)
    <3>1. CASE d = c
      <4>1. up[c] \in Seq(Messages)
        BY DEF SyncInv, Typed
      <4>2. i \in Nat /\ i > 0 /\ i + 1 \in DOMAIN up[c] /\ up'[c][i] = up[c][i + 1]
        BY <1>6, <1>12, <3>1, <4>1, Shortened
      <4> QED
        BY <3>1, <4>2
    <3>2. CASE d # c
      BY <1>12, <3>2
    <3> QED
      BY <3>1, <3>2
  <2>3. up[d][j].edit # k
    BY <1>3, <1>6, <2>1, <2>2 DEF SyncInv, UpOnce, k
  <2> QED
    BY <1>10, <1>11, <1>12, <2>1, <2>2, <2>3 DEF SyncInv, UpSound
<1>19. UpOnce'
  BY <1>12, <1>14, UpOnceKeeps
<1>20. DownSound'
  <2>1. SUFFICES ASSUME NEW d \in Clients, NEW i \in DOMAIN down'[d], down'[d][i].kind = "ack"
                 PROVE  \E j \in DOMAIN log' : /\ log'[j].edit = down'[d][i].edit
                                               /\ log'[j].number = down'[d][i].number
    BY DEF DownSound, Logged
  <2>2. down[d] \in Seq(Replies) /\ down'[d] \in Seq(Replies)
    BY <1>13 DEF SyncInv, Typed
  <2>3. CASE \E j \in DOMAIN down[d] : down'[d][i] = down[d][j]
    BY <1>11, <2>1, <2>3 DEF SyncInv, DownSound
  <2>4. CASE d # c
    BY <1>13, <2>1, <2>2, <2>3, <2>4, AcksKept
  <2>5. CASE d = c
    <3> DEFINE a == [kind |-> "ack", number |-> n, edit |-> k]
    <3>1. a \in Replies
      BY <1>3, <1>4, RepliesTyped
    <3>2. a.edit = k /\ a.number = n
      OBVIOUS
    <3>3. down'[c] = Append(down[c], a)
      BY <1>13
    <3> HIDE DEF a
    <3>4. (i \in DOMAIN down[c] /\ down'[c][i] = down[c][i]) \/ down'[c][i] = a
      BY <2>2, <2>5, <3>1, <3>3, Appended
    <3> QED
      BY <1>11, <2>3, <2>5, <3>2, <3>4
  <2> QED
    BY <2>4, <2>5
<1>21. CallsSound'
  <2>1. SUFFICES ASSUME NEW q \in Commands
                 PROVE  /\ q > made => status[q] = "unsent"
                        /\ status[q] = "acked" =>
                             \E l \in DOMAIN log' : log'[l].edit = q /\ log'[l].number = answers[q]
    BY <1>12 DEF CallsSound, Logged
  <2> QED
    BY <1>11 DEF SyncInv, CallsSound
<1> QED
  BY <1>14, <1>15, <1>16, <1>17, <1>18, <1>19, <1>20, <1>21 DEF SyncInv

-----------------------------------------------------------------------------
(* The other steps of the server.                                             *)

LEMMA StillStep ==
  ASSUME SyncInv, Typed', UNCHANGED <<log, made, status, answers>>,
         seq <= seq', seq' - seq <= mishaps' - mishaps,
         \A c \in Clients : NoneSent(up[c], up'[c]) /\ NoneAcked(down[c], down'[c])
  PROVE  SyncInv'
<1>1. CallsSound'
  BY DEF SyncInv, CallsSound, Logged
<1>2. made <= made'
  BY SessionAssumption DEF SyncInv, Typed
<1> QED
  BY <1>1, <1>2, QuietStep

LEMMA ReplyTyped ==
  ASSUME SyncInv, NEW c \in Clients, NEW m \in Replies, m.kind # "ack", Reply(c, m)
  PROVE  /\ down' \in [Clients -> Seq(Replies)]
         /\ \A d \in Clients : NoneAcked(down[d], down'[d])
<1>1. down \in [Clients -> Seq(Replies)] /\ down' = [down EXCEPT ![c] = Append(down[c], m)]
  BY DEF Reply, SyncInv, Typed
<1>2. Append(down[c], m) \in Seq(Replies)
  BY <1>1, Appended
<1> QED
  BY <1>1, <1>2 DEF NoneAcked

LEMMA ServeRequestKeeps ==
  ASSUME SyncInv, NEW c \in Clients, ServeRequest(c)
  PROVE  SyncInv'
<1> DEFINE m == IF deleted THEN [kind |-> "error"]
                ELSE [kind |-> "snapshot", number |-> seq, content |-> Content]
<1>1. Take(c, "request") /\ Reply(c, m) /\ UNCHANGED <<log, seq, raced, mishaps>>
  BY DEF ServeRequest
<1>2. m \in Replies /\ m.kind # "ack"
  BY RepliesTyped, ContentTyped DEF SyncInv, Typed
<1> HIDE DEF m
<1>3. /\ down' \in [Clients -> Seq(Replies)]
      /\ \A d \in Clients : NoneAcked(down[d], down'[d])
  BY <1>1, <1>2, ReplyTyped
<1>4. /\ up' \in [Clients -> Seq(Messages)] /\ \A d \in Clients : NoneSent(up[d], up'[d])
      /\ UNCHANGED <<deleted, socket, ready, known, made, by, status, answers, task,
                     view, paused, buffer, syncs>>
  BY <1>1, TakeTyped
<1>5. Typed' /\ seq \in Nat /\ mishaps \in Nat
  BY <1>1, <1>3, <1>4, SessionAssumption DEF SyncInv, Typed
<1> QED
  BY <1>1, <1>3, <1>4, <1>5, StillStep

LEMMA RefuseStaleKeeps ==
  ASSUME SyncInv, NEW c \in Clients, RefuseStale(c)
  PROVE  SyncInv'
<1> DEFINE m == [kind |-> "stale"]
<1>1. Take(c, "command") /\ Reply(c, m) /\ UNCHANGED <<log, seq, raced, mishaps>>
  BY DEF RefuseStale
<1>2. m \in Replies /\ m.kind # "ack"
  BY RepliesTyped
<1> HIDE DEF m
<1>3. /\ down' \in [Clients -> Seq(Replies)]
      /\ \A d \in Clients : NoneAcked(down[d], down'[d])
  BY <1>1, <1>2, ReplyTyped
<1>4. /\ up' \in [Clients -> Seq(Messages)] /\ \A d \in Clients : NoneSent(up[d], up'[d])
      /\ UNCHANGED <<deleted, socket, ready, known, made, by, status, answers, task,
                     view, paused, buffer, syncs>>
  BY <1>1, TakeTyped
<1>5. Typed' /\ seq \in Nat /\ mishaps \in Nat
  BY <1>1, <1>3, <1>4, SessionAssumption DEF SyncInv, Typed
<1> QED
  BY <1>1, <1>3, <1>4, <1>5, StillStep

LEMMA UnwantedTyped ==
  ASSUME SyncInv, NEW c \in Clients, Unwanted(c)
  PROVE  raced' \in [Windows -> BOOLEAN]
<1>1. raced \in [Windows -> BOOLEAN]
  BY DEF SyncInv, Typed
<1>2. raced' = [w \in Windows |-> raced[w] \/ w = c]
  BY DEF Unwanted
<1> QED
  BY <1>1, <1>2, Zenon

LEMMA FaultyCommandKeeps ==
  ASSUME SyncInv, NEW c \in Clients, FaultyCommand(c)
  PROVE  SyncInv'
<1> DEFINE m == [kind |-> "error"]
<1>1. /\ Take(c, "command") /\ Reply(c, m) /\ log' = log /\ Unwanted(c)
      /\ mishaps < MaxMishaps /\ mishaps' = mishaps + 1 /\ (seq' = seq \/ seq' = seq + 1)
  BY DEF FaultyCommand
<1>2. m \in Replies /\ m.kind # "ack"
  BY RepliesTyped
<1> HIDE DEF m
<1>3. /\ down' \in [Clients -> Seq(Replies)]
      /\ \A d \in Clients : NoneAcked(down[d], down'[d])
  BY <1>1, <1>2, ReplyTyped
<1>4. /\ up' \in [Clients -> Seq(Messages)] /\ \A d \in Clients : NoneSent(up[d], up'[d])
      /\ UNCHANGED <<deleted, socket, ready, known, made, by, status, answers, task,
                     view, paused, buffer, syncs>>
  BY <1>1, TakeTyped
<1>5. /\ seq \in Nat /\ mishaps \in Nat /\ seq' \in Nat /\ mishaps' \in 0 .. MaxMishaps
      /\ seq <= seq' /\ seq' - seq <= mishaps' - mishaps
  BY <1>1, SessionAssumption DEF SyncInv, Typed
<1>6. Typed'
  BY <1>1, <1>3, <1>4, <1>5, UnwantedTyped DEF SyncInv, Typed
<1> QED
  BY <1>1, <1>3, <1>4, <1>5, <1>6, StillStep

LEMMA DropCommandKeeps ==
  ASSUME SyncInv, NEW c \in Clients, DropCommand(c)
  PROVE  SyncInv'
<1>1. Take(c, "command") /\ Unwanted(c) /\ UNCHANGED <<log, seq, down, mishaps>>
  BY DEF DropCommand
<1>2. /\ up' \in [Clients -> Seq(Messages)] /\ \A d \in Clients : NoneSent(up[d], up'[d])
      /\ UNCHANGED <<deleted, socket, ready, known, made, by, status, answers, task,
                     view, paused, buffer, syncs>>
  BY <1>1, TakeTyped
<1>3. Typed' /\ seq \in Nat /\ mishaps \in Nat
  BY <1>1, <1>2, UnwantedTyped, SessionAssumption DEF SyncInv, Typed
<1>4. \A d \in Clients : NoneAcked(down[d], down'[d])
  BY <1>1 DEF NoneAcked
<1> QED
  BY <1>1, <1>2, <1>3, <1>4, StillStep

LEMMA DeleteKeeps ==
  ASSUME SyncInv, DeleteInstance
  PROVE  SyncInv'
<1> DEFINE m == [kind |-> "snapshot", number |-> seq, content |-> {}]
<1>1. /\ deleted' = TRUE /\ mishaps < MaxMishaps /\ mishaps' = mishaps + 1
      /\ down' = [d \in Clients |-> IF socket[d] = "open" THEN Append(down[d], m) ELSE down[d]]
  BY DEF DeleteInstance
<1>2. UNCHANGED <<log, seq, socket, up, ready, known, made, by, status, answers, task,
                  view, paused, buffer, raced, syncs>>
  BY DEF DeleteInstance, client, calls, window
<1>3. m \in Replies /\ m.kind # "ack"
  BY RepliesTyped DEF SyncInv, Typed, Contents
<1> HIDE DEF m
<1>4. \A d \in Clients : down[d] \in Seq(Replies) /\ Append(down[d], m) \in Seq(Replies)
  BY <1>3, Appended DEF SyncInv, Typed
<1>5. /\ down' \in [Clients -> Seq(Replies)]
      /\ \A d \in Clients : NoneAcked(down[d], down'[d])
  BY <1>1, <1>3, <1>4 DEF NoneAcked
<1>6. /\ seq \in Nat /\ mishaps \in Nat /\ mishaps' \in 0 .. MaxMishaps /\ mishaps' = mishaps + 1
      /\ \A d \in Clients : NoneSent(up[d], up'[d])
  BY <1>1, <1>2, SessionAssumption DEF SyncInv, Typed, NoneSent
<1>7. Typed'
  BY <1>1, <1>2, <1>5, <1>6 DEF SyncInv, Typed
<1> QED
  BY <1>2, <1>5, <1>6, <1>7, StillStep

-----------------------------------------------------------------------------
(* The sockets.                                                               *)

LEMMA ConnectTyped ==
  ASSUME SyncInv, NEW a \in Clients, Connect(a)
  PROVE  /\ socket' \in [Clients -> Sockets] /\ up' \in [Clients -> Seq(Messages)]
         /\ down' \in [Clients -> Seq(Replies)]
         /\ ready' \in [Clients -> {"pending", "ready", "failed"}] /\ known' \in [Clients -> Nat]
         /\ \A d \in Clients : NoneSent(up[d], up'[d]) /\ NoneAcked(down[d], down'[d])
<1>1. /\ socket \in [Clients -> Sockets] /\ up \in [Clients -> Seq(Messages)]
      /\ down \in [Clients -> Seq(Replies)]
      /\ ready \in [Clients -> {"pending", "ready", "failed"}] /\ known \in [Clients -> Nat]
  BY DEF SyncInv, Typed
<1>2. <<>> \in Seq(Messages) /\ <<>> \in Seq(Replies) /\ DOMAIN <<>> = {}
  OBVIOUS
<1>3. /\ up' = [up EXCEPT ![a] = <<>>] /\ down' = [down EXCEPT ![a] = <<>>]
      /\ socket' \in [Clients -> Sockets]
      /\ ready' \in [Clients -> {"pending", "ready", "failed"}] /\ known' \in [Clients -> Nat]
  BY <1>1 DEF Connect, Sockets
<1> QED
  BY <1>1, <1>2, <1>3 DEF NoneSent, NoneAcked

LEMMA CloseTyped ==
  ASSUME SyncInv, NEW c \in Clients, Close(c), UNCHANGED <<log, made, answers>>
  PROVE  /\ socket' \in [Clients -> Sockets] /\ up' \in [Clients -> Seq(Messages)]
         /\ down' \in [Clients -> Seq(Replies)]
         /\ ready' \in [Clients -> {"pending", "ready", "failed"}] /\ known' \in [Clients -> Nat]
         /\ status' \in [Commands -> Statuses]
         /\ \A d \in Clients : NoneSent(up[d], up'[d]) /\ NoneAcked(down[d], down'[d])
         /\ CallsSound' /\ \A k \in Commands : status[k] # "unsent" => status'[k] # "unsent"
<1>1. /\ socket \in [Clients -> Sockets] /\ up \in [Clients -> Seq(Messages)]
      /\ down \in [Clients -> Seq(Replies)] /\ status \in [Commands -> Statuses]
      /\ ready \in [Clients -> {"pending", "ready", "failed"}] /\ known \in [Clients -> Nat]
  BY DEF SyncInv, Typed
<1>2. <<>> \in Seq(Messages) /\ <<>> \in Seq(Replies) /\ DOMAIN <<>> = {}
  OBVIOUS
<1>3. /\ up' = [up EXCEPT ![c] = <<>>] /\ down' = [down EXCEPT ![c] = <<>>]
      /\ socket' \in [Clients -> Sockets]
      /\ ready' \in [Clients -> {"pending", "ready", "failed"}] /\ known' \in [Clients -> Nat]
  BY <1>1 DEF Close, Sockets
<1>4. status' = [k \in Commands |-> IF k \in Outstanding(c) THEN "lost" ELSE status[k]]
  BY DEF Close, DrainPendingAcks
<1>5. CallsSound'
  <2>1. \A k \in Outstanding(c) : status[k] = "waiting"
    BY DEF Outstanding
  <2> QED
    BY <1>4, <2>1 DEF SyncInv, CallsSound, Logged
<1>6. /\ status' \in [Commands -> Statuses]
      /\ \A k \in Commands : status[k] # "unsent" => status'[k] # "unsent"
  BY <1>1, <1>4 DEF Statuses
<1> QED
  BY <1>1, <1>2, <1>3, <1>5, <1>6 DEF NoneSent, NoneAcked

LEMMA LoseKeeps ==
  ASSUME SyncInv, NEW c \in Clients, Lose(c)
  PROVE  SyncInv'
<1>1. Close(c) /\ mishaps < MaxMishaps /\ mishaps' = mishaps + 1
  BY DEF Lose
<1>2. UNCHANGED <<log, seq, deleted, made, by, answers, task, view, paused, buffer, raced, syncs>>
  BY DEF Lose, server, window
<1>3. /\ seq \in Nat /\ mishaps \in Nat /\ mishaps' \in 0 .. MaxMishaps /\ made \in Nat
  BY <1>1, SessionAssumption DEF SyncInv, Typed
<1>4. Typed'
  BY <1>1, <1>2, <1>3, CloseTyped DEF SyncInv, Typed
<1> QED
  BY <1>1, <1>2, <1>3, <1>4, CloseTyped, QuietStep

(* The three ways a message changes the calls: of these, only an              *)
(* acknowledgement of an entry of the log acknowledges one.                   *)
LEMMA ReceiveCalls ==
  ASSUME SyncInv, NEW c \in Clients, Receive(c)
  PROVE  LET m == Head(down[c]) IN
         \/ /\ m.edit \in Commands /\ m.edit \in Outstanding(c) /\ Logged(m.edit, m.number)
            /\ status' = [status EXCEPT ![m.edit] = "acked"]
            /\ answers' = [answers EXCEPT ![m.edit] = m.number]
         \/ /\ \E outcome \in {"stale", "refused"} : DrainPendingAcks(c, outcome)
            /\ answers' = answers
         \/ UNCHANGED <<status, answers>>
<1> DEFINE m == Head(down[c])
<1>1. down[c] \in Seq(Replies) /\ down[c] # <<>>
  BY DEF Receive, SyncInv, Typed
<1>2. m = down[c][1] /\ 1 \in DOMAIN down[c]
  BY <1>1, Shortened
<1>3. CASE m.kind = "ack" /\ m.edit \in Outstanding(c)
  <2>1. Logged(m.edit, m.number)
    BY <1>2, <1>3 DEF SyncInv, DownSound
  <2> QED
    BY <1>3, <2>1 DEF Receive, Outstanding
<1>4. CASE m.kind \in {"stale", "error"}
  BY <1>4 DEF Receive
<1>5. CASE m.kind \notin {"stale", "error"} /\ ~(m.kind = "ack" /\ m.edit \in Outstanding(c))
  BY <1>5 DEF Receive
<1> QED
  BY <1>3, <1>4, <1>5

LEMMA ReceiveKeeps ==
  ASSUME SyncInv, NEW c \in Clients, Receive(c)
  PROVE  SyncInv'
<1> DEFINE m == Head(down[c])
<1>1. /\ down[c] \in Seq(Replies) /\ down[c] # <<>>
      /\ down' = [down EXCEPT ![c] = Tail(down[c])]
  BY DEF Receive, SyncInv, Typed
<1>2. m \in Replies /\ Tail(down[c]) \in Seq(Replies)
  BY <1>1, Shortened
<1>3. /\ down' \in [Clients -> Seq(Replies)]
      /\ \A d \in Clients : NoneAcked(down[d], down'[d])
  BY <1>1, <1>2 DEF NoneAcked, SyncInv, Typed
<1>4. UNCHANGED <<log, seq, deleted, socket, up, made, by, task, paused, raced, mishaps, syncs>>
  BY DEF Receive, server
<1>5. /\ known' \in [Clients -> Nat] /\ ready' \in [Clients -> {"pending", "ready", "failed"}]
  <2>1. known' = IF m.kind \in {"snapshot", "command", "ack"} THEN [known EXCEPT ![c] = m.number] ELSE known
    BY DEF Receive
  <2>2. ready' = IF ready[c] # "pending" THEN ready
                 ELSE IF m.kind = "snapshot" THEN [ready EXCEPT ![c] = "ready"]
                 ELSE IF m.kind \in {"stale", "error"} THEN [ready EXCEPT ![c] = "failed"]
                 ELSE ready
    BY DEF Receive
  <2>3. known \in [Clients -> Nat] /\ ready \in [Clients -> {"pending", "ready", "failed"}]
    BY DEF SyncInv, Typed
  <2> HIDE DEF m
  <2> QED
    BY <1>2, <2>1, <2>2, <2>3, ReplyFields
<1>6. view' \in [Windows -> Contents] /\ buffer' \in [Windows -> Contents \cup {{0}}]
  <2>1. view' = [w \in Windows |-> IF w # c \/ paused[w] THEN view[w]
                                   ELSE IF m.kind = "snapshot" THEN m.content
                                   ELSE IF m.kind = "command" THEN view[w] \cup {m.edit}
                                   ELSE view[w]]
    BY DEF Receive
  <2>2. buffer' = [w \in Windows |->
                    IF w = c /\ paused[w] /\ m.kind = "snapshot" THEN m.content ELSE buffer[w]]
    BY DEF Receive
  <2>3. view \in [Windows -> Contents] /\ buffer \in [Windows -> Contents \cup {{0}}]
    BY DEF SyncInv, Typed
  <2> HIDE DEF m
  <2>4. /\ m.kind = "snapshot" => m.content \in Contents
        /\ \A w \in Windows : m.kind = "command" => view[w] \cup {m.edit} \in Contents
    BY <1>2, <2>3, ReplyFields DEF Contents
  <2>5. view' \in [Windows -> Contents]
    BY <2>1, <2>3, <2>4
  <2> QED
    BY <2>2, <2>3, <2>4, <2>5
<1>7. /\ status' \in [Commands -> Statuses] /\ answers' \in [Commands -> {0} \cup Numbers]
      /\ \A k \in Commands : status[k] # "unsent" => status'[k] # "unsent"
      /\ CallsSound'
  <2>1. status \in [Commands -> Statuses] /\ answers \in [Commands -> {0} \cup Numbers]
    BY DEF SyncInv, Typed
  <2>2. CASE /\ m.edit \in Commands /\ m.edit \in Outstanding(c) /\ Logged(m.edit, m.number)
             /\ status' = [status EXCEPT ![m.edit] = "acked"]
             /\ answers' = [answers EXCEPT ![m.edit] = m.number]
    <3>1. m.number \in Numbers
      <4>1. \A i \in DOMAIN log : log[i] \in Entries
        BY ElementTyped DEF SyncInv, Typed
      <4> QED
        BY <2>2, <4>1 DEF Logged, Entries
    <3>2. status[m.edit] = "waiting"
      BY <2>2 DEF Outstanding
    <3> HIDE DEF m
    <3>3. CallsSound'
      BY <1>4, <2>1, <2>2, <3>2 DEF SyncInv, CallsSound, Logged
    <3> QED
      BY <2>1, <2>2, <3>1, <3>3 DEF Statuses
  <2>3. CASE /\ \E outcome \in {"stale", "refused"} : DrainPendingAcks(c, outcome)
             /\ answers' = answers
    <3>1. PICK outcome \in {"stale", "refused"} :
            status' = [k \in Commands |-> IF k \in Outstanding(c) THEN outcome ELSE status[k]]
      BY <2>3 DEF DrainPendingAcks
    <3>2. \A k \in Outstanding(c) : status[k] = "waiting"
      BY DEF Outstanding
    <3>3. CallsSound'
      BY <1>4, <2>3, <3>1, <3>2 DEF SyncInv, CallsSound, Logged
    <3> QED
      BY <2>1, <2>3, <3>1, <3>3 DEF Statuses
  <2>4. CASE UNCHANGED <<status, answers>>
    BY <1>4, <2>1, <2>4 DEF SyncInv, CallsSound, Logged
  <2> QED
    BY <2>2, <2>3, <2>4, ReceiveCalls
<1>8. Typed'
  BY <1>3, <1>4, <1>5, <1>6, <1>7 DEF SyncInv, Typed
<1>9. /\ made <= made' /\ seq <= seq' /\ seq' - seq <= mishaps' - mishaps
      /\ \A d \in Clients : NoneSent(up[d], up'[d])
  BY <1>4, SessionAssumption DEF SyncInv, Typed, NoneSent
<1> QED
  BY <1>3, <1>4, <1>7, <1>8, <1>9, QuietStep

-----------------------------------------------------------------------------
(* The windows.                                                               *)

LEMMA AClient == /\ \A w \in Windows : w \in Clients
                 /\ \A a \in Agents : a \in Clients
BY DEF Clients

LEMMA SendTyped ==
  ASSUME SyncInv, NEW c \in Clients, NEW k \in Commands,
         NEW base \in Nat \cup {None}, NEW after \in {0} \cup Commands,
         Send(c, k, base, after)
  PROVE  /\ made' \in 0 .. MaxCommands
         /\ by' \in [Commands -> Clients \cup {None}] /\ status' \in [Commands -> Statuses]
         /\ up' \in [Clients -> Seq(Messages)]
         /\ UNCHANGED <<answers, socket, down>>
<1> DEFINE m == [kind |-> "command", edit |-> k, base |-> base, after |-> after]
<1>1. m \in Messages
  BY DEF Messages, Sends
<1>2. up' = up \/ up' = [up EXCEPT ![c] = Append(up[c], m)]
  BY DEF Send, SyncInv, Typed
<1> HIDE DEF m
<1>3. up \in [Clients -> Seq(Messages)]
  BY DEF SyncInv, Typed
<1>4. Append(up[c], m) \in Seq(Messages)
  BY <1>1, <1>3, Appended
<1>5. up' \in [Clients -> Seq(Messages)]
  BY <1>2, <1>3, <1>4
<1> QED
  BY <1>5, SessionAssumption DEF Send, SyncInv, Typed, Statuses

LEMMA EditKeeps ==
  ASSUME SyncInv, NEW w \in Windows, Edit(w)
  PROVE  SyncInv'
<1>1. PICK k \in Commands : Send(w, k, None, 0) /\ view' = [view EXCEPT ![w] = @ \cup {k}]
  BY DEF Edit
<1>2. UNCHANGED <<log, seq, deleted, ready, known, task, paused, buffer, mishaps, syncs>>
  BY DEF Edit, server, client
<1>3. view' \in [Windows -> Contents]
  BY <1>1 DEF SyncInv, Typed, Contents
<1>4. raced' \in [Windows -> BOOLEAN]
  <2>1. raced' = [raced EXCEPT ![w] = raced[w] \/ Awaited(w)] /\ raced \in [Windows -> BOOLEAN]
    BY DEF Edit, SyncInv, Typed
  <2>2. (raced[w] \/ Awaited(w)) \in BOOLEAN
    BY Zenon
  <2> QED
    BY <2>1, <2>2
<1>5. Typed'
  BY <1>1, <1>2, <1>3, <1>4, SendTyped, AClient DEF SyncInv, Typed
<1> QED
  BY <1>1, <1>2, <1>5, SendKeeps, AClient

LEMMA EditPausedKeeps ==
  ASSUME SyncInv, NEW w \in Windows, EditPaused(w)
  PROVE  SyncInv'
<1>1. /\ made < MaxCommands /\ made' = made + 1
      /\ view' = [view EXCEPT ![w] = @ \cup {made + 1}]
      /\ UNCHANGED <<log, seq, deleted, socket, up, down, ready, known, by, status, answers, task,
                     paused, buffer, raced, mishaps, syncs>>
  BY DEF EditPaused, server, net, client
<1>2. made \in Nat /\ made' \in 0 .. MaxCommands /\ made + 1 \in Commands
  BY <1>1, SessionAssumption DEF SyncInv, Typed, Commands
<1>3. view' \in [Windows -> Contents]
  BY <1>1, <1>2 DEF SyncInv, Typed, Contents
<1>4. Typed'
  BY <1>1, <1>2, <1>3 DEF SyncInv, Typed
<1>5. CallsSound'
  <2>1. \A k \in Commands : k \in Nat
    BY SessionAssumption DEF Commands
  <2> QED
    BY <1>1, <1>2, <2>1 DEF SyncInv, CallsSound, Logged
<1>6. /\ made <= made' /\ seq <= seq' /\ seq' - seq <= mishaps' - mishaps
      /\ \A d \in Clients : NoneSent(up[d], up'[d]) /\ NoneAcked(down[d], down'[d])
      /\ \A k \in Commands : status[k] # "unsent" => status'[k] # "unsent"
  BY <1>1, <1>2, SessionAssumption DEF SyncInv, Typed, NoneSent, NoneAcked
<1> QED
  BY <1>1, <1>4, <1>5, <1>6, QuietStep

LEMMA RequestSyncTyped ==
  ASSUME SyncInv, NEW w \in Windows, RequestSync(w)
  PROVE  /\ up' \in [Clients -> Seq(Messages)] /\ syncs' \in 0 .. MaxSyncs
         /\ \A d \in Clients : NoneSent(up[d], up'[d])
<1> DEFINE m == [kind |-> "request"]
<1>1. m \in Messages /\ up \in [Clients -> Seq(Messages)]
  BY DEF Messages, Requests, SyncInv, Typed
<1>2. up' = up \/ up' = [up EXCEPT ![w] = Append(up[w], m)]
  BY DEF RequestSync, SyncInv, Typed
<1>3. Append(up[w], m) \in Seq(Messages)
  BY <1>1, Appended, AClient
<1>4. syncs' \in 0 .. MaxSyncs
  BY SessionAssumption DEF RequestSync, SyncInv, Typed
<1> QED
  BY <1>1, <1>2, <1>3, <1>4 DEF NoneSent

LEMMA ResyncKeeps ==
  ASSUME SyncInv, NEW w \in Windows, Resync(w)
  PROVE  SyncInv'
<1>1. /\ RequestSync(w)
      /\ UNCHANGED <<log, seq, deleted, socket, down, ready, known, made, by, status, answers, task,
                     view, paused, buffer, raced, mishaps>>
  BY DEF Resync, server, client, calls, window
<1>2. Typed' /\ seq \in Nat /\ mishaps \in Nat
  BY <1>1, RequestSyncTyped, SessionAssumption DEF SyncInv, Typed
<1>3. \A d \in Clients : NoneSent(up[d], up'[d]) /\ NoneAcked(down[d], down'[d])
  BY <1>1, RequestSyncTyped DEF NoneAcked
<1> QED
  BY <1>1, <1>2, <1>3, StillStep

LEMMA PauseKeeps ==
  ASSUME SyncInv, NEW w \in Windows, Pause(w)
  PROVE  SyncInv'
<1>1. /\ paused' = [paused EXCEPT ![w] = TRUE]
      /\ UNCHANGED <<log, seq, deleted, socket, up, down, ready, known, made, by, status, answers,
                     task, view, buffer, raced, mishaps, syncs>>
  BY DEF Pause, server, net, client, calls
<1>2. Typed' /\ seq \in Nat /\ mishaps \in Nat
  BY <1>1, SessionAssumption DEF SyncInv, Typed
<1>3. \A d \in Clients : NoneSent(up[d], up'[d]) /\ NoneAcked(down[d], down'[d])
  BY <1>1 DEF NoneSent, NoneAcked
<1> QED
  BY <1>1, <1>2, <1>3, StillStep

LEMMA ResumeKeeps ==
  ASSUME SyncInv, NEW w \in Windows, Resume(w)
  PROVE  SyncInv'
<1>1. /\ RequestSync(w)
      /\ UNCHANGED <<log, seq, deleted, socket, down, ready, known, made, by, status, answers, task,
                     raced, mishaps>>
  BY DEF Resume, server, client, calls
<1>2. /\ paused' \in [Windows -> BOOLEAN]
      /\ view' \in [Windows -> Contents] /\ buffer' \in [Windows -> Contents \cup {{0}}]
  <2>1. /\ paused \in [Windows -> BOOLEAN]
        /\ view \in [Windows -> Contents] /\ buffer \in [Windows -> Contents \cup {{0}}]
    BY DEF SyncInv, Typed
  <2> QED
    BY <2>1 DEF Resume, NoBuffer
<1>3. Typed' /\ seq \in Nat /\ mishaps \in Nat
  BY <1>1, <1>2, RequestSyncTyped, SessionAssumption DEF SyncInv, Typed
<1>4. \A d \in Clients : NoneSent(up[d], up'[d]) /\ NoneAcked(down[d], down'[d])
  BY <1>1, RequestSyncTyped DEF NoneAcked
<1> QED
  BY <1>1, <1>3, <1>4, StillStep

-----------------------------------------------------------------------------
(* The tools.                                                                 *)

LEMMA TaskTyped ==
  ASSUME SyncInv, NEW a \in Agents
  PROVE  /\ task[a] \in Tasks
         /\ task[a].step = "waiting" => task[a].last # 0
         /\ \A x \in TasksUnderWay : [task EXCEPT ![a] = x] \in [Agents -> TasksUnderWay]
         /\ \A tool \in Tools, step \in {"opening", "reading"} :
              [task[a] EXCEPT !.tool = tool, !.step = step] \in TasksUnderWay
         /\ [task[a] EXCEPT !.step = "opening"] \in TasksUnderWay
<1>1. /\ task \in [Agents -> TasksUnderWay] /\ task[a] \in Tasks
      /\ task[a].step = "waiting" => task[a].last # 0
  BY DEF SyncInv, Typed, TasksUnderWay
<1>2. \A tool \in Tools, step \in {"opening", "reading"} :
        [task[a] EXCEPT !.tool = tool, !.step = step] \in TasksUnderWay
  BY <1>1 DEF Tasks, TasksUnderWay, Steps
<1>3. [task[a] EXCEPT !.step = "opening"] \in TasksUnderWay
  BY <1>1 DEF Tasks, TasksUnderWay, Steps
<1> QED
  BY <1>1, <1>2, <1>3

LEMMA SentTyped ==
  ASSUME SyncInv, NEW a \in Agents, NEW k \in Commands
  PROVE  /\ [task[a] EXCEPT !.step = "waiting", !.last = k, !.sent = 1] \in TasksUnderWay
         /\ task[a].sent < MaxBatch =>
              [task[a] EXCEPT !.last = k, !.sent = task[a].sent + 1] \in TasksUnderWay
<1>1. task[a] \in Tasks
  BY TaskTyped
<1>2. MaxBatch \in Nat /\ 1 \in 0 .. MaxBatch
  BY SessionAssumption
<1>3. k # 0 /\ k \in {0} \cup Commands
  BY SessionAssumption DEF Commands
<1>4. task[a].sent \in 0 .. MaxBatch
  BY <1>1 DEF Tasks
<1>5. task[a].sent < MaxBatch => task[a].sent + 1 \in 0 .. MaxBatch
  BY <1>2, <1>4
<1> DEFINE n == task[a].sent + 1
<1> HIDE DEF n
<1>6. \A i \in 0 .. MaxBatch : [task[a] EXCEPT !.last = k, !.sent = i] \in TasksUnderWay
  BY <1>1, <1>3 DEF Tasks, TasksUnderWay
<1>7. \A i \in 0 .. MaxBatch :
        [task[a] EXCEPT !.step = "waiting", !.last = k, !.sent = i] \in TasksUnderWay
  BY <1>1, <1>3 DEF Tasks, TasksUnderWay, Steps
<1> QED
  BY <1>2, <1>5, <1>6, <1>7

LEMMA FreshTask ==
  /\ [NoTask EXCEPT !.step = "done"] \in TasksUnderWay
  /\ \A n \in 0 .. MaxTries :
       [NoTask EXCEPT !.tool = "comment", !.step = "reading", !.tries = n] \in TasksUnderWay
<1>1. NoTask \in Tasks
  BY SessionAssumption DEF NoTask, Tasks, Tools, Steps
<1>2. [NoTask EXCEPT !.step = "done"] \in TasksUnderWay
  BY <1>1 DEF Tasks, TasksUnderWay, Steps
<1>3. \A n \in 0 .. MaxTries :
        [NoTask EXCEPT !.tool = "comment", !.step = "reading", !.tries = n] \in TasksUnderWay
  BY <1>1 DEF Tasks, TasksUnderWay, Tools, Steps
<1> QED
  BY <1>2, <1>3

(* A tool that connects, with what it does next.                              *)
LEMMA ConnectKeeps ==
  ASSUME SyncInv, NEW a \in Agents, Connect(a), NEW x \in TasksUnderWay, task' = [task EXCEPT ![a] = x],
         UNCHANGED <<server, calls, window, mishaps, syncs>>
  PROVE  SyncInv'
<1>1. UNCHANGED <<log, seq, deleted, made, by, status, answers, view, paused, buffer, raced,
                  mishaps, syncs>>
  BY DEF server, calls, window
<1>2. task' \in [Agents -> TasksUnderWay]
  BY TaskTyped
<1>3. Typed' /\ seq \in Nat /\ mishaps \in Nat
  BY <1>1, <1>2, ConnectTyped, AClient, SessionAssumption DEF SyncInv, Typed
<1> QED
  BY <1>1, <1>3, ConnectTyped, AClient, StillStep

LEMMA StartKeeps ==
  ASSUME SyncInv, NEW a \in Agents, NEW tool \in Tools, Start(a, tool)
  PROVE  SyncInv'
<1> DEFINE step == IF tool = "write" THEN "opening" ELSE "reading"
           x == [task[a] EXCEPT !.tool = tool, !.step = step]
<1>1. task' = [task EXCEPT ![a] = x]
  BY DEF Start, SyncInv, Typed
<1>2. step \in {"opening", "reading"}
  OBVIOUS
<1>3. x \in TasksUnderWay
  BY <1>2, TaskTyped
<1> HIDE DEF x
<1> QED
  BY <1>1, <1>3, ConnectKeeps DEF Start

LEMMA ReadDocumentKeeps ==
  ASSUME SyncInv, NEW a \in Agents, ReadDocument(a)
  PROVE  SyncInv'
<1> DEFINE x == [task[a] EXCEPT !.step = "opening"]
<1>1. task' = [task EXCEPT ![a] = x]
  BY DEF ReadDocument, SyncInv, Typed
<1>2. x \in TasksUnderWay
  BY TaskTyped
<1> HIDE DEF x
<1> QED
  BY <1>1, <1>2, ConnectKeeps DEF ReadDocument

LEMMA TryAgainKeeps ==
  ASSUME SyncInv, NEW a \in Agents, TryAgain(a)
  PROVE  SyncInv'
<1> DEFINE n == task[a].tries + 1
           x == [NoTask EXCEPT !.tool = "comment", !.step = "reading", !.tries = n]
<1>1. task' = [task EXCEPT ![a] = x]
  BY DEF TryAgain
<1>2. n \in 0 .. MaxTries
  <2>1. task[a].tries \in 0 .. MaxTries
    BY TaskTyped DEF Tasks
  <2>2. task[a].tries < MaxTries
    BY DEF TryAgain, TriesAgain
  <2> QED
    BY <2>1, <2>2, SessionAssumption
<1>3. x \in TasksUnderWay
  BY <1>2, FreshTask
<1> HIDE DEF x
<1> QED
  BY <1>1, <1>3, ConnectKeeps DEF TryAgain

LEMMA OpenKeeps ==
  ASSUME SyncInv, NEW a \in Agents, Open(a)
  PROVE  SyncInv'
<1> DEFINE q == <<[kind |-> "request"]>>
<1>1. /\ socket' = [socket EXCEPT ![a] = "open"] /\ up' = [up EXCEPT ![a] = q]
      /\ UNCHANGED <<log, seq, deleted, down, ready, known, made, by, status, answers, task,
                     view, paused, buffer, raced, mishaps, syncs>>
  BY DEF Open, server, client, calls, window
<1>2. q \in Seq(Messages) /\ \A i \in DOMAIN q : q[i].kind # "command"
  BY DEF Messages, Requests
<1> HIDE DEF q
<1>5. up' \in [Clients -> Seq(Messages)] /\ socket' \in [Clients -> Sockets]
  BY <1>1, <1>2 DEF SyncInv, Typed, Sockets
<1>3. Typed' /\ seq \in Nat /\ mishaps \in Nat
  BY <1>1, <1>5, SessionAssumption DEF SyncInv, Typed
<1>4. \A d \in Clients : NoneSent(up[d], up'[d]) /\ NoneAcked(down[d], down'[d])
  BY <1>1, <1>2 DEF NoneSent, NoneAcked, SyncInv, Typed
<1> QED
  BY <1>1, <1>3, <1>4, StillStep

LEMMA SendFirstKeeps ==
  ASSUME SyncInv, NEW a \in Agents, SendFirst(a)
  PROVE  SyncInv'
<1>1. PICK k \in Commands :
        /\ Send(a, k, known[a], 0)
        /\ task' = [task EXCEPT ![a].step = "waiting", ![a].last = k, ![a].sent = 1]
  BY DEF SendFirst
<1>2. UNCHANGED <<log, seq, deleted, ready, known, view, paused, buffer, raced, mishaps, syncs>>
  BY DEF SendFirst, server, client, window
<1> DEFINE x == [task[a] EXCEPT !.step = "waiting", !.last = k, !.sent = 1]
<1>3. task' = [task EXCEPT ![a] = x]
  BY <1>1 DEF SyncInv, Typed
<1>4. x \in TasksUnderWay
  BY SentTyped
<1> HIDE DEF x
<1>5. task' \in [Agents -> TasksUnderWay]
  BY <1>3, <1>4, TaskTyped
<1>6. known[a] \in Nat
  BY AClient DEF SyncInv, Typed
<1>7. Typed'
  BY <1>1, <1>2, <1>5, <1>6, SendTyped, AClient DEF SyncInv, Typed
<1> QED
  BY <1>1, <1>2, <1>6, <1>7, SendKeeps, AClient

(* The acknowledged number is that of the last command of the batch.          *)
LEMMA SendNextKeeps ==
  ASSUME SyncInv, NEW a \in Agents, SendNext(a)
  PROVE  SyncInv'
<1> DEFINE last == task[a].last
<1>1. PICK k \in Commands :
        /\ Send(a, k, answers[last], last)
        /\ task' = [task EXCEPT ![a].last = k, ![a].sent = @ + 1]
  BY DEF SendNext
<1>2. UNCHANGED <<log, seq, deleted, ready, known, view, paused, buffer, raced, mishaps, syncs>>
  BY DEF SendNext, server, client, window
<1>3. last \in Commands /\ status[last] = "acked"
  <2>1. last \in {0} \cup Commands /\ last # 0
    BY TaskTyped DEF Tasks, SendNext
  <2> QED
    BY <2>1 DEF SendNext
<1> DEFINE x == [task[a] EXCEPT !.last = k, !.sent = task[a].sent + 1]
<1>4. task' = [task EXCEPT ![a] = x]
  BY <1>1 DEF SyncInv, Typed
<1>5. x \in TasksUnderWay
  BY SentTyped DEF SendNext
<1> HIDE DEF x
<1>6. task' \in [Agents -> TasksUnderWay]
  BY <1>4, <1>5, TaskTyped
<1>7. answers[last] \in Nat \cup {None} /\ Logged(last, answers[last])
  <2>1. \A q \in {0} \cup Numbers : q \in Nat
    BY SessionAssumption DEF Numbers
  <2> QED
    BY <1>3, <2>1 DEF SyncInv, CallsSound, Typed
<1> HIDE DEF last
<1>8. Typed'
  BY <1>1, <1>2, <1>3, <1>6, <1>7, SendTyped, AClient DEF SyncInv, Typed
<1> QED
  BY <1>1, <1>2, <1>3, <1>7, <1>8, SendKeeps, AClient

LEMMA FinishKeeps ==
  ASSUME SyncInv, NEW a \in Agents, Finish(a)
  PROVE  SyncInv'
<1>1. Close(a) /\ task' = [task EXCEPT ![a] = [NoTask EXCEPT !.step = "done"]]
  BY DEF Finish
<1>2. UNCHANGED <<log, seq, deleted, made, by, answers, view, paused, buffer, raced, mishaps, syncs>>
  BY DEF Finish, server, window
<1>3. task' \in [Agents -> TasksUnderWay]
  BY <1>1, FreshTask, TaskTyped
<1>4. seq \in Nat /\ mishaps \in Nat /\ made \in Nat /\ a \in Clients
  BY AClient, SessionAssumption DEF SyncInv, Typed
<1>5. Typed'
  BY <1>1, <1>2, <1>3, <1>4, CloseTyped DEF SyncInv, Typed
<1> QED
  BY <1>1, <1>2, <1>4, <1>5, CloseTyped, QuietStep

-----------------------------------------------------------------------------
(* The invariant.                                                             *)

LEMMA SyncInit == Init => SyncInv
<1>1. SUFFICES ASSUME Init PROVE SyncInv
  OBVIOUS
<1>2. DOMAIN log = {} /\ log \in Seq(Entries) /\ Content = {}
  BY <1>1 DEF Init, Content
<1>3. Cardinality(Content) = 0
  BY <1>2, FS_EmptySet
<1>4. \A c \in Clients : DOMAIN up[c] = {} /\ DOMAIN down[c] = {}
  BY <1>1 DEF Init
<1>5. NoTask \in TasksUnderWay
  BY SessionAssumption DEF NoTask, TasksUnderWay, Tasks, Tools, Steps
<1>6. up \in [Clients -> Seq(Messages)] /\ down \in [Clients -> Seq(Replies)]
  BY <1>1 DEF Init
<1>10. /\ socket \in [Clients -> Sockets]
       /\ ready \in [Clients -> {"pending", "ready", "failed"}]
       /\ task \in [Agents -> TasksUnderWay] /\ view \in [Windows -> Contents]
       /\ status \in [Commands -> Statuses]
  BY <1>1, <1>5 DEF Init, Sockets, Statuses, Contents
<1>11. made \in 0 .. MaxCommands /\ mishaps \in 0 .. MaxMishaps /\ syncs \in 0 .. MaxSyncs
  BY <1>1, SessionAssumption DEF Init
<1>12. buffer \in [Windows -> Contents \cup {{0}}]
  BY <1>1 DEF Init, NoBuffer
<1>7. Typed
  BY <1>1, <1>2, <1>6, <1>10, <1>11, <1>12 DEF Init, Typed
<1>8. NumbersUsed
  BY <1>1, <1>3 DEF Init, NumbersUsed
<1>9. CallsSound
  BY <1>1 DEF Init, CallsSound
<1> QED
  BY <1>2, <1>4, <1>7, <1>8, <1>9
     DEF SyncInv, LogOrdered, BatchesContiguous, UpSound, UpOnce, DownSound

LEMMA SyncStep == SyncInv /\ [Next]_vars => SyncInv'
<1>1. SUFFICES ASSUME SyncInv, [Next]_vars PROVE SyncInv'
  OBVIOUS
<1>2. CASE UNCHANGED vars
  <2>1. UNCHANGED <<log, seq, deleted, socket, up, down, ready, known, made, by, status, answers,
                    task, view, paused, buffer, raced, mishaps, syncs>>
    BY <1>2 DEF vars, server, net, client, calls, window
  <2>2. Typed' /\ seq \in Nat /\ mishaps \in Nat
    BY <1>1, <2>1, SessionAssumption DEF SyncInv, Typed
  <2>3. \A d \in Clients : NoneSent(up[d], up'[d]) /\ NoneAcked(down[d], down'[d])
    BY <2>1 DEF NoneSent, NoneAcked
  <2> QED
    BY <1>1, <2>1, <2>2, <2>3, StillStep
<1>3. ASSUME NEW c \in Clients, Serve(c) PROVE SyncInv'
  BY <1>1, <1>3, ServeRequestKeeps, ServeCommandKeeps, RefuseStaleKeeps, FaultyCommandKeeps,
     DropCommandKeeps DEF Serve
<1>4. ASSUME NEW c \in Clients, Receive(c) \/ Lose(c) PROVE SyncInv'
  BY <1>1, <1>4, ReceiveKeeps, LoseKeeps
<1>5. ASSUME NEW w \in Windows, Edit(w) \/ EditPaused(w) \/ Resync(w) \/ Pause(w) \/ Resume(w)
      PROVE  SyncInv'
  BY <1>1, <1>5, EditKeeps, EditPausedKeeps, ResyncKeeps, PauseKeeps, ResumeKeeps
<1>6. ASSUME NEW a \in Agents,
             \/ \E tool \in Tools : Start(a, tool)
             \/ Open(a) \/ ReadDocument(a) \/ SendFirst(a) \/ SendNext(a) \/ Finish(a) \/ TryAgain(a)
      PROVE  SyncInv'
  BY <1>1, <1>6, StartKeeps, OpenKeeps, ReadDocumentKeeps, SendFirstKeeps, SendNextKeeps,
     FinishKeeps, TryAgainKeeps
<1> QED
  BY <1>1, <1>2, <1>3, <1>4, <1>5, <1>6, DeleteKeeps DEF Next

LEMMA SyncAlways == Spec => []SyncInv
BY SyncInit, SyncStep, PTL DEF Spec

(* Everything is of its type; in particular the server's numbers stay within  *)
(* those of the commands and the mishaps.                                     *)
THEOREM SyncTypeCorrect == Spec => []SyncTypeOK
BY SyncAlways, InvTyped, PTL

(* Nothing comes between the commands of one batch.                           *)
THEOREM BatchesStayTogether == Spec => []BatchesContiguous
<1>1. SyncInv => BatchesContiguous
  BY DEF SyncInv
<1> QED
  BY <1>1, SyncAlways, PTL

-----------------------------------------------------------------------------
(* The promise of send.                                                       *)

Short == [i \in DOMAIN log |-> [edit |-> log[i].edit, number |-> log[i].number]]
Fates == [k \in Commands |->
           IF status[k] \in {"stale", "refused", "lost"} THEN "failed" ELSE status[k]]

LEMMA StutterMaps ==
  ASSUME UNCHANGED <<log, status, answers>>
  PROVE  UNCHANGED Promise!vars
BY DEF Promise!vars

LEMMA FailMaps ==
  ASSUME SyncInv, UNCHANGED <<log, answers>>,
         NEW K \in SUBSET Commands, \A k \in K : status[k] \in {"unsent", "waiting"},
         NEW outcome \in {"stale", "refused", "lost"},
         status' = [k \in Commands |-> IF k \in K THEN outcome ELSE status[k]]
  PROVE  Promise!Next
<1>1. Fates' = [k \in Commands |-> IF k \in K THEN "failed" ELSE Fates[k]]
  BY DEF Fates
<1>2. \A k \in K : Fates[k] \in {"unsent", "waiting"}
  BY DEF Fates
<1>3. Promise!Fail(K)
  BY <1>1, <1>2 DEF Promise!Fail, Fates
<1> QED
  BY <1>3 DEF Promise!Next

LEMMA CloseMaps ==
  ASSUME SyncInv, NEW c \in Clients, Close(c), UNCHANGED <<log, answers>>
  PROVE  Promise!Next
<1>1. /\ Outstanding(c) \in SUBSET Commands
      /\ \A k \in Outstanding(c) : status[k] \in {"unsent", "waiting"}
  BY DEF Outstanding
<1>2. status' = [k \in Commands |-> IF k \in Outstanding(c) THEN "lost" ELSE status[k]]
  BY DEF Close, DrainPendingAcks
<1> QED
  BY <1>1, <1>2, FailMaps

LEMMA SendMaps ==
  ASSUME SyncInv, NEW c \in Clients, NEW k \in Commands, NEW base, NEW after,
         Send(c, k, base, after), UNCHANGED log
  PROVE  Promise!Next
<1>1. status[k] = "unsent" /\ answers' = answers
  BY SessionAssumption DEF Send, SyncInv, CallsSound, Typed
<1>2. CASE status' = [status EXCEPT ![k] = "waiting"]
  <2>1. Fates' = [Fates EXCEPT ![k] = "waiting"] /\ Fates[k] = "unsent"
    BY <1>1, <1>2 DEF Fates, SyncInv, Typed
  <2>2. Promise!Send(k)
    BY <1>1, <2>1 DEF Promise!Send, Fates
  <2> QED
    BY <2>2 DEF Promise!Next
<1>3. CASE status' = [status EXCEPT ![k] = "lost"]
  <2>1. status' = [q \in Commands |-> IF q \in {k} THEN "lost" ELSE status[q]]
    BY <1>3 DEF SyncInv, Typed
  <2> QED
    BY <1>1, <2>1, FailMaps
<1> QED
  BY <1>2, <1>3 DEF Send

(* The short log of a longer log.                                             *)
LEMMA ShortAppend ==
  ASSUME NEW s \in Seq(Entries), NEW e \in Entries
  PROVE  [i \in DOMAIN Append(s, e) |->
            [edit |-> Append(s, e)[i].edit, number |-> Append(s, e)[i].number]]
         = Append([i \in DOMAIN s |-> [edit |-> s[i].edit, number |-> s[i].number]],
                  [edit |-> e.edit, number |-> e.number])
<1> DEFINE S == [edit : Commands, number : Numbers]
           short == [i \in DOMAIN s |-> [edit |-> s[i].edit, number |-> s[i].number]]
           last == [edit |-> e.edit, number |-> e.number]
           long == [i \in DOMAIN Append(s, e) |->
                      [edit |-> Append(s, e)[i].edit, number |-> Append(s, e)[i].number]]
<1>1. /\ Len(s) \in Nat /\ DOMAIN s = 1 .. Len(s) /\ DOMAIN Append(s, e) = 1 .. Len(s) + 1
      /\ \A i \in DOMAIN s : Append(s, e)[i] = s[i] /\ s[i] \in Entries
      /\ Append(s, e)[Len(s) + 1] = e
  BY Appended
<1>2. short \in Seq(S) /\ Len(short) = Len(s) /\ DOMAIN short = 1 .. Len(s)
  BY <1>1 DEF Entries
<1>3. last \in S
  BY DEF Entries
<1>4. /\ Append(short, last) \in Seq(S) /\ DOMAIN Append(short, last) = 1 .. Len(s) + 1
      /\ \A i \in DOMAIN short : Append(short, last)[i] = short[i]
      /\ Append(short, last)[Len(s) + 1] = last
  <2> HIDE DEF short, last, S
  <2> QED
    BY <1>2, <1>3, Appended
<1>5. long \in Seq(S) /\ DOMAIN long = 1 .. Len(s) + 1
  BY <1>1 DEF Entries
<1>6. \A i \in 1 .. Len(s) + 1 : long[i] = Append(short, last)[i]
  <2>1. ASSUME NEW i \in 1 .. Len(s) PROVE long[i] = Append(short, last)[i]
    <3>1. long[i] = short[i]
      BY <1>1
    <3> QED
      BY <1>2, <1>4, <3>1
  <2>2. long[Len(s) + 1] = last
    BY <1>1
  <2> QED
    BY <1>1, <1>4, <2>1, <2>2
<1>7. Len(long) = Len(s) + 1 /\ Len(Append(short, last)) = Len(s) + 1
  BY <1>1, <1>4, <1>5, LenProperties
<1>8. long = Append(short, last)
  <2> HIDE DEF long, short, last, S
  <2> QED
    BY <1>4, <1>5, <1>6, <1>7, SeqEqual
<1> QED
  BY <1>8

LEMMA ServeCommandMaps ==
  ASSUME SyncInv, NEW c \in Clients, ServeCommand(c)
  PROVE  Promise!Next
<1> DEFINE m == Head(up[c])
           k == m.edit
           n == seq + 1
           e == [edit |-> k, number |-> n, after |-> m.after]
<1>1. Take(c, "command") /\ log' = Append(log, e)
  BY DEF ServeCommand
<1>2. /\ m \in Sends /\ k \in Commands \ Content
      /\ status[k] # "unsent" /\ status[k] # "acked"
  BY <1>1, Taken
<1>3. UNCHANGED <<status, answers>>
  BY <1>1, TakeTyped
<1>4. seq \in Nat
  BY DEF SyncInv, Typed
<1>5. n \in Numbers
  BY <1>2, NumberLeft DEF SyncInv
<1>6. e \in Entries /\ e.edit = k /\ e.number = n
  BY <1>2, <1>5 DEF Entries, Sends
<1>7. Short' = Append(Short, [edit |-> k, number |-> n])
  <2> HIDE DEF e, k, n
  <2>1. log \in Seq(Entries)
    BY DEF SyncInv, Typed
  <2>2. [i \in DOMAIN Append(log, e) |->
           [edit |-> Append(log, e)[i].edit, number |-> Append(log, e)[i].number]]
        = Append(Short, [edit |-> e.edit, number |-> e.number])
    BY <1>6, <2>1, ShortAppend DEF Short
  <2> QED
    BY <1>1, <1>6, <2>2 DEF Short
<1>8. /\ DOMAIN Short = DOMAIN log
      /\ \A i \in DOMAIN Short : Short[i].edit = log[i].edit /\ Short[i].number = log[i].number
  BY DEF Short
<1>9. Fates' = Fates /\ Fates[k] \in {"waiting", "failed"}
  BY <1>2, <1>3 DEF Fates, SyncInv, Typed, Statuses
<1>10. \A i \in DOMAIN log : log[i].edit # k /\ log[i].number < n
  <2>1. \A i \in DOMAIN log : log[i] \in Entries /\ log[i].number <= seq
    BY ElementTyped DEF SyncInv, Typed, LogOrdered
  <2>2. \A i \in DOMAIN log : log[i].number \in Nat
    BY <2>1, SessionAssumption DEF Entries, Numbers
  <2> QED
    BY <1>2, <1>4, <2>1, <2>2 DEF Content
<1> HIDE DEF k, n, e
<1>11. PICK q \in Commands : q = k
  BY <1>2
<1>12. Promise!Apply(q)
  BY <1>3, <1>5, <1>7, <1>8, <1>9, <1>10, <1>11 DEF Promise!Apply, Promise!Applied, Short, Fates
<1> QED
  BY <1>12 DEF Promise!Next

LEMMA ReceiveMaps ==
  ASSUME SyncInv, NEW c \in Clients, Receive(c)
  PROVE  Promise!Next \/ UNCHANGED Promise!vars
<1> DEFINE m == Head(down[c])
<1>1. log' = log
  BY DEF Receive, server
<1>2. CASE /\ m.edit \in Commands /\ m.edit \in Outstanding(c) /\ Logged(m.edit, m.number)
           /\ status' = [status EXCEPT ![m.edit] = "acked"]
           /\ answers' = [answers EXCEPT ![m.edit] = m.number]
  <2> HIDE DEF m
  <2>5. PICK k \in Commands : k = m.edit
    BY <1>2
  <2> DEFINE n == m.number
  <2>1. status[k] = "waiting"
    BY <1>2, <2>5 DEF Outstanding
  <2>2. Fates' = [Fates EXCEPT ![k] = "acked"] /\ Fates[k] = "waiting"
    BY <1>2, <2>1, <2>5 DEF Fates, SyncInv, Typed
  <2>3. PICK i \in DOMAIN Short : Short[i].edit = k /\ Short[i].number = n
    BY <1>2, <2>5 DEF Logged, Short
  <2>4. Promise!Answer(k)
    BY <1>1, <1>2, <2>2, <2>3, <2>5 DEF Promise!Answer, Fates, Short
  <2> QED
    BY <2>4 DEF Promise!Next
<1>3. ASSUME NEW outcome \in {"stale", "refused"}, DrainPendingAcks(c, outcome), answers' = answers
      PROVE  Promise!Next
  <2>1. /\ Outstanding(c) \in SUBSET Commands
        /\ \A k \in Outstanding(c) : status[k] \in {"unsent", "waiting"}
    BY DEF Outstanding
  <2>2. status' = [k \in Commands |-> IF k \in Outstanding(c) THEN outcome ELSE status[k]]
    BY <1>3 DEF DrainPendingAcks
  <2> QED
    BY <1>1, <1>3, <2>1, <2>2, FailMaps
<1>4. CASE UNCHANGED <<status, answers>>
  BY <1>1, <1>4, StutterMaps
<1> QED
  BY <1>2, <1>3, <1>4, ReceiveCalls

LEMMA InitMaps == Init => Promise!Init
<1>1. SUFFICES ASSUME Init PROVE Promise!Init
  OBVIOUS
<1>2. Short = <<>>
  BY <1>1 DEF Init, Short
<1>3. Fates = [k \in Commands |-> "unsent"]
  BY <1>1 DEF Init, Fates
<1> QED
  BY <1>1, <1>2, <1>3 DEF Init, Promise!Init, Short, Fates

LEMMA StepMaps == SyncInv /\ [Next]_vars => [Promise!Next]_(Promise!vars)
<1>1. SUFFICES ASSUME SyncInv, [Next]_vars PROVE Promise!Next \/ UNCHANGED Promise!vars
  OBVIOUS
<1>2. CASE UNCHANGED vars \/ DeleteInstance
  BY <1>2, StutterMaps DEF vars, server, calls, DeleteInstance
<1>3. ASSUME NEW c \in Clients, Serve(c) PROVE Promise!Next \/ UNCHANGED Promise!vars
  <2>1. CASE ServeCommand(c)
    BY <1>1, <2>1, ServeCommandMaps
  <2>2. CASE ServeRequest(c) \/ RefuseStale(c) \/ FaultyCommand(c) \/ DropCommand(c)
    BY <2>2, StutterMaps DEF ServeRequest, RefuseStale, FaultyCommand, DropCommand, Take, calls
  <2> QED
    BY <1>3, <2>1, <2>2 DEF Serve
<1>4. ASSUME NEW c \in Clients, Receive(c) \/ Lose(c) PROVE Promise!Next \/ UNCHANGED Promise!vars
  BY <1>1, <1>4, ReceiveMaps, CloseMaps DEF Lose, server
<1>5. ASSUME NEW w \in Windows, Edit(w) \/ EditPaused(w) \/ Resync(w) \/ Pause(w) \/ Resume(w)
      PROVE  Promise!Next \/ UNCHANGED Promise!vars
  <2>1. CASE Edit(w)
    BY <1>1, <2>1, SendMaps, AClient DEF Edit, server
  <2>2. CASE EditPaused(w) \/ Resync(w) \/ Pause(w) \/ Resume(w)
    BY <2>2, StutterMaps DEF EditPaused, Resync, Pause, Resume, server, calls
  <2> QED
    BY <1>5, <2>1, <2>2
<1>6. ASSUME NEW a \in Agents,
             \/ \E tool \in Tools : Start(a, tool)
             \/ Open(a) \/ ReadDocument(a) \/ SendFirst(a) \/ SendNext(a) \/ Finish(a) \/ TryAgain(a)
      PROVE  Promise!Next \/ UNCHANGED Promise!vars
  <2>1. CASE SendFirst(a) \/ SendNext(a)
    BY <1>1, <2>1, SendMaps, AClient DEF SendFirst, SendNext, server
  <2>2. CASE Finish(a)
    BY <1>1, <2>2, CloseMaps, AClient DEF Finish, server
  <2>3. CASE (\E tool \in Tools : Start(a, tool)) \/ Open(a) \/ ReadDocument(a) \/ TryAgain(a)
    BY <2>3, StutterMaps DEF Start, Open, ReadDocument, TryAgain, server, calls
  <2> QED
    BY <1>6, <2>1, <2>2, <2>3
<1> QED
  BY <1>1, <1>2, <1>3, <1>4, <1>5, <1>6 DEF Next

(* The clients and the server implement the promise of send: a command is     *)
(* applied at most once, and a send that resolved was applied under the       *)
(* number it resolved with.                                                   *)
THEOREM PromiseKept == Spec => KeepsPromise
BY InitMaps, StepMaps, SyncAlways, PTL DEF Spec, KeepsPromise, Promise!Spec
-----------------------------------------------------------------------------
(* What a tool was refused was not applied.                                   *)

Answer(m)  == m.kind \in {"ack", "stale", "error"}
Refusal(m) == m.kind \in {"stale", "error"}

(* What travels from a client was sent by it.                                 *)
OwnSends ==
  \A c \in Clients : \A i \in DOMAIN up[c] : up[c][i].kind = "command" => by[up[c][i].edit] = c

(* A tool has one send outstanding, the one it waits for.                     *)
OneOutstanding(a) ==
  \A k \in Outstanding(a) : task[a].step = "waiting" /\ task[a].last = k /\ socket[a] = "open"

(* The handshake's request is the first message, and is served before any     *)
(* command of the client.                                                     *)
RequestFirst(a) ==
  \A i \in DOMAIN up[a] : up[a][i].kind = "request" =>
    i = 1 /\ Outstanding(a) \cap Content = {}

(* A refusal on its way finds nothing outstanding that was applied.           *)
RefusalsSound(a) ==
  \A i \in DOMAIN down[a] : Refusal(down[a][i]) => Outstanding(a) \cap Content = {}

(* While the instance is there a command on its way is still waited for, and  *)
(* once it is answered no other message of the tool is under way.             *)
SendsWaitedFor(a) ==
  \A i \in DOMAIN up[a] : up[a][i].kind = "command" => up[a][i].edit \in Outstanding(a)

AnsweredOnce(a) ==
  \A i \in DOMAIN down[a] : Answer(down[a][i]) =>
    /\ Outstanding(a) # {}
    /\ \A j \in DOMAIN up[a] : up[a][j].kind # "command"
    /\ \A j \in DOMAIN down[a] : Answer(down[a][j]) => i = j

ToolSound(a) ==
  /\ OneOutstanding(a) /\ RequestFirst(a) /\ RefusalsSound(a)
  /\ ~deleted => SendsWaitedFor(a) /\ AnsweredOnce(a)

ToolInv == OwnSends /\ RefusedNotApplied /\ \A a \in Agents : ToolSound(a)

(* A queue to a client that gains no answer.                                  *)
NoAnswer(s, t) ==
  \/ t = s
  \/ s # <<>> /\ t = Tail(s)
  \/ \E m \in Replies : ~Answer(m) /\ t = Append(s, m)

(* Each answer in it was there before, at one place the same for all.         *)
LEMMA AnswersKept ==
  ASSUME NEW s \in Seq(Replies), NEW t \in Seq(Replies), NoAnswer(s, t)
  PROVE  \E d \in {0, 1} : \A i \in DOMAIN t :
           Answer(t[i]) => i \in Nat /\ i + d \in DOMAIN s /\ t[i] = s[i + d]
<1>1. CASE t = s
  <2>1. \A i \in DOMAIN s : i \in Nat /\ i + 0 = i
    BY ElementTyped
  <2> QED
    BY <1>1, <2>1
<1>2. CASE s # <<>> /\ t = Tail(s)
  BY <1>2, Shortened
<1>3. ASSUME NEW m \in Replies, ~Answer(m), t = Append(s, m)
      PROVE  \A i \in DOMAIN t : Answer(t[i]) => i \in Nat /\ i + 0 \in DOMAIN s /\ t[i] = s[i + 0]
  <2>1. /\ Len(s) \in Nat /\ DOMAIN s = 1 .. Len(s) /\ DOMAIN t = 1 .. Len(s) + 1
        /\ \A i \in DOMAIN s : t[i] = s[i]
        /\ t[Len(s) + 1] = m
    BY <1>3, Appended
  <2> QED
    BY <1>3, <2>1
<1> QED
  BY <1>1, <1>2, <1>3 DEF NoAnswer

(* A queue that is the same or shorter by its first message.                  *)
LEMMA ShorterKept ==
  ASSUME NEW S, NEW s \in Seq(S), NEW t, t = s \/ (s # <<>> /\ t = Tail(s))
  PROVE  \E d \in {0, 1} : \A i \in DOMAIN t : i \in Nat /\ i >= 1 /\ i + d \in DOMAIN s /\ t[i] = s[i + d]
<1>1. CASE t = s
  <2>1. \A i \in DOMAIN s : i \in Nat /\ i >= 1 /\ i + 0 = i
    BY ElementTyped
  <2> QED
    BY <1>1, <2>1
<1>2. CASE s # <<>> /\ t = Tail(s)
  <2>1. \A i \in DOMAIN Tail(s) : i >= 1
    BY <1>2, Shortened
  <2> QED
    BY <1>2, <2>1, Shortened
<1> QED
  BY <1>1, <1>2

(* A tool that a step leaves alone, but for a message of its that is taken or *)
(* a message to it that is no answer or changes no call.                      *)
LEMMA ToolStill ==
  ASSUME SyncInv, Typed', NEW a \in Agents, ToolSound(a),
         task'[a] = task[a], socket'[a] = socket[a], deleted => deleted',
         up'[a] = up[a] \/ (up[a] # <<>> /\ up'[a] = Tail(up[a])),
         NoAnswer(down[a], down'[a]),
         Outstanding(a)' = Outstanding(a),
         Outstanding(a) \cap Content' = Outstanding(a) \cap Content
  PROVE  ToolSound(a)'
<1>1. /\ up[a] \in Seq(Messages) /\ down[a] \in Seq(Replies) /\ down'[a] \in Seq(Replies)
  BY AClient DEF SyncInv, Typed
<1>2. PICK d \in {0, 1} :
        \A i \in DOMAIN up'[a] :
          i \in Nat /\ i >= 1 /\ i + d \in DOMAIN up[a] /\ up'[a][i] = up[a][i + d]
  BY <1>1, ShorterKept
<1>3. PICK e \in {0, 1} :
        \A i \in DOMAIN down'[a] :
          Answer(down'[a][i]) => i \in Nat /\ i + e \in DOMAIN down[a] /\ down'[a][i] = down[a][i + e]
  BY <1>1, AnswersKept
<1>4. OneOutstanding(a)'
  BY DEF ToolSound, OneOutstanding
<1>5. RequestFirst(a)'
  <2>1. SUFFICES ASSUME NEW i \in DOMAIN up'[a], up'[a][i].kind = "request"
                 PROVE  i = 1 /\ Outstanding(a) \cap Content' = {}
    BY DEF RequestFirst
  <2>2. i + d = 1 /\ Outstanding(a) \cap Content = {}
    BY <1>2, <2>1 DEF ToolSound, RequestFirst
  <2> QED
    BY <1>2, <2>2
<1>6. RefusalsSound(a)'
  <2>1. \A i \in DOMAIN down'[a] : Refusal(down'[a][i]) => Answer(down'[a][i])
    BY DEF Refusal, Answer
  <2> QED
    BY <1>3, <2>1 DEF ToolSound, RefusalsSound
<1>7. ASSUME ~deleted' PROVE SendsWaitedFor(a)' /\ AnsweredOnce(a)'
  <2>1. SendsWaitedFor(a) /\ AnsweredOnce(a)
    BY <1>7 DEF ToolSound
  <2>2. SendsWaitedFor(a)'
    BY <1>2, <2>1 DEF SendsWaitedFor
  <2>3. AnsweredOnce(a)'
    <3>1. SUFFICES ASSUME NEW i \in DOMAIN down'[a], Answer(down'[a][i])
                   PROVE  /\ Outstanding(a) # {}
                          /\ \A j \in DOMAIN up'[a] : up'[a][j].kind # "command"
                          /\ \A j \in DOMAIN down'[a] : Answer(down'[a][j]) => i = j
      BY DEF AnsweredOnce
    <3>2. i + e \in DOMAIN down[a] /\ Answer(down[a][i + e]) /\ i \in Nat
      BY <1>3, <3>1
    <3>3. /\ Outstanding(a) # {}
          /\ \A j \in DOMAIN up[a] : up[a][j].kind # "command"
          /\ \A j \in DOMAIN down[a] : Answer(down[a][j]) => i + e = j
      BY <2>1, <3>2 DEF AnsweredOnce
    <3>4. \A j \in DOMAIN down'[a] : Answer(down'[a][j]) => i = j
      BY <1>3, <3>2, <3>3
    <3> QED
      BY <1>2, <3>3, <3>4
  <2> QED
    BY <2>2, <2>3
<1> QED
  BY <1>4, <1>5, <1>6, <1>7 DEF ToolSound

(* Who sent the commands under way, when none is sent.                        *)
LEMMA OwnStill ==
  ASSUME SyncInv, Typed', OwnSends, by' = by, \A c \in Clients : NoneSent(up[c], up'[c])
  PROVE  OwnSends' /\ \A c \in Clients : Travelling(c)' \subseteq Travelling(c)
<1>1. ASSUME NEW c \in Clients, NEW i \in DOMAIN up'[c], up'[c][i].kind = "command"
      PROVE  \E j \in DOMAIN up[c] : up'[c][i] = up[c][j]
  BY <1>1, AllKept
<1>2. OwnSends'
  <2>1. SUFFICES ASSUME NEW c \in Clients, NEW i \in DOMAIN up'[c], up'[c][i].kind = "command"
                 PROVE  by[up'[c][i].edit] = c
    BY DEF OwnSends
  <2> QED
    BY <1>1, <2>1 DEF OwnSends
<1>3. \A c \in Clients : Travelling(c)' \subseteq Travelling(c)
  BY <1>1 DEF Travelling
<1> QED
  BY <1>2, <1>3

(* What was refused, when nothing is applied, sent or refused to a tool.      *)
LEMMA RefusedStill ==
  ASSUME RefusedNotApplied, UNCHANGED <<log, by>>, deleted => deleted',
         \A c \in Clients : Travelling(c)' \subseteq Travelling(c),
         \A k \in Commands : status'[k] \in {"stale", "refused"} /\ by[k] \in Agents
                               => status[k] \in {"stale", "refused"}
  PROVE  RefusedNotApplied'
<1>1. Content' = Content
  BY DEF Content
<1> HIDE DEF Content
<1> QED
  BY <1>1 DEF RefusedNotApplied

(* A step that changes no call and applies nothing, and its actor.            *)
LEMMA ToolsStill ==
  ASSUME SyncInv, SyncInv', ToolInv, UNCHANGED <<log, by, status>>, deleted => deleted',
         NEW c \in Clients, c \in Agents => ToolSound(c)',
         \A d \in Clients : NoneSent(up[d], up'[d]),
         \A a \in Agents \ {c} : /\ UNCHANGED <<task[a], socket[a]>>
                                 /\ up'[a] = up[a] /\ NoAnswer(down[a], down'[a])
  PROVE  ToolInv'
<1>1. OwnSends' /\ RefusedNotApplied'
  BY OwnStill, RefusedStill DEF SyncInv, ToolInv
<1>2. ASSUME NEW a \in Agents, a # c PROVE ToolSound(a)'
  <2>1. Outstanding(a)' = Outstanding(a) /\ Content' = Content
    BY DEF Outstanding, Content
  <2> HIDE DEF Outstanding, Content
  <2> QED
    BY <1>2, <2>1, ToolStill DEF SyncInv, ToolInv
<1> QED
  BY <1>1, <1>2 DEF ToolInv

(* A reply that is no answer changes nothing for any tool; no reply to one    *)
(* client does for the others.                                                *)
LEMMA ReplyQueues ==
  ASSUME SyncInv, NEW c \in Clients, NEW m \in Replies, Reply(c, m)
  PROVE  /\ down'[c] = Append(down[c], m)
         /\ \A d \in Clients \ {c} : down'[d] = down[d] /\ NoAnswer(down[d], down'[d])
BY DEF Reply, SyncInv, Typed, NoAnswer

(* A request's error comes before any command of the tool was applied.        *)
LEMMA ServeRequestTools ==
  ASSUME SyncInv, SyncInv', ToolInv, NEW c \in Clients, ServeRequest(c)
  PROVE  ToolInv'
<1> DEFINE m == IF deleted THEN [kind |-> "error"]
                ELSE [kind |-> "snapshot", number |-> seq, content |-> Content]
<1>1. Take(c, "request") /\ Reply(c, m) /\ UNCHANGED <<log, seq, raced, mishaps>>
  BY DEF ServeRequest
<1>2. m \in Replies /\ ~deleted => ~Answer(m)
  BY RepliesTyped, ContentTyped DEF SyncInv, Typed, Answer
<1>3. m \in Replies
  BY RepliesTyped, ContentTyped DEF SyncInv, Typed
<1> HIDE DEF m
<1>4. /\ down'[c] = Append(down[c], m)
      /\ \A d \in Clients \ {c} : NoAnswer(down[d], down'[d])
  BY <1>1, <1>3, ReplyQueues
<1>5. /\ up[c] # <<>> /\ up'[c] = Tail(up[c]) /\ \A d \in Clients \ {c} : up'[d] = up[d]
      /\ \A d \in Clients : NoneSent(up[d], up'[d])
      /\ UNCHANGED <<deleted, socket, by, status, task>>
  BY <1>1, TakeTyped
<1>6. Outstanding(c)' = Outstanding(c) /\ Content' = Content
  BY <1>1, <1>5 DEF Outstanding, Content
<1>7. ASSUME c \in Agents, ~deleted PROVE ToolSound(c)'
  <2>1. NoAnswer(down[c], down'[c])
    BY <1>2, <1>3, <1>4, <1>7 DEF NoAnswer
  <2> QED
    BY <1>5, <1>6, <1>7, <2>1, ToolStill DEF SyncInv, ToolInv
<1>8. ASSUME c \in Agents, deleted PROVE ToolSound(c)'
  <2>1. ToolSound(c)
    BY <1>8 DEF ToolInv
  <2>2. up[c] \in Seq(Messages) /\ down[c] \in Seq(Replies)
    BY DEF SyncInv, Typed
  <2>3. 1 \in DOMAIN up[c] /\ up[c][1].kind = "request"
    BY <1>1, <2>2, Shortened DEF Take
  <2>4. Outstanding(c) \cap Content = {}
    BY <2>1, <2>3 DEF ToolSound, RequestFirst
  <2>5. \A i \in DOMAIN up'[c] : up'[c][i].kind # "request"
    BY <1>5, <2>1, <2>2, Shortened DEF ToolSound, RequestFirst
  <2>6. OneOutstanding(c)'
    BY <1>5, <1>6, <2>1 DEF ToolSound, OneOutstanding
  <2>7. RequestFirst(c)' /\ RefusalsSound(c)'
    BY <1>6, <2>4, <2>5 DEF RequestFirst, RefusalsSound
  <2> QED
    BY <1>5, <1>8, <2>6, <2>7 DEF ToolSound
<1> QED
  BY <1>1, <1>4, <1>5, <1>7, <1>8, ToolsStill, AClient

(* The tool whose command the server takes waits for that one alone, and has  *)
(* no answer under way.                                                       *)
LEMMA ToolTaken ==
  ASSUME SyncInv, ToolInv, NEW a \in Agents, Take(a, "command"), ~deleted
  PROVE  /\ Outstanding(a) = {Head(up[a]).edit}
         /\ \A i \in DOMAIN down[a] : ~Answer(down[a][i])
         /\ \A i \in DOMAIN Tail(up[a]) : Tail(up[a])[i].kind \notin {"command", "request"}
<1> DEFINE m == Head(up[a])
<1>1. /\ up[a] \in Seq(Messages) /\ up[a] # <<>> /\ m.kind = "command" /\ a \in Clients
  BY AClient DEF SyncInv, Typed, Take
<1>2. m = up[a][1] /\ 1 \in DOMAIN up[a]
  BY <1>1, Shortened
<1> HIDE DEF m
<1>3. ToolSound(a) /\ SendsWaitedFor(a) /\ AnsweredOnce(a)
  BY DEF ToolInv, ToolSound
<1>4. m.edit \in Outstanding(a)
  BY <1>1, <1>2, <1>3 DEF SendsWaitedFor
<1>5. \A k \in Outstanding(a) : task[a].last = k
  BY <1>3 DEF ToolSound, OneOutstanding
<1>6. Outstanding(a) = {m.edit}
  BY <1>4, <1>5
<1>7. \A i \in DOMAIN down[a] : ~Answer(down[a][i])
  BY <1>1, <1>2, <1>3 DEF AnsweredOnce
<1>8. ASSUME NEW i \in DOMAIN Tail(up[a]), Tail(up[a])[i].kind \in {"command", "request"}
      PROVE  FALSE
  <2>1. i + 1 \in DOMAIN up[a] /\ Tail(up[a])[i] = up[a][i + 1] /\ i \in Nat /\ i > 0
    BY <1>1, Shortened
  <2>2. up[a][i + 1].kind # "request"
    BY <1>3, <2>1 DEF ToolSound, RequestFirst
  <2>3. up[a][i + 1].kind = "command"
    BY <1>8, <2>1, <2>2
  <2>4. up[a][i + 1].edit = m.edit
    BY <1>3, <1>6, <2>1, <2>3 DEF SendsWaitedFor
  <2>5. i + 1 = 1
    BY <1>1, <1>2, <2>1, <2>3, <2>4 DEF SyncInv, UpOnce
  <2> QED
    BY <2>1, <2>5
<1> QED
  BY <1>6, <1>7, <1>8 DEF m

(* The tool after its command was taken and answered.                         *)
LEMMA ToolAnswered ==
  ASSUME SyncInv, SyncInv', ToolInv, NEW a \in Agents, Take(a, "command"), ~deleted,
         NEW m \in Replies, down'[a] = Append(down[a], m),
         Refusal(m) => Content' = Content
  PROVE  ToolSound(a)'
<1> DEFINE k == Head(up[a]).edit
<1>1. /\ a \in Clients /\ up'[a] = Tail(up[a])
      /\ UNCHANGED <<deleted, socket, by, status, task>>
  BY AClient, TakeTyped
<1>2. /\ Outstanding(a) = {k}
      /\ \A i \in DOMAIN down[a] : ~Answer(down[a][i])
      /\ \A i \in DOMAIN up'[a] : up'[a][i].kind \notin {"command", "request"}
  BY <1>1, ToolTaken
<1>3. Outstanding(a)' = Outstanding(a) /\ k \notin Content
  BY <1>1, Taken DEF Outstanding
<1>4. down[a] \in Seq(Replies)
  BY <1>1 DEF SyncInv, Typed
<1>5. /\ Len(down[a]) \in Nat /\ DOMAIN down[a] = 1 .. Len(down[a])
      /\ DOMAIN down'[a] = 1 .. Len(down[a]) + 1
      /\ \A i \in DOMAIN down[a] : down'[a][i] = down[a][i]
      /\ down'[a][Len(down[a]) + 1] = m
  BY <1>4, Appended
<1> HIDE DEF k
<1>6. \A i \in DOMAIN down'[a] : Answer(down'[a][i]) => i = Len(down[a]) + 1
  BY <1>2, <1>5
<1>7. OneOutstanding(a)'
  BY <1>1, <1>3 DEF ToolInv, ToolSound, OneOutstanding
<1>8. RequestFirst(a)' /\ SendsWaitedFor(a)'
  BY <1>2 DEF RequestFirst, SendsWaitedFor
<1>9. RefusalsSound(a)'
  <2>1. SUFFICES ASSUME NEW i \in DOMAIN down'[a], Refusal(down'[a][i])
                 PROVE  Outstanding(a)' \cap Content' = {}
    BY DEF RefusalsSound
  <2>2. Refusal(m)
    BY <1>5, <1>6, <2>1 DEF Refusal, Answer
  <2> QED
    BY <1>2, <1>3, <2>2
<1>10. AnsweredOnce(a)'
  BY <1>2, <1>3, <1>6 DEF AnsweredOnce
<1> QED
  BY <1>7, <1>8, <1>9, <1>10 DEF ToolSound

LEMMA RefuseTools ==
  ASSUME SyncInv, SyncInv', ToolInv, NEW c \in Clients, RefuseStale(c) \/ FaultyCommand(c)
  PROVE  ToolInv'
<1>1. PICK m \in Replies : Take(c, "command") /\ ~deleted /\ Reply(c, m) /\ log' = log
  BY RepliesTyped DEF RefuseStale, FaultyCommand
<1>2. /\ \A d \in Clients \ {c} : up'[d] = up[d]
      /\ \A d \in Clients : NoneSent(up[d], up'[d])
      /\ UNCHANGED <<deleted, socket, by, status, task>>
  BY <1>1, TakeTyped
<1>3. Content' = Content
  BY <1>1 DEF Content
<1>4. c \in Agents => ToolSound(c)'
  BY <1>1, <1>3, ReplyQueues, ToolAnswered
<1> QED
  BY <1>1, <1>2, <1>4, ReplyQueues, ToolsStill, AClient

LEMMA DropCommandTools ==
  ASSUME SyncInv, SyncInv', ToolInv, NEW c \in Clients, DropCommand(c)
  PROVE  ToolInv'
<1>1. Take(c, "command") /\ UNCHANGED <<log, seq, down, mishaps>>
  BY DEF DropCommand
<1>2. /\ up[c] # <<>> /\ up'[c] = Tail(up[c]) /\ \A d \in Clients \ {c} : up'[d] = up[d]
      /\ \A d \in Clients : NoneSent(up[d], up'[d]) /\ NoAnswer(down[d], down'[d])
      /\ UNCHANGED <<deleted, socket, by, status, task>>
  BY <1>1, TakeTyped DEF NoAnswer
<1>3. Outstanding(c)' = Outstanding(c) /\ Content' = Content
  BY <1>1, <1>2 DEF Outstanding, Content
<1>4. c \in Agents => ToolSound(c)'
  BY <1>2, <1>3, ToolStill DEF SyncInv, ToolInv
<1> QED
  BY <1>1, <1>2, <1>4, ToolsStill, AClient

(* The applied command was not refused: its tool, if it is a tool's, waits    *)
(* for it.                                                                    *)
LEMMA ServeCommandTools ==
  ASSUME SyncInv, SyncInv', ToolInv, NEW c \in Clients, ServeCommand(c)
  PROVE  ToolInv'
<1> DEFINE m == Head(up[c])
           k == m.edit
           n == seq + 1
           a == [kind |-> "ack", number |-> n, edit |-> k]
           b == [kind |-> "command", number |-> n, edit |-> k]
           e == [edit |-> k, number |-> n, after |-> m.after]
<1>1. Take(c, "command") /\ ~deleted /\ log' = Append(log, e) /\ Spread(c, k, n)
  BY DEF ServeCommand
<1>2. /\ k \in Commands \ Content /\ m \in Sends /\ m = up[c][1] /\ 1 \in DOMAIN up[c]
      /\ m.kind = "command"
  BY <1>1, Taken DEF Take
<1>3. /\ \A d \in Clients \ {c} : up'[d] = up[d]
      /\ \A d \in Clients : NoneSent(up[d], up'[d])
      /\ UNCHANGED <<deleted, socket, by, status, task>>
  BY <1>1, TakeTyped
<1>4. by[k] = c
  BY <1>2 DEF ToolInv, OwnSends
<1>5. n \in Nat /\ n \in Numbers /\ log \in Seq(Entries)
  <2>1. seq \in Nat /\ log \in Seq(Entries)
    BY DEF SyncInv, Typed
  <2>2. n \in Numbers
    BY <1>2, NumberLeft DEF SyncInv
  <2> QED
    BY <2>1, <2>2
<1>6. a \in Replies /\ b \in Replies /\ ~Answer(b) /\ ~Refusal(a)
  BY <1>2, <1>5, RepliesTyped DEF Answer, Refusal
<1>7. /\ down'[c] = Append(down[c], a)
      /\ \A d \in Clients \ {c} : NoAnswer(down[d], down'[d])
  BY <1>1, <1>6 DEF Spread, NoAnswer
<1>8. Content' = Content \cup {k}
  <2>1. e \in Entries /\ e.edit = k
    BY <1>2, <1>5 DEF Entries, Sends
  <2> HIDE DEF e, k
  <2>2. /\ Len(log) \in Nat /\ DOMAIN log = 1 .. Len(log) /\ DOMAIN log' = 1 .. Len(log) + 1
        /\ \A i \in DOMAIN log : log'[i] = log[i]
        /\ log'[Len(log) + 1] = e
    BY <1>1, <1>5, <2>1, Appended
  <2> QED
    BY <2>1, <2>2 DEF Content
<1> HIDE DEF a, b, e, n
<1>9. OwnSends' /\ \A d \in Clients : Travelling(d)' \subseteq Travelling(d)
  BY <1>3, OwnStill DEF SyncInv, ToolInv
<1>10. RefusedNotApplied'
  <2>1. ASSUME NEW q \in Commands, status[q] \in {"stale", "refused"}, by[q] \in Agents
        PROVE  q # k
    <3>1. SUFFICES ASSUME q = k PROVE FALSE
      OBVIOUS
    <3>2. c \in Agents
      BY <1>4, <2>1, <3>1
    <3>3. k \in Outstanding(c)
      BY <1>1, <3>2, ToolTaken
    <3> QED
      BY <2>1, <3>1, <3>3 DEF Outstanding
  <2> HIDE DEF k
  <2> QED
    BY <1>3, <1>8, <1>9, <2>1 DEF ToolInv, RefusedNotApplied
<1>11. ASSUME c \in Agents PROVE ToolSound(c)'
  BY <1>1, <1>6, <1>7, <1>11, ToolAnswered
<1>12. ASSUME NEW d \in Agents, d # c PROVE ToolSound(d)'
  <2>1. Outstanding(d)' = Outstanding(d)
    BY <1>3 DEF Outstanding
  <2>2. k \notin Outstanding(d)
    BY <1>4, <1>12 DEF Outstanding
  <2> HIDE DEF k
  <2> QED
    BY <1>3, <1>7, <1>8, <1>12, <2>1, <2>2, ToolStill, AClient DEF SyncInv, ToolInv
<1> QED
  BY <1>9, <1>10, <1>11, <1>12 DEF ToolInv

LEMMA DeleteTools ==
  ASSUME SyncInv, SyncInv', ToolInv, DeleteInstance
  PROVE  ToolInv'
<1> DEFINE m == [kind |-> "snapshot", number |-> seq, content |-> {}]
<1>1. /\ deleted' = TRUE
      /\ down' = [d \in Clients |-> IF socket[d] = "open" THEN Append(down[d], m) ELSE down[d]]
      /\ UNCHANGED <<log, socket, up, by, status, task>>
  BY DEF DeleteInstance, calls
<1>2. m \in Replies /\ ~Answer(m)
  BY RepliesTyped DEF SyncInv, Typed, Contents, Answer
<1> HIDE DEF m
<1>3. \A d \in Clients : NoneSent(up[d], up'[d]) /\ NoAnswer(down[d], down'[d])
  BY <1>1, <1>2 DEF NoneSent, NoAnswer
<1>4. OwnSends' /\ RefusedNotApplied'
  BY <1>1, <1>3, OwnStill, RefusedStill DEF SyncInv, ToolInv
<1>5. ASSUME NEW a \in Agents PROVE ToolSound(a)'
  <2>1. Outstanding(a)' = Outstanding(a) /\ Content' = Content
    BY <1>1 DEF Outstanding, Content
  <2> HIDE DEF Outstanding, Content
  <2> QED
    BY <1>1, <1>3, <2>1, ToolStill, AClient DEF SyncInv, ToolInv
<1> QED
  BY <1>4, <1>5 DEF ToolInv

(* The tool that receives an answer has nothing else under way.               *)
LEMMA AnswerTools ==
  ASSUME SyncInv, SyncInv', ToolInv, NEW a \in Agents, Receive(a), Answer(Head(down[a])),
         Outstanding(a)' \subseteq Outstanding(a)
  PROVE  ToolSound(a)'
<1> DEFINE m == Head(down[a])
<1>1. /\ a \in Clients /\ down[a] \in Seq(Replies) /\ down[a] # <<>> /\ down'[a] = Tail(down[a])
      /\ UNCHANGED <<log, deleted, socket, up, task>>
  BY AClient DEF Receive, SyncInv, Typed, server
<1>2. m = down[a][1] /\ 1 \in DOMAIN down[a] /\ Content' = Content
  BY <1>1, Shortened DEF Content
<1>3. \A i \in DOMAIN down'[a] : i + 1 \in DOMAIN down[a] /\ down'[a][i] = down[a][i + 1] /\ i \in Nat /\ i > 0
  BY <1>1, Shortened
<1> HIDE DEF m
<1>4. ToolSound(a) /\ Answer(down[a][1])
  BY <1>2 DEF ToolInv, m
<1>5. OneOutstanding(a)' /\ RequestFirst(a)'
  BY <1>1, <1>2, <1>4 DEF ToolSound, OneOutstanding, RequestFirst
<1>6. RefusalsSound(a)'
  BY <1>2, <1>3, <1>4 DEF ToolSound, RefusalsSound
<1>7. ASSUME ~deleted PROVE SendsWaitedFor(a)' /\ AnsweredOnce(a)'
  <2>1. /\ \A j \in DOMAIN up[a] : up[a][j].kind # "command"
        /\ \A j \in DOMAIN down[a] : Answer(down[a][j]) => j = 1
    BY <1>2, <1>4, <1>7 DEF ToolSound, AnsweredOnce
  <2>2. \A i \in DOMAIN down'[a] : ~Answer(down'[a][i])
    BY <1>3, <2>1
  <2> QED
    BY <1>1, <2>1, <2>2 DEF SendsWaitedFor, AnsweredOnce
<1> QED
  BY <1>1, <1>5, <1>6, <1>7 DEF ToolSound

LEMMA ReceiveTools ==
  ASSUME SyncInv, SyncInv', ToolInv, NEW c \in Clients, Receive(c)
  PROVE  ToolInv'
<1> DEFINE m == Head(down[c])
<1>1. /\ UNCHANGED <<log, deleted, socket, up, by, task>>
      /\ down[c] \in Seq(Replies) /\ down[c] # <<>> /\ down' = [down EXCEPT ![c] = Tail(down[c])]
  BY DEF Receive, SyncInv, Typed, server
<1>2. /\ \A d \in Clients : NoneSent(up[d], up'[d]) /\ NoAnswer(down[d], down'[d])
      /\ m = down[c][1] /\ 1 \in DOMAIN down[c] /\ Content' = Content
  BY <1>1, Shortened DEF NoneSent, NoAnswer, SyncInv, Typed, Content
<1>3. OwnSends' /\ \A d \in Clients : Travelling(d)' \subseteq Travelling(d)
  BY <1>1, <1>2, OwnStill DEF SyncInv, ToolInv
<1>4. CASE UNCHANGED status
  <2>1. RefusedNotApplied'
    BY <1>1, <1>3, <1>4, RefusedStill DEF ToolInv
  <2>2. ASSUME NEW a \in Agents PROVE ToolSound(a)'
    <3>1. Outstanding(a)' = Outstanding(a)
      BY <1>1, <1>4 DEF Outstanding
    <3> QED
      BY <1>1, <1>2, <3>1, ToolStill, AClient DEF SyncInv, ToolInv
  <2> QED
    BY <1>3, <2>1, <2>2 DEF ToolInv
<1>5. CASE /\ m.edit \in Commands /\ m.edit \in Outstanding(c) /\ m.kind = "ack"
           /\ status' = [status EXCEPT ![m.edit] = "acked"]
  <2> HIDE DEF m
  <2>1. PICK k \in Commands : k = m.edit
    BY <1>5
  <2>2. /\ by[k] = c /\ status \in [Commands -> Statuses]
        /\ status'[k] = "acked" /\ \A q \in Commands : q # k => status'[q] = status[q]
    BY <1>5, <2>1 DEF Outstanding, SyncInv, Typed
  <2>3. RefusedNotApplied'
    BY <1>1, <1>3, <2>2, RefusedStill DEF ToolInv
  <2>4. /\ Outstanding(c)' \subseteq Outstanding(c)
        /\ \A a \in Agents : a # c => Outstanding(a)' = Outstanding(a)
    BY <1>1, <2>2 DEF Outstanding
  <2>5. ASSUME NEW a \in Agents, a # c PROVE ToolSound(a)'
    BY <1>1, <1>2, <2>4, <2>5, ToolStill, AClient DEF SyncInv, ToolInv
  <2>6. c \in Agents => ToolSound(c)'
    BY <1>5, <2>4, AnswerTools DEF Answer, m
  <2> QED
    BY <1>3, <2>3, <2>5, <2>6 DEF ToolInv
<1>6. ASSUME NEW outcome \in {"stale", "refused"}, DrainPendingAcks(c, outcome), Refusal(m)
      PROVE  ToolInv'
  <2> HIDE DEF m
  <2>1. status' = [k \in Commands |-> IF k \in Outstanding(c) THEN outcome ELSE status[k]]
    BY <1>6 DEF DrainPendingAcks
  <2>2. /\ Outstanding(c)' \subseteq Outstanding(c)
        /\ \A a \in Agents : a # c => Outstanding(a)' = Outstanding(a)
    BY <1>1, <2>1 DEF Outstanding
  <2>3. ASSUME NEW a \in Agents, a # c PROVE ToolSound(a)'
    BY <1>1, <1>2, <2>2, <2>3, ToolStill, AClient DEF SyncInv, ToolInv
  <2>4. c \in Agents => ToolSound(c)'
    BY <1>6, <2>2, AnswerTools DEF Answer, Refusal, m
  <2>5. RefusedNotApplied'
    <3>1. SUFFICES ASSUME NEW k \in Commands, status'[k] \in {"stale", "refused"}, by[k] \in Agents
                   PROVE  k \notin Content /\ (deleted \/ \A d \in Clients : k \notin Travelling(d)')
      BY <1>1, <1>2 DEF RefusedNotApplied
    <3>2. CASE k \notin Outstanding(c)
      <4>1. k \notin Content /\ (deleted \/ \A d \in Clients : k \notin Travelling(d))
        BY <2>1, <3>1, <3>2 DEF ToolInv, RefusedNotApplied
      <4> QED
        BY <1>3, <4>1
    <3>3. CASE k \in Outstanding(c)
      <4>1. c \in Agents /\ by[k] = c
        BY <3>1, <3>3 DEF Outstanding
      <4>2. k \notin Content
        BY <1>2, <1>6, <3>3, <4>1 DEF ToolInv, ToolSound, RefusalsSound
      <4>3. ASSUME ~deleted, NEW d \in Clients, k \in Travelling(d) PROVE FALSE
        <5>1. PICK i \in DOMAIN up[d] : up[d][i].kind = "command" /\ up[d][i].edit = k
          BY <4>3 DEF Travelling
        <5>2. d = c
          BY <4>1, <5>1 DEF ToolInv, OwnSends
        <5>3. AnsweredOnce(c) /\ Answer(down[c][1])
          BY <1>2, <1>6, <4>1, <4>3 DEF ToolInv, ToolSound, Refusal, Answer
        <5> QED
          BY <1>2, <5>1, <5>2, <5>3 DEF AnsweredOnce
      <4> QED
        BY <1>3, <4>2, <4>3
    <3> QED
      BY <3>2, <3>3
  <2> QED
    BY <1>3, <2>3, <2>4, <2>5 DEF ToolInv
<1>7. \/ m.edit \in Commands /\ m.edit \in Outstanding(c) /\ m.kind = "ack"
         /\ status' = [status EXCEPT ![m.edit] = "acked"]
      \/ Refusal(m) /\ \E outcome \in {"stale", "refused"} : DrainPendingAcks(c, outcome)
      \/ UNCHANGED status
  <2>1. CASE m.kind = "ack" /\ m.edit \in Outstanding(c)
    BY <2>1 DEF Receive, Outstanding
  <2>2. CASE m.kind \in {"stale", "error"}
    BY <2>2 DEF Receive, Refusal
  <2>3. CASE m.kind \notin {"stale", "error"} /\ ~(m.kind = "ack" /\ m.edit \in Outstanding(c))
    BY <2>3 DEF Receive
  <2> QED
    BY <2>1, <2>2, <2>3
<1> QED
  BY <1>4, <1>5, <1>6, <1>7

(* A tool with no message under way and nothing outstanding.                  *)
LEMMA ToolCleared ==
  ASSUME NEW a \in Agents, up'[a] = <<>>, down'[a] = <<>>, Outstanding(a)' = {}
  PROVE  ToolSound(a)'
<1>1. DOMAIN up'[a] = {} /\ DOMAIN down'[a] = {}
  OBVIOUS
<1> QED
  BY <1>1 DEF ToolSound, OneOutstanding, RequestFirst, RefusalsSound, SendsWaitedFor, AnsweredOnce

LEMMA CloseTools ==
  ASSUME SyncInv, SyncInv', ToolInv, NEW c \in Clients, Close(c), UNCHANGED <<log, deleted, made, by, answers>>,
         \A a \in Agents \ {c} : task'[a] = task[a]
  PROVE  ToolInv'
<1>1. /\ socket' = [socket EXCEPT ![c] = "closed"]
      /\ up' = [up EXCEPT ![c] = <<>>] /\ down' = [down EXCEPT ![c] = <<>>]
      /\ status' = [k \in Commands |-> IF k \in Outstanding(c) THEN "lost" ELSE status[k]]
  BY DEF Close, DrainPendingAcks
<1>2. /\ up'[c] = <<>> /\ down'[c] = <<>>
      /\ \A d \in Clients \ {c} : up'[d] = up[d] /\ down'[d] = down[d] /\ socket'[d] = socket[d]
  BY <1>1 DEF SyncInv, Typed
<1>3. OwnSends' /\ \A d \in Clients : Travelling(d)' \subseteq Travelling(d)
  BY CloseTyped, OwnStill DEF SyncInv, ToolInv
<1>4. RefusedNotApplied'
  BY <1>1, <1>3, RefusedStill DEF ToolInv
<1>5. /\ Outstanding(c)' = {}
      /\ \A a \in Agents : a # c => Outstanding(a)' = Outstanding(a)
  BY <1>1 DEF Outstanding
<1>6. ASSUME NEW a \in Agents, a # c PROVE ToolSound(a)'
  <2>1. Content' = Content /\ NoAnswer(down[a], down'[a])
    BY <1>2, <1>6, AClient DEF Content, NoAnswer
  <2> HIDE DEF Content
  <2> QED
    BY <1>2, <1>5, <1>6, <2>1, ToolStill, AClient DEF SyncInv, ToolInv
<1>7. c \in Agents => ToolSound(c)'
  BY <1>2, <1>5, ToolCleared
<1> QED
  BY <1>3, <1>4, <1>6, <1>7 DEF ToolInv

LEMMA LoseTools ==
  ASSUME SyncInv, SyncInv', ToolInv, NEW c \in Clients, Lose(c)
  PROVE  ToolInv'
BY CloseTools DEF Lose, server

LEMMA FinishTools ==
  ASSUME SyncInv, SyncInv', ToolInv, NEW a \in Agents, Finish(a)
  PROVE  ToolInv'
<1>1. \A b \in Agents \ {a} : task'[b] = task[b]
  BY DEF Finish, SyncInv, Typed
<1> QED
  BY <1>1, CloseTools, AClient DEF Finish, server

(* A tool connects with nothing outstanding.                                  *)
LEMMA ConnectTools ==
  ASSUME SyncInv, SyncInv', ToolInv, NEW a \in Agents, Connect(a), Outstanding(a) = {},
         UNCHANGED <<server, calls, window, mishaps, syncs>>,
         \A b \in Agents \ {a} : task'[b] = task[b]
  PROVE  ToolInv'
<1>1. /\ up'[a] = <<>> /\ down'[a] = <<>>
      /\ \A d \in Clients \ {a} : up'[d] = up[d] /\ down'[d] = down[d] /\ socket'[d] = socket[d]
  BY AClient DEF Connect, SyncInv, Typed
<1>2. UNCHANGED <<log, deleted, by, status>>
  BY DEF server, calls
<1>3. ToolSound(a)'
  <2>1. Outstanding(a)' = {}
    BY <1>2 DEF Outstanding
  <2> QED
    BY <1>1, <2>1, ToolCleared
<1>4. \A d \in Clients : NoneSent(up[d], up'[d])
  BY ConnectTyped, AClient
<1> QED
  BY <1>1, <1>2, <1>3, <1>4, ToolsStill, AClient DEF NoAnswer

(* A tool has nothing outstanding unless it waits for a send.                 *)
LEMMA NothingOutstanding ==
  ASSUME ToolInv, NEW a \in Agents,
         task[a].step # "waiting" \/ status[task[a].last] # "waiting" \/ socket[a] # "open"
  PROVE  Outstanding(a) = {}
<1>1. \A k \in Outstanding(a) :
        task[a].step = "waiting" /\ task[a].last = k /\ socket[a] = "open" /\ status[k] = "waiting"
  BY DEF ToolInv, ToolSound, OneOutstanding, Outstanding
<1> QED
  BY <1>1

LEMMA StartTools ==
  ASSUME SyncInv, SyncInv', ToolInv, NEW a \in Agents,
         (\E tool \in Tools : Start(a, tool)) \/ ReadDocument(a) \/ TryAgain(a)
  PROVE  ToolInv'
<1>1. Connect(a) /\ UNCHANGED <<server, calls, window, mishaps, syncs>>
  BY DEF Start, ReadDocument, TryAgain
<1>2. task[a].step # "waiting" \/ status[task[a].last] # "waiting"
  BY DEF Start, ReadDocument, TryAgain, TriesAgain
<1>3. \A b \in Agents \ {a} : task'[b] = task[b]
  BY DEF Start, ReadDocument, TryAgain, SyncInv, Typed
<1> QED
  BY <1>1, <1>2, <1>3, NothingOutstanding, ConnectTools

LEMMA OpenTools ==
  ASSUME SyncInv, SyncInv', ToolInv, NEW a \in Agents, Open(a)
  PROVE  ToolInv'
<1> DEFINE q == <<[kind |-> "request"]>>
<1>1. /\ socket[a] = "connecting" /\ socket' = [socket EXCEPT ![a] = "open"]
      /\ up' = [up EXCEPT ![a] = q] /\ UNCHANGED <<log, deleted, down, by, status, task>>
  BY DEF Open, server, calls
<1>2. DOMAIN q = {1} /\ q[1].kind = "request"
  OBVIOUS
<1> HIDE DEF q
<1>3. up'[a] = q /\ \A d \in Clients \ {a} : up'[d] = up[d] /\ socket'[d] = socket[d]
  BY <1>1, AClient DEF SyncInv, Typed
<1>4. Outstanding(a) = {} /\ Outstanding(a)' = {}
  BY <1>1, NothingOutstanding DEF Outstanding
<1>5. ToolSound(a)'
  <2>1. ToolSound(a)
    BY DEF ToolInv
  <2>2. OneOutstanding(a)' /\ RequestFirst(a)' /\ RefusalsSound(a)' /\ SendsWaitedFor(a)'
    BY <1>2, <1>3, <1>4 DEF OneOutstanding, RequestFirst, RefusalsSound, SendsWaitedFor
  <2>3. ~deleted => AnsweredOnce(a)'
    BY <1>1, <1>4, <2>1 DEF ToolSound, AnsweredOnce
  <2> QED
    BY <1>1, <2>2, <2>3 DEF ToolSound
<1>6. \A d \in Clients : NoneSent(up[d], up'[d]) /\ NoAnswer(down[d], down'[d])
  BY <1>1, <1>2, <1>3 DEF NoneSent, NoAnswer
<1> QED
  BY <1>1, <1>3, <1>5, <1>6, ToolsStill, AClient

(* The queue t is s with a command at its end.                                *)
Joined(s, t, k, base) ==
  /\ Len(s) \in Nat /\ DOMAIN s = 1 .. Len(s) /\ DOMAIN t = 1 .. Len(s) + 1
  /\ \A i \in DOMAIN s : t[i] = s[i]
  /\ t[Len(s) + 1].kind = "command" /\ t[Len(s) + 1].edit = k /\ t[Len(s) + 1].base = base

(* A command that is sent is new, and joins the queue if the socket is open.  *)
LEMMA SendFresh ==
  ASSUME SyncInv, NEW c \in Clients, NEW k \in Commands,
         NEW base \in Nat \cup {None}, NEW after \in {0} \cup Commands,
         Send(c, k, base, after)
  PROVE  /\ k \notin Content /\ \A d \in Clients : k \notin Travelling(d)
         /\ status[k] = "unsent" /\ by'[k] = c
         /\ \A q \in Commands \ {k} : by'[q] = by[q] /\ status'[q] = status[q]
         /\ \A d \in Clients \ {c} : up'[d] = up[d]
         /\ \/ up'[c] = up[c] /\ status'[k] = "lost" /\ socket[c] # "open"
            \/ Joined(up[c], up'[c], k, base) /\ status'[k] = "waiting" /\ socket[c] = "open"
<1> DEFINE m == [kind |-> "command", edit |-> k, base |-> base, after |-> after]
<1>1. /\ made \in Nat /\ k = made + 1 /\ k \in Nat
      /\ by' = [by EXCEPT ![k] = c]
  BY SessionAssumption DEF SyncInv, Typed, Send, Commands
<1>2. k \notin Content
  BY <1>1 DEF SyncInv, LogOrdered, Content
<1>3. \A d \in Clients : k \notin Travelling(d)
  BY <1>1 DEF SyncInv, UpSound, Travelling
<1>4. status[k] = "unsent"
  BY <1>1 DEF SyncInv, CallsSound
<1>5. by'[k] = c /\ \A q \in Commands \ {k} : by'[q] = by[q] /\ status'[q] = status[q]
  BY <1>1 DEF Send, SyncInv, Typed
<1>6. m \in Messages /\ m.kind = "command" /\ m.edit = k /\ m.base = base
  BY DEF Messages, Sends
<1>7. up \in [Clients -> Seq(Messages)] /\ status \in [Commands -> Statuses]
  BY DEF SyncInv, Typed
<1>8. CASE socket[c] = "open" /\ status' = [status EXCEPT ![k] = "waiting"]
           /\ up' = [up EXCEPT ![c] = Append(up[c], m)]
  <2> HIDE DEF m
  <2>1. /\ up'[c] = Append(up[c], m) /\ status'[k] = "waiting"
        /\ \A d \in Clients \ {c} : up'[d] = up[d]
    BY <1>7, <1>8
  <2>2. Joined(up[c], up'[c], k, base)
    BY <1>6, <1>7, <2>1, Appended DEF Joined
  <2> HIDE DEF Joined
  <2> QED
    BY <1>2, <1>3, <1>4, <1>5, <1>8, <2>1, <2>2
<1>9. CASE status' = [status EXCEPT ![k] = "lost"] /\ up' = up /\ socket[c] # "open"
  BY <1>2, <1>3, <1>4, <1>5, <1>7, <1>9
<1> QED
  BY <1>8, <1>9 DEF Send, SyncInv, Typed

LEMMA SendOwn ==
  ASSUME SyncInv, ToolInv, NEW c \in Clients, NEW k \in Commands,
         NEW base \in Nat \cup {None}, NEW after \in {0} \cup Commands,
         Send(c, k, base, after), UNCHANGED <<log, deleted>>
  PROVE  OwnSends' /\ RefusedNotApplied'
<1>1. /\ \A d \in Clients : k \notin Travelling(d)
      /\ by'[k] = c /\ \A q \in Commands \ {k} : by'[q] = by[q] /\ status'[q] = status[q]
      /\ status'[k] \in {"lost", "waiting"}
  BY SendFresh
<1>2. \A d \in Clients : \A i \in DOMAIN up'[d] : up'[d][i].kind = "command" =>
        \/ d = c /\ up'[d][i].edit = k
        \/ i \in DOMAIN up[d] /\ up'[d][i] = up[d][i]
  <2>1. \/ up'[c] = up[c]
        \/ Joined(up[c], up'[c], k, base)
    BY SendFresh
  <2>2. \A d \in Clients \ {c} : up'[d] = up[d]
    BY SendFresh
  <2> QED
    BY <2>1, <2>2 DEF Joined
<1>3. \A d \in Clients : \A i \in DOMAIN up[d] : up[d][i].kind = "command" =>
        up[d][i].edit \in Commands \ {k}
  <2>1. \A d \in Clients : \A i \in DOMAIN up[d] : up[d][i].kind = "command" => up[d][i].edit # k
    BY <1>1 DEF Travelling
  <2>2. \A d \in Clients : \A i \in DOMAIN up[d] : up[d][i].kind = "command" => up[d][i] \in Sends
    BY ElementTyped, MessageFields DEF SyncInv, Typed
  <2> QED
    BY <2>1, <2>2 DEF Sends
<1>4. OwnSends'
  <2>1. SUFFICES ASSUME NEW d \in Clients, NEW i \in DOMAIN up'[d], up'[d][i].kind = "command"
                 PROVE  by'[up'[d][i].edit] = d
    BY DEF OwnSends
  <2> QED
    BY <1>1, <1>2, <1>3, <2>1 DEF ToolInv, OwnSends
<1>5. RefusedNotApplied'
  <2>1. \A d \in Clients : Travelling(d)' \subseteq Travelling(d) \cup {k}
    BY <1>2 DEF Travelling
  <2>2. Content' = Content
    BY DEF Content
  <2> HIDE DEF Content
  <2> QED
    BY <1>1, <2>1, <2>2 DEF ToolInv, RefusedNotApplied
<1> QED
  BY <1>4, <1>5

(* The other tools, when one client sends.                                    *)
LEMMA SendOthers ==
  ASSUME SyncInv, SyncInv', ToolInv, NEW c \in Clients, NEW k \in Commands,
         NEW base \in Nat \cup {None}, NEW after \in {0} \cup Commands,
         Send(c, k, base, after), UNCHANGED <<log, deleted>>,
         NEW a \in Agents, a # c, task'[a] = task[a]
  PROVE  ToolSound(a)'
<1>1. /\ status[k] = "unsent" /\ by'[k] = c
      /\ \A q \in Commands \ {k} : by'[q] = by[q] /\ status'[q] = status[q]
      /\ up'[a] = up[a]
  BY SendFresh, AClient
<1>2. Outstanding(a)' = Outstanding(a)
  BY <1>1 DEF Outstanding
<1>3. Content' = Content /\ NoAnswer(down[a], down'[a]) /\ socket' = socket
  BY DEF Content, NoAnswer, Send
<1> HIDE DEF Content, Outstanding
<1> QED
  BY <1>1, <1>2, <1>3, ToolStill DEF SyncInv, ToolInv

(* A tool sends with nothing outstanding.                                     *)
LEMMA SendTools ==
  ASSUME SyncInv, SyncInv', ToolInv, NEW a \in Agents, NEW k \in Commands,
         NEW base \in Nat \cup {None}, NEW after \in {0} \cup Commands,
         Send(a, k, base, after), UNCHANGED <<log, deleted>>, Outstanding(a) = {},
         task'[a].step = "waiting", task'[a].last = k,
         \A b \in Agents \ {a} : task'[b] = task[b]
  PROVE  ToolInv'
<1>1. OwnSends' /\ RefusedNotApplied' /\ \A b \in Agents \ {a} : ToolSound(b)'
  BY SendOwn, SendOthers, AClient
<1>0. a \in Clients
  BY AClient
<1>2. /\ k \notin Content /\ by'[k] = a
      /\ \A q \in Commands \ {k} : by'[q] = by[q] /\ status'[q] = status[q]
  BY <1>0, SendFresh
<1>3. Outstanding(a)' \subseteq {k} /\ (status'[k] = "waiting" => Outstanding(a)' = {k})
  BY <1>2 DEF Outstanding
<1>4. UNCHANGED <<down, socket>> /\ Content' = Content /\ ToolSound(a)
  BY DEF Send, Content, ToolInv
<1>5. Outstanding(a)' \cap Content' = {}
  BY <1>2, <1>3, <1>4
<1>6. ~deleted => /\ \A i \in DOMAIN up[a] : up[a][i].kind # "command"
                  /\ \A i \in DOMAIN down[a] : ~Answer(down[a][i])
  BY <1>4 DEF ToolSound, SendsWaitedFor, AnsweredOnce
<1>7. OneOutstanding(a)'
  <2>1. \A q \in Outstanding(a)' : q = k /\ socket[a] = "open"
    BY <1>0, <1>2, <1>3, SendFresh DEF Outstanding
  <2> QED
    BY <1>4, <2>1 DEF OneOutstanding
<1>8. RefusalsSound(a)'
  BY <1>5 DEF RefusalsSound
<1>9. ~deleted => AnsweredOnce(a)'
  BY <1>4, <1>6 DEF AnsweredOnce
<1>10. RequestFirst(a)' /\ (~deleted => SendsWaitedFor(a)')
  <2>1. RequestFirst(a)
    BY <1>4 DEF ToolSound
  <2>2. CASE up'[a] = up[a]
    BY <1>5, <1>6, <2>1, <2>2 DEF RequestFirst, SendsWaitedFor
  <2>3. CASE status'[k] = "waiting" /\ Joined(up[a], up'[a], k, base)
    BY <1>3, <1>5, <1>6, <2>1, <2>3 DEF RequestFirst, SendsWaitedFor, Joined
  <2> QED
    BY <1>0, <2>2, <2>3, SendFresh
<1>11. ToolSound(a)'
  BY <1>7, <1>8, <1>9, <1>10 DEF ToolSound
<1> QED
  BY <1>1, <1>11 DEF ToolInv

LEMMA SendFirstTools ==
  ASSUME SyncInv, SyncInv', ToolInv, NEW a \in Agents, SendFirst(a)
  PROVE  ToolInv'
<1>1. PICK k \in Commands :
        /\ Send(a, k, known[a], 0)
        /\ task' = [task EXCEPT ![a].step = "waiting", ![a].last = k, ![a].sent = 1]
  BY DEF SendFirst
<1> DEFINE x == [task[a] EXCEPT !.step = "waiting", !.last = k, !.sent = 1]
<1>5. task' = [task EXCEPT ![a] = x] /\ task \in [Agents -> TasksUnderWay]
  BY <1>1 DEF SyncInv, Typed
<1>6. x.step = "waiting" /\ x.last = k
  BY TaskTyped DEF Tasks
<1> HIDE DEF x
<1>2. /\ task'[a].step = "waiting" /\ task'[a].last = k
      /\ \A b \in Agents \ {a} : task'[b] = task[b]
  BY <1>5, <1>6
<1>3. Outstanding(a) = {}
  BY NothingOutstanding DEF SendFirst
<1>4. known[a] \in Nat /\ UNCHANGED <<log, deleted>>
  BY AClient DEF SyncInv, Typed, SendFirst, server
<1> QED
  BY <1>1, <1>2, <1>3, <1>4, SendTools

LEMMA SendNextTools ==
  ASSUME SyncInv, SyncInv', ToolInv, NEW a \in Agents, SendNext(a)
  PROVE  ToolInv'
<1> DEFINE last == task[a].last
<1>1. PICK k \in Commands :
        /\ Send(a, k, answers[last], last)
        /\ task' = [task EXCEPT ![a].last = k, ![a].sent = @ + 1]
  BY DEF SendNext
<1>2. /\ task[a].step = "waiting" /\ status[last] = "acked"
  BY DEF SendNext
<1> DEFINE x == [task[a] EXCEPT !.last = k, !.sent = task[a].sent + 1]
<1>7. task' = [task EXCEPT ![a] = x] /\ task \in [Agents -> TasksUnderWay]
  BY <1>1 DEF SyncInv, Typed
<1>8. x.step = "waiting" /\ x.last = k
  BY <1>2, TaskTyped DEF Tasks
<1> HIDE DEF x
<1>3. /\ task'[a].step = "waiting" /\ task'[a].last = k
      /\ \A b \in Agents \ {a} : task'[b] = task[b]
  BY <1>7, <1>8
<1>4. last \in Commands
  <2>1. last \in {0} \cup Commands /\ last # 0
    BY <1>2, TaskTyped DEF Tasks
  <2> QED
    BY <2>1
<1>5. Outstanding(a) = {}
  BY <1>2, NothingOutstanding
<1>6. answers[last] \in Nat \cup {None} /\ UNCHANGED <<log, deleted>>
  <2>1. \A q \in {0} \cup Numbers : q \in Nat
    BY SessionAssumption DEF Numbers
  <2> QED
    BY <1>4, <2>1 DEF SyncInv, Typed, SendNext, server
<1> HIDE DEF last
<1> QED
  BY <1>1, <1>3, <1>4, <1>5, <1>6, SendTools

LEMMA WindowTools ==
  ASSUME SyncInv, SyncInv', ToolInv, NEW w \in Windows,
         Edit(w) \/ EditPaused(w) \/ Resync(w) \/ Pause(w) \/ Resume(w)
  PROVE  ToolInv'
<1>1. w \in Clients /\ w \notin Agents
  BY AClient, SessionAssumption
<1>2. CASE Edit(w)
  <2>1. PICK k \in Commands : Send(w, k, None, 0)
    BY <1>2 DEF Edit
  <2>2. UNCHANGED <<log, deleted, task>>
    BY <1>2 DEF Edit, server
  <2> QED
    BY <1>1, <2>1, <2>2, SendOwn, SendOthers DEF ToolInv
<1>3. CASE EditPaused(w) \/ Resync(w) \/ Pause(w) \/ Resume(w)
  <2>1. UNCHANGED <<log, deleted, by, status, down, socket, task>>
    BY <1>3 DEF EditPaused, Resync, Pause, Resume, server, net, calls
  <2>2. /\ \A d \in Clients : NoneSent(up[d], up'[d])
        /\ \A d \in Clients \ {w} : up'[d] = up[d]
    <3>1. CASE RequestSync(w)
      BY <1>1, <3>1, RequestSyncTyped DEF RequestSync, SyncInv, Typed
    <3>2. CASE up' = up
      BY <3>2 DEF NoneSent
    <3> QED
      BY <1>3, <3>1, <3>2 DEF EditPaused, Resync, Pause, Resume, net
  <2>3. \A a \in Agents : a \in Clients \ {w}
    BY <1>1, AClient
  <2> QED
    BY <1>1, <2>1, <2>2, <2>3, ToolsStill DEF NoAnswer
<1> QED
  BY <1>2, <1>3

LEMMA ToolInit == Init => ToolInv
<1>1. SUFFICES ASSUME Init PROVE ToolInv
  OBVIOUS
<1>2. \A c \in Clients : DOMAIN up[c] = {} /\ DOMAIN down[c] = {}
  BY <1>1 DEF Init
<1>3. \A a \in Agents : a \in Clients /\ Outstanding(a) = {}
  BY <1>1, AClient DEF Init, Outstanding
<1>4. OwnSends /\ RefusedNotApplied
  BY <1>1, <1>2 DEF OwnSends, RefusedNotApplied, Init
<1>5. \A a \in Agents : ToolSound(a)
  BY <1>2, <1>3
     DEF ToolSound, OneOutstanding, RequestFirst, RefusalsSound, SendsWaitedFor, AnsweredOnce
<1> QED
  BY <1>4, <1>5 DEF ToolInv

LEMMA ToolStep == SyncInv /\ SyncInv' /\ ToolInv /\ [Next]_vars => ToolInv'
<1>1. SUFFICES ASSUME SyncInv, SyncInv', ToolInv, [Next]_vars PROVE ToolInv'
  OBVIOUS
<1>2. CASE UNCHANGED vars
  BY <1>1, <1>2
     DEF vars, server, net, client, calls, window, ToolInv, OwnSends, RefusedNotApplied, Travelling,
         Content, ToolSound, OneOutstanding, Outstanding, RequestFirst, RefusalsSound,
         SendsWaitedFor, AnsweredOnce
<1>3. ASSUME NEW c \in Clients, Serve(c) PROVE ToolInv'
  BY <1>1, <1>3, ServeRequestTools, ServeCommandTools, RefuseTools, DropCommandTools DEF Serve
<1>4. ASSUME NEW c \in Clients, Receive(c) \/ Lose(c) PROVE ToolInv'
  BY <1>1, <1>4, ReceiveTools, LoseTools
<1>5. ASSUME NEW w \in Windows, Edit(w) \/ EditPaused(w) \/ Resync(w) \/ Pause(w) \/ Resume(w)
      PROVE  ToolInv'
  BY <1>1, <1>5, WindowTools
<1>6. ASSUME NEW a \in Agents,
             \/ \E tool \in Tools : Start(a, tool)
             \/ Open(a) \/ ReadDocument(a) \/ SendFirst(a) \/ SendNext(a) \/ Finish(a) \/ TryAgain(a)
      PROVE  ToolInv'
  BY <1>1, <1>6, StartTools, OpenTools, SendFirstTools, SendNextTools, FinishTools
<1> QED
  BY <1>1, <1>2, <1>3, <1>4, <1>5, <1>6, DeleteTools DEF Next

(* What a tool was refused was not applied, and while the instance is there   *)
(* it is not on its way either: the tool that sends it again changes the      *)
(* document once.                                                             *)
THEOREM RefusedWereNotApplied == Spec => []RefusedNotApplied
<1>1. ToolInv => RefusedNotApplied
  BY DEF ToolInv
<1>2. Spec => []ToolInv
  BY ToolInit, ToolStep, SyncAlways, PTL DEF Spec
<1> QED
  BY <1>1, <1>2, PTL

-----------------------------------------------------------------------------
(* A window shows what the server holds.                                      *)

(* What a message adds to what a window shows, or replaces it with.           *)
Brings(m) == IF m.kind = "snapshot" THEN m.content
             ELSE IF m.kind = "command" THEN {m.edit} ELSE {}

(* What a window that shows v will show once it has received the messages s.  *)
Shown(s, v) ==
  {k \in Commands :
     \/ k \in v /\ \A i \in DOMAIN s : s[i].kind # "snapshot"
     \/ \E i \in DOMAIN s : k \in Brings(s[i]) /\ \A j \in DOMAIN s : j > i => s[j].kind # "snapshot"}

Requested(w) == \E i \in DOMAIN up[w] : up[w][i].kind = "request"

(* The edits of a window carry no base version.                               *)
Unbased(w) == \A i \in DOMAIN up[w] : up[w][i].kind = "command" => up[w][i].base = None

(* Nothing was edited after the content was asked for.                        *)
RequestsLast(w) ==
  \A i, j \in DOMAIN up[w] : i < j /\ up[w][i].kind = "request" => up[w][j].kind # "command"

(* What it will show is what the server will hold once it has handled the     *)
(* window's edits, unless the window asked for the content again.             *)
ShowsAll(w) ==
  ~paused[w] /\ ~deleted /\ ~Requested(w) => Shown(down[w], view[w]) = Content \cup Travelling(w)

WindowSound(w) ==
  /\ Unbased(w)
  /\ socket[w] = "open" /\ ~raced[w] => RequestsLast(w) /\ ShowsAll(w)

WindowInv == \A w \in Windows : WindowSound(w)

LEMMA BringsTyped ==
  ASSUME NEW m \in Replies
  PROVE  Brings(m) \in SUBSET Commands
BY ReplyFields DEF Brings, Contents

LEMMA ShownEmpty ==
  ASSUME NEW v \in Contents
  PROVE  Shown(<<>>, v) = v
BY DEF Shown, Contents

LEMMA ShownAppend ==
  ASSUME NEW s \in Seq(Replies), NEW m \in Replies, NEW v
  PROVE  Shown(Append(s, m), v) =
           IF m.kind = "snapshot" THEN m.content ELSE Shown(s, v) \cup Brings(m)
<1> DEFINE t == Append(s, m)
           n == Len(s) + 1
<1>1. /\ Len(s) \in Nat /\ DOMAIN s = 1 .. Len(s) /\ DOMAIN t = 1 .. n /\ n \in Nat
      /\ \A i \in DOMAIN s : t[i] = s[i] /\ i \in Nat /\ i < n
      /\ t[n] = m /\ n \in DOMAIN t
      /\ \A i \in DOMAIN t : i \in DOMAIN s \/ i = n
  BY Appended
<1>2. Brings(m) \in SUBSET Commands
  BY BringsTyped
<1> HIDE DEF t, n
<1>3. ASSUME m.kind = "snapshot" PROVE Shown(t, v) = m.content
  <2>1. Brings(m) = m.content
    BY <1>3 DEF Brings
  <2>2. ASSUME NEW k \in m.content PROVE k \in Shown(t, v)
    <3>1. \A j \in DOMAIN t : ~(j > n)
      BY <1>1
    <3> QED
      BY <1>1, <1>2, <2>1, <2>2, <3>1 DEF Shown
  <2>3. ASSUME NEW k \in Shown(t, v) PROVE k \in m.content
    <3>1. PICK i \in DOMAIN t : k \in Brings(t[i]) /\ \A j \in DOMAIN t : j > i => t[j].kind # "snapshot"
      BY <1>1, <1>3, <2>3 DEF Shown
    <3>2. i = n
      BY <1>1, <1>3, <3>1
    <3> QED
      BY <1>1, <2>1, <3>1, <3>2
  <2> QED
    BY <2>2, <2>3
<1>4. ASSUME m.kind # "snapshot" PROVE Shown(t, v) = Shown(s, v) \cup Brings(m)
  <2>1. ASSUME NEW k \in Shown(t, v) PROVE k \in Shown(s, v) \cup Brings(m)
    <3>1. k \in Commands
      BY <2>1 DEF Shown
    <3>2. CASE k \in v /\ \A i \in DOMAIN t : t[i].kind # "snapshot"
      BY <1>1, <3>1, <3>2 DEF Shown
    <3>3. ASSUME NEW i \in DOMAIN t, k \in Brings(t[i]),
                 \A j \in DOMAIN t : j > i => t[j].kind # "snapshot"
          PROVE  k \in Shown(s, v) \cup Brings(m)
      <4>1. CASE i = n
        BY <1>1, <3>3, <4>1
      <4>2. CASE i \in DOMAIN s
        <5>1. k \in Brings(s[i]) /\ \A j \in DOMAIN s : j > i => s[j].kind # "snapshot"
          BY <1>1, <3>3, <4>2
        <5> QED
          BY <3>1, <4>2, <5>1 DEF Shown
      <4> QED
        BY <1>1, <4>1, <4>2
    <3> QED
      BY <2>1, <3>2, <3>3 DEF Shown
  <2>2. ASSUME NEW k \in Shown(s, v) PROVE k \in Shown(t, v)
    <3>1. k \in Commands
      BY <2>2 DEF Shown
    <3>2. CASE k \in v /\ \A i \in DOMAIN s : s[i].kind # "snapshot"
      <4>1. \A i \in DOMAIN t : t[i].kind # "snapshot"
        BY <1>1, <1>4, <3>2
      <4> QED
        BY <3>1, <3>2, <4>1 DEF Shown
    <3>3. ASSUME NEW i \in DOMAIN s, k \in Brings(s[i]),
                 \A j \in DOMAIN s : j > i => s[j].kind # "snapshot"
          PROVE  k \in Shown(t, v)
      <4>1. k \in Brings(t[i]) /\ \A j \in DOMAIN t : j > i => t[j].kind # "snapshot"
        BY <1>1, <1>4, <3>3
      <4>2. i \in DOMAIN t
        BY <1>1
      <4> QED
        BY <3>1, <4>1, <4>2 DEF Shown
    <3> QED
      BY <2>2, <3>2, <3>3 DEF Shown
  <2>3. ASSUME NEW k \in Brings(m) PROVE k \in Shown(t, v)
    <3>1. k \in Brings(t[n]) /\ \A j \in DOMAIN t : j > n => t[j].kind # "snapshot"
      BY <1>1, <2>3
    <3> QED
      BY <1>1, <1>2, <2>3, <3>1 DEF Shown
  <2> QED
    BY <2>1, <2>2, <2>3
<1> QED
  BY <1>3, <1>4 DEF t

LEMMA ShownTail ==
  ASSUME NEW s \in Seq(Replies), s # <<>>, NEW v
  PROVE  Shown(s, v) =
           Shown(Tail(s), IF Head(s).kind = "snapshot" THEN Head(s).content ELSE v \cup Brings(Head(s)))
<1> DEFINE m == Head(s)
           t == Tail(s)
           u == IF m.kind = "snapshot" THEN m.content ELSE v \cup Brings(m)
<1>1. /\ m \in Replies /\ m = s[1] /\ 1 \in DOMAIN s
      /\ \A i \in DOMAIN t : i + 1 \in DOMAIN s /\ t[i] = s[i + 1] /\ i \in Nat /\ i > 0
  BY Shortened
<1>2. \A i \in DOMAIN s : i \in Nat /\ (i = 1 \/ (i > 1 /\ i - 1 \in DOMAIN t /\ t[i - 1] = s[i]))
  <2>1. Len(s) \in Nat /\ DOMAIN s = 1 .. Len(s) /\ DOMAIN t = 1 .. Len(s) - 1
    BY HeadTailProperties, LenProperties, EmptySeq
  <2>2. ASSUME NEW i \in DOMAIN s, i # 1 PROVE i > 1 /\ i - 1 \in DOMAIN t /\ t[i - 1] = s[i]
    <3>1. i \in Nat /\ i > 1 /\ i - 1 \in DOMAIN t /\ (i - 1) + 1 = i
      BY <2>1, <2>2
    <3> HIDE DEF t
    <3> QED
      BY <1>1, <3>1
  <2>3. \A i \in DOMAIN s : i \in Nat
    BY <2>1
  <2> HIDE DEF t
  <2> QED
    BY <2>2, <2>3
<1>3. Brings(m) \in SUBSET Commands /\ (m.kind = "snapshot" => Brings(m) = m.content)
  BY <1>1, BringsTyped DEF Brings
<1> HIDE DEF m, t
<1>4. ASSUME NEW k \in Shown(s, v) PROVE k \in Shown(t, u)
  <2>1. k \in Commands
    BY <1>4 DEF Shown
  <2>2. CASE k \in v /\ \A i \in DOMAIN s : s[i].kind # "snapshot"
    <3>1. k \in u /\ \A i \in DOMAIN t : t[i].kind # "snapshot"
      BY <1>1, <2>2
    <3> QED
      BY <2>1, <3>1 DEF Shown
  <2>3. ASSUME NEW i \in DOMAIN s, k \in Brings(s[i]),
               \A j \in DOMAIN s : j > i => s[j].kind # "snapshot"
        PROVE  k \in Shown(t, u)
    <3>1. CASE i = 1
      <4>1. \A j \in DOMAIN t : t[j].kind # "snapshot"
        BY <1>1, <2>3, <3>1
      <4>2. k \in u
        BY <1>1, <1>3, <2>3, <3>1
      <4> HIDE DEF u
      <4> QED
        BY <2>1, <4>1, <4>2 DEF Shown
    <3>2. CASE i - 1 \in DOMAIN t /\ t[i - 1] = s[i]
      <4>1. \A j \in DOMAIN t : j > i - 1 => t[j].kind # "snapshot"
        BY <1>1, <1>2, <2>3
      <4> HIDE DEF u
      <4> QED
        BY <2>1, <2>3, <3>2, <4>1 DEF Shown
    <3> QED
      BY <1>2, <3>1, <3>2
  <2> QED
    BY <1>4, <2>2, <2>3 DEF Shown
<1>5. ASSUME NEW k \in Shown(t, u) PROVE k \in Shown(s, v)
  <2>1. k \in Commands
    BY <1>5 DEF Shown
  <2>2. CASE k \in u /\ \A i \in DOMAIN t : t[i].kind # "snapshot"
    <3>1. \A i \in DOMAIN s : i > 1 => s[i].kind # "snapshot"
      BY <1>2, <2>2
    <3>2. CASE k \in Brings(m)
      BY <1>1, <2>1, <3>1, <3>2 DEF Shown
    <3>3. CASE m.kind # "snapshot" /\ k \in v
      <4>1. \A i \in DOMAIN s : s[i].kind # "snapshot"
        BY <1>1, <1>2, <3>1, <3>3
      <4> QED
        BY <2>1, <3>3, <4>1 DEF Shown
    <3> QED
      BY <1>3, <2>2, <3>2, <3>3
  <2>3. ASSUME NEW i \in DOMAIN t, k \in Brings(t[i]),
               \A j \in DOMAIN t : j > i => t[j].kind # "snapshot"
        PROVE  k \in Shown(s, v)
    <3>1. i + 1 \in DOMAIN s /\ k \in Brings(s[i + 1]) /\ i \in Nat
      BY <1>1, <2>3
    <3>2. ASSUME NEW j \in DOMAIN s, j > i + 1 PROVE s[j].kind # "snapshot"
      <4>1. j \in Nat /\ j - 1 \in DOMAIN t /\ t[j - 1] = s[j] /\ j - 1 > i
        BY <1>1, <1>2, <3>1, <3>2
      <4> QED
        BY <2>3, <4>1
    <3> QED
      BY <2>1, <3>1, <3>2 DEF Shown
  <2> HIDE DEF u
  <2> QED
    BY <1>5, <2>2, <2>3 DEF Shown
<1> HIDE DEF u
<1>6. Shown(s, v) = Shown(t, u)
  BY <1>4, <1>5
<1> QED
  BY <1>6 DEF u, t, m

(* An edit on the screen, when no snapshot is on its way.                     *)
LEMMA ShownEdit ==
  ASSUME NEW s, \A i \in DOMAIN s : s[i].kind # "snapshot", NEW v, NEW k \in Commands
  PROVE  Shown(s, v \cup {k}) = Shown(s, v) \cup {k}
BY DEF Shown

-----------------------------------------------------------------------------
(* A window that a step leaves alone.                                         *)
LEMMA WindowStill ==
  ASSUME NEW w \in Windows, WindowSound(w),
         UNCHANGED <<log, deleted>>, socket'[w] = socket[w], up'[w] = up[w], down'[w] = down[w],
         view'[w] = view[w], paused'[w] = paused[w], raced[w] => raced'[w]
  PROVE  WindowSound(w)'
BY DEF WindowSound, Unbased, RequestsLast, ShowsAll, Requested, Travelling, Content

(* A window whose first message is taken.                                     *)
LEMMA WindowTaken ==
  ASSUME SyncInv, NEW w \in Windows, NEW kind, Take(w, kind), WindowSound(w)
  PROVE  /\ Unbased(w)' /\ (~raced[w] => RequestsLast(w)')
         /\ ~raced[w] /\ kind = "request" => Travelling(w)' = {}
         /\ kind = "command" => /\ Travelling(w) = Travelling(w)' \cup {Head(up[w]).edit}
                                /\ Requested(w) => Requested(w)'
         /\ Head(up[w]).kind = kind /\ (kind = "command" => Head(up[w]).base = None)
<1>1. /\ w \in Clients /\ up[w] \in Seq(Messages) /\ up[w] # <<>> /\ Head(up[w]).kind = kind
      /\ up'[w] = Tail(up[w]) /\ socket[w] = "open"
  BY AClient DEF SyncInv, Typed, Take
<1>2. /\ Head(up[w]) = up[w][1] /\ 1 \in DOMAIN up[w]
      /\ \A i \in DOMAIN up'[w] :
           i + 1 \in DOMAIN up[w] /\ up'[w][i] = up[w][i + 1] /\ i \in Nat /\ i > 0
  BY <1>1, Shortened
<1>3. \A i \in DOMAIN up[w] :
        i \in Nat /\ (i = 1 \/ (i - 1 \in DOMAIN up'[w] /\ up'[w][i - 1] = up[w][i]))
  <2>1. /\ Len(up[w]) \in Nat /\ DOMAIN up[w] = 1 .. Len(up[w])
        /\ DOMAIN up'[w] = 1 .. Len(up[w]) - 1
    BY <1>1, HeadTailProperties, LenProperties, EmptySeq
  <2>2. ASSUME NEW i \in DOMAIN up[w], i # 1
        PROVE  i - 1 \in DOMAIN up'[w] /\ up'[w][i - 1] = up[w][i]
    <3>1. i \in Nat /\ i - 1 \in DOMAIN up'[w] /\ (i - 1) + 1 = i
      BY <2>1, <2>2
    <3> QED
      BY <1>2, <3>1
  <2> QED
    BY <2>1, <2>2
<1>4. Unbased(w)' /\ (~raced[w] => RequestsLast(w)')
  <2>1. Unbased(w)'
    BY <1>2 DEF WindowSound, Unbased
  <2>2. ASSUME ~raced[w] PROVE RequestsLast(w)'
    <3>1. SUFFICES ASSUME NEW i \in DOMAIN up'[w], NEW j \in DOMAIN up'[w],
                          i < j, up'[w][i].kind = "request"
                   PROVE  up'[w][j].kind # "command"
      BY DEF RequestsLast
    <3>2. /\ i + 1 \in DOMAIN up[w] /\ j + 1 \in DOMAIN up[w] /\ i + 1 < j + 1
          /\ up'[w][i] = up[w][i + 1] /\ up'[w][j] = up[w][j + 1]
      BY <1>2, <3>1
    <3>3. RequestsLast(w)
      BY <1>1, <2>2 DEF WindowSound
    <3> QED
      BY <3>1, <3>2, <3>3 DEF RequestsLast
  <2> QED
    BY <2>1, <2>2
<1>5. ASSUME ~raced[w], kind = "request" PROVE Travelling(w)' = {}
  <2>1. RequestsLast(w)
    BY <1>1, <1>5 DEF WindowSound
  <2>2. ASSUME NEW i \in DOMAIN up'[w] PROVE up'[w][i].kind # "command"
    <3>1. i + 1 \in DOMAIN up[w] /\ 1 < i + 1 /\ up'[w][i] = up[w][i + 1] /\ up[w][1].kind = "request"
      BY <1>1, <1>2, <1>5
    <3> QED
      BY <1>2, <2>1, <3>1 DEF RequestsLast
  <2> QED
    BY <2>2 DEF Travelling
<1>6. ASSUME kind = "command"
      PROVE  /\ Travelling(w) = Travelling(w)' \cup {Head(up[w]).edit}
             /\ Requested(w) => Requested(w)'
             /\ Head(up[w]).base = None
  <2>1. up[w][1].kind = "command"
    BY <1>1, <1>2, <1>6
  <2>2. Travelling(w) \subseteq Travelling(w)' \cup {Head(up[w]).edit}
    BY <1>2, <1>3 DEF Travelling
  <2>3. Travelling(w)' \cup {Head(up[w]).edit} \subseteq Travelling(w)
    BY <1>2, <2>1 DEF Travelling
  <2>4. Requested(w) => Requested(w)'
    BY <1>3, <2>1 DEF Requested
  <2> QED
    BY <1>2, <2>1, <2>2, <2>3, <2>4 DEF WindowSound, Unbased
<1> QED
  BY <1>1, <1>4, <1>5, <1>6

(* What serving one client leaves of the others.                              *)
LEMMA ServeOthers ==
  ASSUME SyncInv, NEW c \in Clients, NEW kind, Take(c, kind), NEW w \in Windows, w # c
  PROVE  /\ socket'[w] = socket[w] /\ up'[w] = up[w] /\ view'[w] = view[w] /\ paused'[w] = paused[w]
         /\ deleted' = deleted
BY TakeTyped, AClient

(* The window is sent what the server holds, and nothing of its own is left.  *)
LEMMA ServeRequestWindows ==
  ASSUME SyncInv, SyncInv', WindowInv, NEW c \in Clients, ServeRequest(c)
  PROVE  WindowInv'
<1> DEFINE m == IF deleted THEN [kind |-> "error"]
                ELSE [kind |-> "snapshot", number |-> seq, content |-> Content]
<1>1. Take(c, "request") /\ Reply(c, m) /\ UNCHANGED <<log, raced>>
  BY DEF ServeRequest
<1>2. m \in Replies /\ (~deleted => m.kind = "snapshot" /\ m.content = Content)
  BY RepliesTyped, ContentTyped DEF SyncInv, Typed
<1> HIDE DEF m
<1>3. ASSUME NEW w \in Windows, w # c PROVE WindowSound(w)'
  <2>1. down'[w] = down[w]
    BY <1>1, <1>2, <1>3, ReplyQueues, AClient
  <2> QED
    BY <1>1, <1>3, <2>1, ServeOthers, WindowStill DEF WindowInv
<1>4. ASSUME c \in Windows PROVE WindowSound(c)'
  <2>1. /\ Unbased(c)' /\ (~raced[c] => RequestsLast(c)')
        /\ ~raced[c] => Travelling(c)' = {}
    BY <1>1, <1>4, WindowTaken DEF WindowInv
  <2>2. ASSUME ~raced[c], ~deleted PROVE Shown(down'[c], view'[c]) = Content' \cup Travelling(c)'
    <3>1. down'[c] = Append(down[c], m) /\ down[c] \in Seq(Replies)
      BY <1>1, <1>2, ReplyQueues DEF SyncInv, Typed
    <3>2. Shown(down'[c], view'[c]) = Content
      BY <1>2, <2>2, <3>1, ShownAppend
    <3>3. Content' = Content
      BY <1>1 DEF Content
    <3> QED
      BY <2>1, <2>2, <3>2, <3>3
  <2>3. UNCHANGED <<deleted, raced>>
    BY <1>1, TakeTyped
  <2> QED
    BY <2>1, <2>2, <2>3 DEF WindowSound, ShowsAll
<1> QED
  BY <1>3, <1>4 DEF WindowInv

(* The sender's window shows the command already, the others are sent it.     *)
LEMMA ServeCommandWindows ==
  ASSUME SyncInv, SyncInv', WindowInv, NEW c \in Clients, ServeCommand(c)
  PROVE  WindowInv'
<1> DEFINE m == Head(up[c])
           k == m.edit
           n == seq + 1
           a == [kind |-> "ack", number |-> n, edit |-> k]
           b == [kind |-> "command", number |-> n, edit |-> k]
           e == [edit |-> k, number |-> n, after |-> m.after]
<1>1. Take(c, "command") /\ ~deleted /\ log' = Append(log, e) /\ Spread(c, k, n) /\ raced' = raced
  BY DEF ServeCommand
<1>2. k \in Commands \ Content /\ m \in Sends
  BY <1>1, Taken
<1>3. n \in Nat /\ n \in Numbers /\ log \in Seq(Entries)
  <2>1. seq \in Nat /\ log \in Seq(Entries)
    BY DEF SyncInv, Typed
  <2>2. n \in Numbers
    BY <1>2, NumberLeft DEF SyncInv
  <2> QED
    BY <2>1, <2>2
<1>4. /\ a \in Replies /\ b \in Replies
      /\ a.kind = "ack" /\ Brings(a) = {} /\ b.kind = "command" /\ Brings(b) = {k}
  BY <1>2, <1>3, RepliesTyped DEF Brings
<1>5. /\ down'[c] = Append(down[c], a)
      /\ \A d \in Clients \ {c} :
           down'[d] = IF socket[d] = "open" THEN Append(down[d], b) ELSE down[d]
  BY <1>1 DEF Spread
<1>6. Content' = Content \cup {k}
  <2>1. e \in Entries /\ e.edit = k
    BY <1>2, <1>3 DEF Entries, Sends
  <2> HIDE DEF e, k
  <2>2. /\ Len(log) \in Nat /\ DOMAIN log = 1 .. Len(log) /\ DOMAIN log' = 1 .. Len(log) + 1
        /\ \A i \in DOMAIN log : log'[i] = log[i]
        /\ log'[Len(log) + 1] = e
    BY <1>1, <1>3, <2>1, Appended
  <2> QED
    BY <2>1, <2>2 DEF Content
<1>7. UNCHANGED <<deleted, socket, view, paused>>
  BY <1>1, TakeTyped
<1> HIDE DEF a, b, e, n
<1>8. ASSUME c \in Windows PROVE WindowSound(c)'
  <2>1. /\ Unbased(c)' /\ (~raced[c] => RequestsLast(c)')
        /\ Travelling(c) = Travelling(c)' \cup {k} /\ (Requested(c) => Requested(c)')
    BY <1>1, <1>8, WindowTaken DEF WindowInv
  <2>2. WindowSound(c)
    BY <1>8 DEF WindowInv
  <2>3. Shown(down'[c], view'[c]) = Shown(down[c], view[c])
    <3>1. down[c] \in Seq(Replies)
      BY DEF SyncInv, Typed
    <3>2. Shown(Append(down[c], a), view[c]) = Shown(down[c], view[c]) \cup {}
      BY <1>4, <3>1, ShownAppend
    <3> QED
      BY <1>5, <1>7, <3>2
  <2> HIDE DEF k
  <2> QED
    BY <1>1, <1>6, <1>7, <2>1, <2>2, <2>3 DEF WindowSound, ShowsAll
<1>9. ASSUME NEW w \in Windows, w # c PROVE WindowSound(w)'
  <2>1. WindowSound(w) /\ w \in Clients
    BY AClient DEF WindowInv
  <2>2. up'[w] = up[w]
    BY <1>1, <1>9, ServeOthers
  <2>3. socket[w] = "open" => Shown(down'[w], view'[w]) = Shown(down[w], view[w]) \cup {k}
    <3>1. down[w] \in Seq(Replies)
      BY <2>1 DEF SyncInv, Typed
    <3>2. Shown(Append(down[w], b), view[w]) = Shown(down[w], view[w]) \cup {k}
      BY <1>4, <3>1, ShownAppend
    <3> QED
      BY <1>5, <1>7, <1>9, <2>1, <3>2
  <2>4. /\ Travelling(w)' = Travelling(w) /\ Requested(w)' = Requested(w)
        /\ Unbased(w)' = Unbased(w) /\ RequestsLast(w)' = RequestsLast(w)
    BY <2>2 DEF Travelling, Requested, Unbased, RequestsLast
  <2> HIDE DEF k
  <2> QED
    BY <1>1, <1>6, <1>7, <2>1, <2>3, <2>4 DEF WindowSound, ShowsAll
<1> QED
  BY <1>8, <1>9 DEF WindowInv

(* No edit of a window is stale; one that fails or is dropped stays on its    *)
(* screen alone.                                                              *)
LEMMA RefuseWindows ==
  ASSUME SyncInv, SyncInv', WindowInv, NEW c \in Clients,
         RefuseStale(c) \/ FaultyCommand(c) \/ DropCommand(c)
  PROVE  WindowInv'
<1>1. /\ Take(c, "command") /\ log' = log
      /\ Unwanted(c) \/ (raced' = raced /\ Stale(Head(up[c])))
      /\ \A w \in Windows \ {c} : down'[w] = down[w]
  BY AClient DEF RefuseStale, FaultyCommand, DropCommand, Reply, SyncInv, Typed
<1>2. ASSUME c \in Windows PROVE WindowSound(c)'
  <2>1. Unbased(c)' /\ Head(up[c]).base = None
    BY <1>1, <1>2, WindowTaken DEF WindowInv
  <2>2. raced'[c] = TRUE
    <3>1. raced' = [w \in Windows |-> raced[w] \/ w = c]
      BY <1>1, <2>1 DEF Stale, Unwanted
    <3>2. raced'[c] = (raced[c] \/ c = c)
      BY <1>2, <3>1
    <3> QED
      BY <3>2
  <2> QED
    BY <2>1, <2>2 DEF WindowSound
<1>3. ASSUME NEW w \in Windows, w # c PROVE WindowSound(w)'
  <2>1. raced[w] => raced'[w]
    BY <1>1, Zenon DEF Unwanted
  <2> QED
    BY <1>1, <1>3, <2>1, ServeOthers, WindowStill DEF WindowInv
<1> QED
  BY <1>2, <1>3 DEF WindowInv

LEMMA DeleteWindows ==
  ASSUME SyncInv, SyncInv', WindowInv, DeleteInstance
  PROVE  WindowInv'
<1>1. deleted' = TRUE /\ UNCHANGED <<socket, up, raced>>
  BY DEF DeleteInstance, window
<1> QED
  BY <1>1 DEF WindowInv, WindowSound, Unbased, RequestsLast, ShowsAll

LEMMA ReceiveWindows ==
  ASSUME SyncInv, SyncInv', WindowInv, NEW c \in Clients, Receive(c)
  PROVE  WindowInv'
<1> DEFINE m == Head(down[c])
<1>1. /\ down[c] # <<>> /\ UNCHANGED <<log, deleted, socket, up, paused, raced>>
      /\ down'[c] = Tail(down[c]) /\ \A d \in Clients \ {c} : down'[d] = down[d]
      /\ view' = [w \in Windows |-> IF w # c \/ paused[w] THEN view[w]
                                    ELSE IF m.kind = "snapshot" THEN m.content
                                    ELSE IF m.kind = "command" THEN view[w] \cup {m.edit}
                                    ELSE view[w]]
  BY DEF Receive, server, SyncInv, Typed
<1>2. ASSUME NEW w \in Windows, w # c PROVE WindowSound(w)'
  <2>1. down'[w] = down[w] /\ view'[w] = view[w]
    BY <1>1, <1>2, AClient
  <2> QED
    BY <1>1, <2>1, WindowStill DEF WindowInv
<1>3. ASSUME c \in Windows PROVE WindowSound(c)'
  <2>1. WindowSound(c) /\ down[c] \in Seq(Replies)
    BY <1>3 DEF WindowInv, SyncInv, Typed
  <2>2. ~paused[c] => Shown(down'[c], view'[c]) = Shown(down[c], view[c])
    <3>1. ~paused[c] => view'[c] = IF m.kind = "snapshot" THEN m.content ELSE view[c] \cup Brings(m)
      BY <1>1, <1>3 DEF Brings
    <3> QED
      BY <1>1, <2>1, <3>1, ShownTail
  <2>3. /\ Travelling(c)' = Travelling(c) /\ Requested(c)' = Requested(c)
        /\ Unbased(c)' = Unbased(c) /\ RequestsLast(c)' = RequestsLast(c) /\ Content' = Content
    BY <1>1 DEF Travelling, Requested, Unbased, RequestsLast, Content
  <2> QED
    BY <1>1, <2>1, <2>2, <2>3 DEF WindowSound, ShowsAll
<1> QED
  BY <1>2, <1>3 DEF WindowInv

(* A window whose socket is lost shows nothing more.                          *)
LEMMA LoseWindows ==
  ASSUME SyncInv, SyncInv', WindowInv, NEW c \in Clients, Lose(c)
  PROVE  WindowInv'
<1>1. /\ socket' = [socket EXCEPT ![c] = "closed"]
      /\ up' = [up EXCEPT ![c] = <<>>] /\ down' = [down EXCEPT ![c] = <<>>]
      /\ UNCHANGED <<log, deleted, view, paused, raced>>
  BY DEF Lose, Close, server, window
<1>2. /\ socket'[c] = "closed" /\ up'[c] = <<>>
      /\ \A d \in Clients \ {c} : socket'[d] = socket[d] /\ up'[d] = up[d] /\ down'[d] = down[d]
  BY <1>1 DEF SyncInv, Typed
<1>3. ASSUME NEW w \in Windows, w # c PROVE WindowSound(w)'
  BY <1>1, <1>2, <1>3, WindowStill, AClient DEF WindowInv
<1>4. ASSUME c \in Windows PROVE WindowSound(c)'
  <2>1. DOMAIN up'[c] = {}
    BY <1>2
  <2> QED
    BY <1>2, <2>1 DEF WindowSound, Unbased
<1> QED
  BY <1>3, <1>4 DEF WindowInv

(* A window shows the edit it sends; if it asked for the content before, that *)
(* may come without it.                                                       *)
LEMMA EditWindows ==
  ASSUME SyncInv, SyncInv', WindowInv, NEW w \in Windows, Edit(w)
  PROVE  WindowInv'
<1>1. PICK k \in Commands : Send(w, k, None, 0) /\ view' = [view EXCEPT ![w] = @ \cup {k}]
  BY DEF Edit
<1>2. /\ raced' = [raced EXCEPT ![w] = raced[w] \/ Awaited(w)]
      /\ UNCHANGED <<log, deleted, socket, down, paused>> /\ w \in Clients
  BY <1>1, AClient DEF Edit, server, Send
<1>3. /\ view'[w] = view[w] \cup {k} /\ \A v \in Windows \ {w} : view'[v] = view[v]
      /\ raced'[w] = (raced[w] \/ Awaited(w)) /\ \A v \in Windows \ {w} : raced'[v] = raced[v]
  BY <1>1, <1>2 DEF SyncInv, Typed
<1>4. \A d \in Clients \ {w} : up'[d] = up[d]
  BY <1>1, <1>2, SendFresh
<1>5. ASSUME NEW v \in Windows, v # w PROVE WindowSound(v)'
  BY <1>2, <1>3, <1>4, <1>5, WindowStill, AClient DEF WindowInv
<1>6. WindowSound(w)
  BY DEF WindowInv
<1>7. ASSUME up'[w] = up[w], socket[w] # "open" PROVE WindowSound(w)'
  BY <1>2, <1>6, <1>7 DEF WindowSound, Unbased
<1>8. ASSUME Joined(up[w], up'[w], k, None), socket[w] = "open" PROVE WindowSound(w)'
  <2>1. Unbased(w)'
    BY <1>6, <1>8 DEF WindowSound, Unbased, Joined
  <2>2. ASSUME ~raced'[w] PROVE RequestsLast(w)' /\ ShowsAll(w)'
    <3>1. /\ ~raced[w] /\ \A i \in DOMAIN up[w] : up[w][i].kind # "request"
          /\ \A i \in DOMAIN down[w] : down[w][i].kind # "snapshot"
      BY <1>3, <2>2 DEF Awaited
    <3>2. \A i \in DOMAIN up'[w] : up'[w][i].kind # "request"
      BY <1>8, <3>1 DEF Joined
    <3>3. RequestsLast(w)'
      BY <3>2 DEF RequestsLast
    <3>4. Shown(down[w], view'[w]) = Shown(down[w], view[w]) \cup {k}
      BY <1>3, <3>1, ShownEdit
    <3>5. Travelling(w)' = Travelling(w) \cup {k}
      BY <1>8 DEF Travelling, Joined
    <3>6. ~Requested(w) /\ Content' = Content
      BY <1>2, <3>1 DEF Requested, Content
    <3>7. ShowsAll(w)'
      <4>1. ShowsAll(w)
        BY <1>6, <1>8, <3>1 DEF WindowSound
      <4> HIDE DEF Content
      <4> QED
        BY <1>2, <3>4, <3>5, <3>6, <4>1 DEF ShowsAll
    <3> QED
      BY <3>3, <3>7
  <2> QED
    BY <2>1, <2>2 DEF WindowSound
<1>9. WindowSound(w)'
  BY <1>1, <1>2, <1>7, <1>8, SendFresh
<1> QED
  BY <1>5, <1>9 DEF WindowInv

(* A window that asks for the content shows it once it is there.              *)
LEMMA RequestWindow ==
  ASSUME SyncInv, WindowInv, NEW w \in Windows, RequestSync(w),
         UNCHANGED <<log, deleted, socket, down, raced>>
  PROVE  WindowSound(w)' /\ \A d \in Clients \ {w} : up'[d] = up[d]
<1> DEFINE m == [kind |-> "request"]
<1>1. /\ m \in Messages /\ m.kind = "request" /\ w \in Clients
      /\ up \in [Clients -> Seq(Messages)]
      /\ up' = IF socket[w] = "open" THEN [up EXCEPT ![w] = Append(up[w], m)] ELSE up
      /\ WindowSound(w)
  BY AClient DEF Messages, Requests, RequestSync, SyncInv, Typed, WindowInv
<1> HIDE DEF m
<1>2. CASE socket[w] # "open"
  BY <1>1, <1>2 DEF WindowSound, Unbased
<1>3. CASE socket[w] = "open"
  <2>1. up'[w] = Append(up[w], m) /\ \A d \in Clients \ {w} : up'[d] = up[d]
    BY <1>1, <1>3
  <2>2. /\ Len(up[w]) \in Nat /\ DOMAIN up[w] = 1 .. Len(up[w])
        /\ DOMAIN up'[w] = 1 .. Len(up[w]) + 1
        /\ \A i \in DOMAIN up[w] : up'[w][i] = up[w][i]
        /\ up'[w][Len(up[w]) + 1] = m
    BY <1>1, <2>1, Appended
  <2>3. Unbased(w)' /\ Requested(w)'
    BY <1>1, <2>2 DEF WindowSound, Unbased, Requested
  <2>4. ~raced[w] => RequestsLast(w)'
    BY <1>1, <1>3, <2>2 DEF WindowSound, RequestsLast
  <2> QED
    BY <2>1, <2>3, <2>4 DEF WindowSound, ShowsAll
<1> QED
  BY <1>2, <1>3

LEMMA OtherWindows ==
  ASSUME SyncInv, SyncInv', WindowInv, NEW w \in Windows,
         EditPaused(w) \/ Resync(w) \/ Pause(w) \/ Resume(w)
  PROVE  WindowInv'
<1>1. /\ UNCHANGED <<log, deleted, socket, down, raced>>
      /\ \A v \in Windows \ {w} : view'[v] = view[v] /\ paused'[v] = paused[v]
  BY DEF EditPaused, Resync, Pause, Resume, server, net, window, SyncInv, Typed
<1>2. CASE RequestSync(w)
  <2>1. WindowSound(w)' /\ \A d \in Clients \ {w} : up'[d] = up[d]
    BY <1>1, <1>2, RequestWindow
  <2>2. ASSUME NEW v \in Windows, v # w PROVE WindowSound(v)'
    BY <1>1, <2>1, <2>2, WindowStill, AClient DEF WindowInv
  <2> QED
    BY <2>1, <2>2 DEF WindowInv
<1>3. CASE up' = up /\ paused'[w]
  <2>1. WindowSound(w)'
    BY <1>1, <1>3 DEF WindowInv, WindowSound, Unbased, RequestsLast, ShowsAll
  <2>2. ASSUME NEW v \in Windows, v # w PROVE WindowSound(v)'
    BY <1>1, <1>3, <2>2, WindowStill DEF WindowInv
  <2> QED
    BY <2>1, <2>2 DEF WindowInv
<1>4. CASE EditPaused(w) \/ Pause(w)
  BY <1>3, <1>4 DEF EditPaused, Pause, net, SyncInv, Typed
<1> QED
  BY <1>2, <1>4 DEF Resync, Resume

(* The tools leave the windows alone.                                         *)
LEMMA ToolsWindows ==
  ASSUME SyncInv, SyncInv', WindowInv, NEW a \in Agents,
         \/ \E tool \in Tools : Start(a, tool)
         \/ Open(a) \/ ReadDocument(a) \/ SendFirst(a) \/ SendNext(a) \/ Finish(a) \/ TryAgain(a)
  PROVE  WindowInv'
<1>1. UNCHANGED <<log, deleted, view, paused, raced>>
  BY DEF Start, Open, ReadDocument, SendFirst, SendNext, Finish, TryAgain, server, window
<1>2. \A d \in Clients \ {a} : socket'[d] = socket[d] /\ up'[d] = up[d] /\ down'[d] = down[d]
  <2>1. CASE Open(a)
    BY <2>1 DEF Open, SyncInv, Typed
  <2>2. CASE SendFirst(a) \/ SendNext(a)
    <3>1. PICK k, base, after : Send(a, k, base, after)
      BY <2>2 DEF SendFirst, SendNext
    <3> QED
      BY <3>1 DEF Send, SyncInv, Typed
  <2>3. CASE Connect(a)
    BY <2>3 DEF Connect, SyncInv, Typed
  <2>4. CASE Close(a)
    BY <2>4 DEF Close, SyncInv, Typed
  <2> QED
    BY <2>1, <2>2, <2>3, <2>4 DEF Start, ReadDocument, TryAgain, Finish
<1>3. \A w \in Windows : w \in Clients \ {a}
  BY AClient, SessionAssumption
<1> QED
  BY <1>1, <1>2, <1>3, WindowStill DEF WindowInv

LEMMA WindowInit == Init => WindowInv
<1>1. SUFFICES ASSUME Init PROVE WindowInv
  OBVIOUS
<1>2. ASSUME NEW w \in Windows PROVE WindowSound(w)
  <2>1. up[w] = <<>> /\ down[w] = <<>> /\ view[w] = {} /\ w \in Clients /\ log = <<>>
    BY <1>1, AClient DEF Init
  <2>2. DOMAIN up[w] = {} /\ Content = {}
    BY <2>1 DEF Content
  <2>3. Shown(down[w], view[w]) = {}
    BY <2>1, ShownEmpty DEF Contents
  <2> QED
    BY <2>2, <2>3 DEF WindowSound, Unbased, RequestsLast, ShowsAll, Travelling
<1> QED
  BY <1>2 DEF WindowInv

LEMMA WindowStep == SyncInv /\ SyncInv' /\ WindowInv /\ [Next]_vars => WindowInv'
<1>1. SUFFICES ASSUME SyncInv, SyncInv', WindowInv, [Next]_vars PROVE WindowInv'
  OBVIOUS
<1>2. CASE UNCHANGED vars
  BY <1>1, <1>2, WindowStill DEF vars, server, net, window, WindowInv
<1>3. ASSUME NEW c \in Clients, Serve(c) PROVE WindowInv'
  BY <1>1, <1>3, ServeRequestWindows, ServeCommandWindows, RefuseWindows DEF Serve
<1>4. ASSUME NEW c \in Clients, Receive(c) \/ Lose(c) PROVE WindowInv'
  BY <1>1, <1>4, ReceiveWindows, LoseWindows
<1>5. ASSUME NEW w \in Windows, Edit(w) \/ EditPaused(w) \/ Resync(w) \/ Pause(w) \/ Resume(w)
      PROVE  WindowInv'
  BY <1>1, <1>5, EditWindows, OtherWindows
<1>6. ASSUME NEW a \in Agents,
             \/ \E tool \in Tools : Start(a, tool)
             \/ Open(a) \/ ReadDocument(a) \/ SendFirst(a) \/ SendNext(a) \/ Finish(a) \/ TryAgain(a)
      PROVE  WindowInv'
  BY <1>1, <1>6, ToolsWindows
<1> QED
  BY <1>1, <1>2, <1>3, <1>4, <1>5, <1>6, DeleteWindows DEF Next

(* When nothing is on its way a window shows what the server holds, unless it *)
(* edited while it awaited the content or was refused an edit.                *)
THEOREM WindowsShowContent == Spec => []WindowsConverge
<1>1. SyncInv /\ WindowInv => WindowsConverge
  <2>1. SUFFICES ASSUME SyncInv, WindowInv, NEW w \in Windows, socket[w] = "open",
                        up[w] = <<>>, down[w] = <<>>, ~paused[w], ~raced[w], ~deleted
                 PROVE  view[w] = Content
    BY DEF WindowsConverge
  <2>2. DOMAIN up[w] = {}
    BY <2>1
  <2>3. ShowsAll(w) /\ ~Requested(w) /\ Travelling(w) = {}
    BY <2>1, <2>2 DEF WindowInv, WindowSound, Requested, Travelling
  <2>4. Shown(down[w], view[w]) = view[w]
    BY <2>1, ShownEmpty DEF SyncInv, Typed
  <2> QED
    BY <2>1, <2>3, <2>4 DEF ShowsAll
<1>2. Spec => []WindowInv
  BY WindowInit, WindowStep, SyncAlways, PTL DEF Spec
<1> QED
  BY <1>1, <1>2, SyncAlways, PTL
-----------------------------------------------------------------------------
(* A send that waits has its answer coming.                                   *)

OnItsWay(c, k) == \E i \in DOMAIN up[c] : up[c][i].kind = "command" /\ up[c][i].edit = k

Answers(m, k) == Refusal(m) \/ (m.kind = "ack" /\ m.edit = k)

AnswerComes(c, k) == \E i \in DOMAIN down[c] : Answers(down[c][i], k)

Answerable(c) ==
  \A k \in Outstanding(c) : socket[c] = "open" /\ (OnItsWay(c, k) \/ AnswerComes(c, k))

SendsAnswerable == ~deleted => \A c \in Clients : Answerable(c)

Grows(S, s, t) == t = s \/ \E m \in S : t = Append(s, m)

(* Nothing is lost from a queue that grows, and only the first message from   *)
(* one that is taken from.                                                    *)
LEMMA GrowsKeeps ==
  ASSUME NEW S, NEW s \in Seq(S), NEW t, Grows(S, s, t)
  PROVE  \A i \in DOMAIN s : i \in DOMAIN t /\ t[i] = s[i]
<1>1. ASSUME NEW m \in S, t = Append(s, m)
      PROVE  \A i \in DOMAIN s : i \in DOMAIN t /\ t[i] = s[i]
  <2>1. /\ Len(s) \in Nat /\ DOMAIN s = 1 .. Len(s) /\ DOMAIN t = 1 .. Len(s) + 1
        /\ \A i \in DOMAIN s : t[i] = s[i]
    BY <1>1, Appended
  <2> QED
    BY <2>1
<1> QED
  BY <1>1 DEF Grows

LEMMA TailKeeps ==
  ASSUME NEW S, NEW s \in Seq(S), s # <<>>, NEW i \in DOMAIN s, i # 1
  PROVE  i - 1 \in DOMAIN Tail(s) /\ Tail(s)[i - 1] = s[i]
<1>1. /\ DOMAIN s = 1 .. Len(s) /\ Len(s) \in Nat \ {0}
      /\ DOMAIN Tail(s) = 1 .. Len(s) - 1
      /\ \A j \in 1 .. Len(s) - 1 : Tail(s)[j] = s[j + 1]
  OBVIOUS
<1>2. i \in 2 .. Len(s) /\ i - 1 \in 1 .. Len(s) - 1 /\ (i - 1) + 1 = i
  BY <1>1
<1> QED
  BY <1>1, <1>2

(* A client that no message is taken from or received by.                     *)
LEMMA StillAnswerable ==
  ASSUME SyncInv, NEW c \in Clients, Answerable(c), socket'[c] = socket[c],
         Grows(Messages, up[c], up'[c]), Grows(Replies, down[c], down'[c]),
         Outstanding(c)' \subseteq Outstanding(c)
  PROVE  Answerable(c)'
<1>1. up[c] \in Seq(Messages) /\ down[c] \in Seq(Replies)
  BY DEF SyncInv, Typed
<1>2. \A i \in DOMAIN up[c] : i \in DOMAIN up'[c] /\ up'[c][i] = up[c][i]
  BY <1>1, GrowsKeeps
<1>3. \A i \in DOMAIN down[c] : i \in DOMAIN down'[c] /\ down'[c][i] = down[c][i]
  BY <1>1, GrowsKeeps
<1> QED
  BY <1>2, <1>3 DEF Answerable, OnItsWay, AnswerComes

(* The client whose message the server takes and answers.                     *)
LEMMA ServedAnswerable ==
  ASSUME SyncInv, NEW c \in Clients, Answerable(c), NEW kind, Take(c, kind),
         NEW m \in Replies, down'[c] = Append(down[c], m),
         kind = "command" => Answers(m, Head(up[c]).edit)
  PROVE  Answerable(c)'
<1>1. /\ up[c] \in Seq(Messages) /\ down[c] \in Seq(Replies) /\ up[c] # <<>>
      /\ Head(up[c]).kind = kind /\ up'[c] = Tail(up[c])
      /\ socket' = socket /\ UNCHANGED <<by, status>>
  BY TakeTyped DEF SyncInv, Typed, Take
<1>2. \A i \in DOMAIN down[c] : i \in DOMAIN down'[c] /\ down'[c][i] = down[c][i]
  BY <1>1, GrowsKeeps DEF Grows
<1>3. \E i \in DOMAIN down'[c] : down'[c][i] = m
  <2>1. /\ Len(down[c]) \in Nat /\ DOMAIN down'[c] = 1 .. Len(down[c]) + 1
        /\ down'[c][Len(down[c]) + 1] = m
    BY <1>1, Appended
  <2> QED
    BY <2>1
<1>4. SUFFICES ASSUME NEW k \in Outstanding(c)
               PROVE  socket[c] = "open" /\ (OnItsWay(c, k)' \/ AnswerComes(c, k)')
  BY <1>1 DEF Answerable, Outstanding
<1>5. socket[c] = "open" /\ (OnItsWay(c, k) \/ AnswerComes(c, k))
  BY DEF Answerable
<1>6. CASE AnswerComes(c, k)
  BY <1>2, <1>5, <1>6 DEF AnswerComes
<1>7. CASE OnItsWay(c, k)
  <2>1. PICK i \in DOMAIN up[c] : up[c][i].kind = "command" /\ up[c][i].edit = k
    BY <1>7 DEF OnItsWay
  <2>2. CASE i # 1
    <3>1. i - 1 \in DOMAIN Tail(up[c]) /\ Tail(up[c])[i - 1] = up[c][i]
      BY <1>1, <2>2, TailKeeps
    <3>2. i - 1 \in DOMAIN up'[c] /\ up'[c][i - 1] = up[c][i]
      BY <1>1, <3>1
    <3> QED
      BY <1>5, <2>1, <3>2 DEF OnItsWay
  <2>3. CASE i = 1
    <3>1. Head(up[c]) = up[c][1]
      BY <1>1, Shortened
    <3>2. Answers(m, k)
      BY <1>1, <2>1, <2>3, <3>1
    <3> QED
      BY <1>3, <1>5, <3>2 DEF AnswerComes
  <2> QED
    BY <2>2, <2>3
<1> QED
  BY <1>5, <1>6, <1>7

(* The client that receives a message.                                        *)
LEMMA ReceiverAnswerable ==
  ASSUME SyncInv, NEW c \in Clients, Answerable(c), Receive(c)
  PROVE  Answerable(c)'
<1> DEFINE m == Head(down[c])
<1>1. /\ down[c] \in Seq(Replies) /\ down[c] # <<>> /\ status \in [Commands -> Statuses]
      /\ down'[c] = Tail(down[c]) /\ UNCHANGED <<socket, up, by>>
  BY DEF Receive, SyncInv, Typed
<1>2. m = down[c][1]
  BY <1>1, Shortened
<1>3. \A k \in Outstanding(c)' : k \in Outstanding(c) /\ ~Answers(m, k)
  <2>1. CASE m.kind = "ack" /\ m.edit \in Outstanding(c)
    <3>1. status' = [status EXCEPT ![m.edit] = "acked"]
      BY <2>1 DEF Receive
    <3> QED
      BY <1>1, <2>1, <3>1 DEF Outstanding, Answers, Refusal
  <2>2. CASE m.kind \in {"stale", "error"}
    <3>1. DrainPendingAcks(c, IF m.kind = "stale" THEN "stale" ELSE "refused")
      BY <2>2 DEF Receive
    <3> QED
      BY <1>1, <3>1 DEF DrainPendingAcks, Outstanding
  <2>3. CASE m.kind \notin {"stale", "error"} /\ ~(m.kind = "ack" /\ m.edit \in Outstanding(c))
    <3>1. status' = status
      BY <2>3 DEF Receive
    <3> QED
      BY <1>1, <2>3, <3>1 DEF Outstanding, Answers, Refusal
  <2> QED
    BY <2>1, <2>2, <2>3
<1> HIDE DEF m
<1>4. SUFFICES ASSUME NEW k \in Outstanding(c)'
               PROVE  socket[c] = "open" /\ (OnItsWay(c, k) \/ AnswerComes(c, k)')
  BY <1>1 DEF Answerable, OnItsWay
<1>5. socket[c] = "open" /\ (OnItsWay(c, k) \/ AnswerComes(c, k)) /\ ~Answers(m, k)
  BY <1>3 DEF Answerable
<1>6. ASSUME AnswerComes(c, k) PROVE AnswerComes(c, k)'
  <2>1. PICK i \in DOMAIN down[c] : Answers(down[c][i], k)
    BY <1>6 DEF AnswerComes
  <2>2. i # 1
    BY <1>2, <1>5, <2>1
  <2> QED
    BY <1>1, <2>1, <2>2, TailKeeps DEF AnswerComes
<1> QED
  BY <1>5, <1>6

LEMMA SenderAnswerable ==
  ASSUME SyncInv, NEW c \in Clients, Answerable(c), NEW k \in Commands,
         NEW base \in Nat \cup {None}, NEW after \in {0} \cup Commands,
         Send(c, k, base, after)
  PROVE  Answerable(c)'
<1>1. /\ by'[k] = c
      /\ \A q \in Commands \ {k} : by'[q] = by[q] /\ status'[q] = status[q]
      /\ \/ up'[c] = up[c] /\ status'[k] = "lost"
         \/ Joined(up[c], up'[c], k, base) /\ status'[k] = "waiting" /\ socket[c] = "open"
  BY SendFresh
<1>2. UNCHANGED <<socket, down>>
  BY DEF Send
<1>3. CASE up'[c] = up[c] /\ status'[k] = "lost"
  <2>1. Outstanding(c)' \subseteq Outstanding(c)
    BY <1>1, <1>3 DEF Outstanding
  <2> QED
    BY <1>2, <1>3, <2>1, StillAnswerable DEF Grows
<1>4. CASE Joined(up[c], up'[c], k, base) /\ status'[k] = "waiting" /\ socket[c] = "open"
  <2>1. OnItsWay(c, k)'
    BY <1>4 DEF OnItsWay, Joined
  <2>2. \A q \in Outstanding(c)' : q = k \/ q \in Outstanding(c)
    BY <1>1 DEF Outstanding
  <2>3. \A q \in Commands : OnItsWay(c, q) => OnItsWay(c, q)'
    BY <1>4 DEF OnItsWay, Joined
  <2>4. \A q \in Outstanding(c) : q \in Commands /\ (OnItsWay(c, q) \/ AnswerComes(c, q))
    BY DEF Answerable, Outstanding
  <2> QED
    BY <1>2, <1>4, <2>1, <2>2, <2>3, <2>4 DEF Answerable, AnswerComes
<1> QED
  BY <1>1, <1>3, <1>4

LEMMA ServeAnswerable ==
  ASSUME SyncInv, SendsAnswerable, NEW c \in Clients, Serve(c)
  PROVE  SendsAnswerable'
<1>1. SUFFICES ASSUME ~deleted, ~DropCommand(c) PROVE \A d \in Clients : Answerable(d)'
  BY TakeTyped DEF SendsAnswerable, DropCommand, Serve, ServeRequest, ServeCommand, RefuseStale, FaultyCommand
<1>2. \A d \in Clients : Answerable(d)
  BY <1>1 DEF SendsAnswerable
<1>3. ASSUME NEW kind, Take(c, kind), NEW d \in Clients \ {c}, Grows(Replies, down[d], down'[d])
      PROVE  Answerable(d)'
  <2>1. up'[d] = up[d] /\ UNCHANGED <<socket, by, status>>
    BY <1>3, TakeTyped
  <2>2. Outstanding(d)' = Outstanding(d)
    BY <2>1 DEF Outstanding
  <2> QED
    BY <1>2, <1>3, <2>1, <2>2, StillAnswerable DEF Grows
<1>4. ASSUME NEW kind, Take(c, kind), NEW m \in Replies, Reply(c, m),
             kind = "command" => Refusal(m)
      PROVE  \A d \in Clients : Answerable(d)'
  <2>1. down'[c] = Append(down[c], m) /\ \A d \in Clients \ {c} : down'[d] = down[d]
    BY <1>4, ReplyQueues
  <2>2. Answerable(c)'
    BY <1>2, <1>4, <2>1, ServedAnswerable DEF Answers
  <2>3. \A d \in Clients \ {c} : Grows(Replies, down[d], down'[d])
    BY <2>1 DEF Grows
  <2> QED
    BY <1>3, <1>4, <2>2, <2>3
<1>5. CASE ServeRequest(c)
  <2>1. /\ Take(c, "request")
        /\ Reply(c, [kind |-> "snapshot", number |-> seq, content |-> Content])
    BY <1>1, <1>5 DEF ServeRequest
  <2>2. [kind |-> "snapshot", number |-> seq, content |-> Content] \in Replies
    BY RepliesTyped, ContentTyped DEF SyncInv, Typed
  <2> QED
    BY <1>4, <2>1, <2>2
<1>6. CASE RefuseStale(c)
  <2>1. Take(c, "command") /\ Reply(c, [kind |-> "stale"]) /\ Refusal([kind |-> "stale"])
    BY <1>6 DEF RefuseStale, Refusal
  <2> QED
    BY <1>4, <2>1, RepliesTyped
<1>7. CASE FaultyCommand(c)
  <2>1. Take(c, "command") /\ Reply(c, [kind |-> "error"]) /\ Refusal([kind |-> "error"])
    BY <1>7 DEF FaultyCommand, Refusal
  <2> QED
    BY <1>4, <2>1, RepliesTyped
<1>8. CASE ServeCommand(c)
  <2> DEFINE k == Head(up[c]).edit
             n == seq + 1
             a == [kind |-> "ack", number |-> n, edit |-> k]
             b == [kind |-> "command", number |-> n, edit |-> k]
  <2>1. Take(c, "command") /\ Spread(c, k, n)
    BY <1>8 DEF ServeCommand
  <2>2. k \in Commands /\ n \in Nat
    BY <2>1, Taken DEF SyncInv, Typed
  <2>3. a \in Replies /\ b \in Replies /\ a.kind = "ack" /\ a.edit = k
    BY <2>2, RepliesTyped
  <2>4. /\ down'[c] = Append(down[c], a)
        /\ \A d \in Clients \ {c} : down'[d] = down[d] \/ down'[d] = Append(down[d], b)
    BY <2>1 DEF Spread
  <2> HIDE DEF a, b
  <2>5. Answerable(c)'
    BY <1>2, <2>1, <2>3, <2>4, ServedAnswerable DEF Answers
  <2>6. \A d \in Clients \ {c} : Grows(Replies, down[d], down'[d])
    BY <2>3, <2>4 DEF Grows
  <2> QED
    BY <1>3, <2>1, <2>5, <2>6
<1> QED
  BY <1>1, <1>5, <1>6, <1>7, <1>8 DEF Serve

(* The steps of one client that touch nothing of the others.                  *)
LEMMA OneAnswerable ==
  ASSUME SyncInv, SendsAnswerable, deleted' = deleted, NEW c \in Clients,
         Answerable(c) => Answerable(c)',
         \A d \in Clients \ {c} : /\ socket'[d] = socket[d] /\ up'[d] = up[d] /\ down'[d] = down[d]
                                  /\ Outstanding(d)' \subseteq Outstanding(d)
  PROVE  SendsAnswerable'
<1>1. SUFFICES ASSUME ~deleted, NEW d \in Clients PROVE Answerable(d)'
  BY DEF SendsAnswerable
<1>2. Answerable(d)
  BY <1>1 DEF SendsAnswerable
<1> QED
  BY <1>2, StillAnswerable DEF Grows

LEMMA ReceiveAnswerable ==
  ASSUME SyncInv, SendsAnswerable, NEW c \in Clients, Receive(c)
  PROVE  SendsAnswerable'
<1>1. /\ UNCHANGED <<deleted, socket, up, by>> /\ \A d \in Clients \ {c} : down'[d] = down[d]
  BY DEF Receive, server, SyncInv, Typed
<1>2. \A k \in Commands : status'[k] = "waiting" => status[k] = "waiting"
  <2>1. status \in [Commands -> Statuses]
    BY DEF SyncInv, Typed
  <2>2. \/ \E k \in Commands : status' = [status EXCEPT ![k] = "acked"]
        \/ \E outcome \in {"stale", "refused"} : DrainPendingAcks(c, outcome)
        \/ status' = status
    BY ReceiveCalls
  <2> QED
    BY <2>1, <2>2 DEF DrainPendingAcks
<1>3. \A d \in Clients : Outstanding(d)' \subseteq Outstanding(d)
  BY <1>1, <1>2 DEF Outstanding
<1> QED
  BY <1>1, <1>3, ReceiverAnswerable, OneAnswerable

LEMMA SentAnswerable ==
  ASSUME SyncInv, SendsAnswerable, deleted' = deleted, NEW c \in Clients, NEW k \in Commands,
         NEW base \in Nat \cup {None}, NEW after \in {0} \cup Commands,
         Send(c, k, base, after)
  PROVE  SendsAnswerable'
<1>1. /\ by'[k] = c
      /\ \A q \in Commands \ {k} : by'[q] = by[q] /\ status'[q] = status[q]
      /\ \A d \in Clients \ {c} : up'[d] = up[d]
  BY SendFresh
<1>2. UNCHANGED <<socket, down>>
  BY DEF Send
<1>3. \A d \in Clients \ {c} : Outstanding(d)' \subseteq Outstanding(d)
  BY <1>1 DEF Outstanding
<1> QED
  BY <1>1, <1>2, <1>3, SenderAnswerable, OneAnswerable

(* A socket that opens or closes has nothing outstanding afterwards.          *)
LEMMA ClearedAnswerable ==
  ASSUME SyncInv, SendsAnswerable, deleted' = deleted, NEW c \in Clients, Outstanding(c)' = {},
         by' = by, \A k \in Commands : status'[k] = "waiting" => status[k] = "waiting",
         \A d \in Clients \ {c} : /\ socket'[d] = socket[d] /\ up'[d] = up[d] /\ down'[d] = down[d]
  PROVE  SendsAnswerable'
<1>1. \A d \in Clients : Outstanding(d)' \subseteq Outstanding(d)
  BY DEF Outstanding
<1>2. Answerable(c)'
  BY DEF Answerable
<1> QED
  BY <1>1, <1>2, OneAnswerable

LEMMA CloseAnswerable ==
  ASSUME SyncInv, SendsAnswerable, deleted' = deleted, by' = by, NEW c \in Clients, Close(c)
  PROVE  SendsAnswerable'
<1>1. /\ \A d \in Clients \ {c} : socket'[d] = socket[d] /\ up'[d] = up[d] /\ down'[d] = down[d]
      /\ status' = [k \in Commands |-> IF k \in Outstanding(c) THEN "lost" ELSE status[k]]
  BY DEF Close, DrainPendingAcks, SyncInv, Typed
<1>2. \A k \in Commands : status'[k] = "waiting" => status[k] = "waiting"
  BY <1>1
<1>3. Outstanding(c)' = {}
  BY <1>1 DEF Outstanding
<1> QED
  BY <1>1, <1>2, <1>3, ClearedAnswerable

LEMMA ToolsAnswerable ==
  ASSUME SyncInv, ToolInv, SendsAnswerable, NEW a \in Agents,
         \/ \E tool \in Tools : Start(a, tool)
         \/ Open(a) \/ ReadDocument(a) \/ SendFirst(a) \/ SendNext(a) \/ Finish(a) \/ TryAgain(a)
  PROVE  SendsAnswerable'
<1>0. a \in Clients
  BY AClient
<1>1. CASE (\E tool \in Tools : Start(a, tool)) \/ ReadDocument(a) \/ TryAgain(a)
  <2>1. Connect(a) /\ UNCHANGED <<deleted, by, status>>
    BY <1>1 DEF Start, ReadDocument, TryAgain, server, calls
  <2>2. task[a].step # "waiting" \/ status[task[a].last] # "waiting"
    BY <1>1 DEF Start, ReadDocument, TryAgain, TriesAgain
  <2>3. Outstanding(a) = {}
    BY <2>2, NothingOutstanding
  <2>4. \A d \in Clients \ {a} : socket'[d] = socket[d] /\ up'[d] = up[d] /\ down'[d] = down[d]
    BY <2>1 DEF Connect, SyncInv, Typed
  <2>5. Outstanding(a)' = {}
    BY <2>1, <2>3 DEF Outstanding
  <2> QED
    BY <1>0, <2>1, <2>4, <2>5, ClearedAnswerable
<1>2. CASE Open(a)
  <2>1. Outstanding(a) = {}
    BY <1>2, NothingOutstanding DEF Open
  <2>2. /\ UNCHANGED <<deleted, by, status, down>>
        /\ \A d \in Clients \ {a} : socket'[d] = socket[d] /\ up'[d] = up[d]
    BY <1>2 DEF Open, server, calls, SyncInv, Typed
  <2>3. Outstanding(a)' = {}
    BY <2>1, <2>2 DEF Outstanding
  <2> QED
    BY <1>0, <2>2, <2>3, ClearedAnswerable
<1>3. CASE Finish(a)
  BY <1>0, <1>3, CloseAnswerable DEF Finish, server
<1>4. ASSUME NEW k \in Commands, NEW base \in Nat \cup {None}, NEW after \in {0} \cup Commands,
             Send(a, k, base, after), deleted' = deleted
      PROVE  SendsAnswerable'
  BY <1>0, <1>4, SentAnswerable
<1>5. CASE SendFirst(a)
  <2>1. known[a] \in Nat /\ deleted' = deleted
    BY <1>0, <1>5 DEF SyncInv, Typed, SendFirst, server
  <2> QED
    BY <1>4, <1>5, <2>1 DEF SendFirst
<1>6. CASE SendNext(a)
  <2>1. task[a].last \in Commands
    <3>1. task[a] \in TasksUnderWay /\ task[a].step = "waiting"
      BY <1>6 DEF SendNext, SyncInv, Typed
    <3> QED
      BY <3>1 DEF TasksUnderWay, Tasks
  <2>2. answers[task[a].last] \in Nat /\ deleted' = deleted
    <3>1. answers[task[a].last] \in {0} \cup Numbers
      BY <2>1 DEF SyncInv, Typed
    <3> QED
      BY <1>6, <3>1 DEF Numbers, SendNext, server
  <2>3. PICK k \in Commands : Send(a, k, answers[task[a].last], task[a].last)
    BY <1>6 DEF SendNext
  <2> QED
    BY <1>4, <2>1, <2>2, <2>3
<1> QED
  BY <1>1, <1>2, <1>3, <1>5, <1>6

LEMMA WindowAnswerable ==
  ASSUME SyncInv, SendsAnswerable, NEW w \in Windows,
         Edit(w) \/ EditPaused(w) \/ Resync(w) \/ Pause(w) \/ Resume(w)
  PROVE  SendsAnswerable'
<1>0. w \in Clients
  BY AClient
<1>1. CASE Edit(w)
  <2>1. PICK k \in Commands : Send(w, k, None, 0)
    BY <1>1 DEF Edit
  <2>2. deleted' = deleted
    BY <1>1 DEF Edit, server
  <2> QED
    BY <1>0, <2>1, <2>2, SentAnswerable
<1>2. CASE EditPaused(w) \/ Resync(w) \/ Pause(w) \/ Resume(w)
  <2>1. UNCHANGED <<deleted, by, status, down, socket>>
    BY <1>2 DEF EditPaused, Resync, Pause, Resume, server, net, calls
  <2>2. up' = up \/ up' = [up EXCEPT ![w] = Append(up[w], [kind |-> "request"])]
    BY <1>2 DEF EditPaused, Resync, Pause, Resume, RequestSync, net
  <2>3. /\ Grows(Messages, up[w], up'[w])
        /\ \A d \in Clients \ {w} : up'[d] = up[d]
    BY <1>0, <2>2 DEF Grows, Messages, Requests, SyncInv, Typed
  <2>4. \A d \in Clients : Outstanding(d)' = Outstanding(d)
    BY <2>1 DEF Outstanding
  <2>5. Answerable(w) => Answerable(w)'
    BY <1>0, <2>1, <2>3, <2>4, StillAnswerable DEF Grows
  <2> QED
    BY <1>0, <2>1, <2>3, <2>4, <2>5, OneAnswerable
<1> QED
  BY <1>1, <1>2

LEMMA AnswerableStep ==
  SyncInv /\ ToolInv /\ SendsAnswerable /\ [Next]_vars => SendsAnswerable'
<1>1. SUFFICES ASSUME SyncInv, ToolInv, SendsAnswerable, [Next]_vars PROVE SendsAnswerable'
  OBVIOUS
<1>2. CASE UNCHANGED vars
  BY <1>1, <1>2 DEF vars, server, net, calls, SendsAnswerable, Answerable, OnItsWay, AnswerComes, Outstanding
<1>3. CASE DeleteInstance
  BY <1>3 DEF DeleteInstance, SendsAnswerable
<1>4. ASSUME NEW c \in Clients, Serve(c) \/ Receive(c) \/ Lose(c) PROVE SendsAnswerable'
  <2>1. CASE Lose(c)
    BY <1>1, <2>1, CloseAnswerable DEF Lose, server
  <2> QED
    BY <1>1, <1>4, <2>1, ServeAnswerable, ReceiveAnswerable
<1>5. ASSUME NEW w \in Windows, Edit(w) \/ EditPaused(w) \/ Resync(w) \/ Pause(w) \/ Resume(w)
      PROVE  SendsAnswerable'
  BY <1>1, <1>5, WindowAnswerable
<1>6. ASSUME NEW a \in Agents,
             \/ \E tool \in Tools : Start(a, tool)
             \/ Open(a) \/ ReadDocument(a) \/ SendFirst(a) \/ SendNext(a) \/ Finish(a) \/ TryAgain(a)
      PROVE  SendsAnswerable'
  BY <1>1, <1>6, ToolsAnswerable
<1> QED
  BY <1>1, <1>2, <1>3, <1>4, <1>5, <1>6 DEF Next

(* While the instance is there, the command of every send that waits, or its  *)
(* answer, is on its way on a socket that is open, whatever was lost, refused *)
(* or deleted: together with the fairness of delivery this is why no send     *)
(* waits for ever.                                                            *)
THEOREM WaitingSendsAreAnswerable == Spec => []SendsAnswerable
<1>1. Init => SendsAnswerable
  BY DEF Init, SendsAnswerable, Answerable, Outstanding
<1>2. Spec => []ToolInv
  BY ToolInit, ToolStep, SyncAlways, PTL DEF Spec
<1> QED
  BY <1>1, <1>2, AnswerableStep, SyncAlways, PTL DEF Spec

=============================================================================
