---------------------------- MODULE SyncSession ----------------------------
(***************************************************************************)
(* The clients of one instance and ws-server: SyncClient over its socket,  *)
(* the windows that show the instance (useSyncSession with the editor's    *)
(* and the canvas's plug-in), and the agent's tools that change it         *)
(* (manageDocument, manageGraph, editDocument, leaveComment).              *)
(*                                                                         *)
(* A command is a number; the content of the instance is the set of those  *)
(* applied.  A socket is a queue of messages each way; it opens and closes *)
(* once, as every tool call and every mounted window makes a new client.   *)
(* The instance is in the server's memory (DocumentCache is about when it  *)
(* is not), until it is deleted.                                           *)
(*                                                                         *)
(* Bounds: MaxCommands commands, MaxBatch commands in the batch of a tool, *)
(* MaxTries attempts of leaveComment, MaxMishaps commands that throw,      *)
(* sockets that are lost and deletions, MaxSyncs times a window asks for   *)
(* the content.                                                            *)
(***************************************************************************)
EXTENDS Naturals, Sequences

CONSTANTS Windows, Agents,
          MaxCommands, MaxBatch, MaxTries, MaxMishaps, MaxSyncs,
          None         (* no baseVersion, no buffered snapshot, nobody      *)

Clients  == Windows \cup Agents
Commands == 1 .. MaxCommands
Numbers  == 1 .. MaxCommands + MaxMishaps

ASSUME SessionAssumption ==
  /\ Windows \cap Agents = {}
  /\ MaxCommands \in Nat /\ MaxBatch \in Nat \ {0} /\ MaxTries \in Nat
  /\ MaxMishaps \in Nat /\ MaxSyncs \in Nat
  /\ None \notin Clients \cup Nat

VARIABLES
  log,        (* commands applied, with number, author and forerunner       *)
  seq,        (* commandSequences.get(id)                                   *)
  deleted,    (* the instance was deleted                                   *)
  socket,     (* each client's socket                                       *)
  up, down,   (* messages on their way to the server and back               *)
  ready,      (* what became of readyPromise                                *)
  known,      (* serverVersion                                              *)
  made,       (* history: number of commands so far                         *)
  by,         (* history: who sent each command                             *)
  status,     (* what became of each send                                   *)
  answers,    (* the number each send resolved with                         *)
  task,       (* the tool call of each agent                                *)
  view,       (* the content each window shows                              *)
  paused,     (* isPausedRef                                                *)
  buffer,     (* pendingSnapshotRef                                         *)
  raced,      (* history: the window edited while it awaited a snapshot, or *)
              (*   an edit of its was refused                               *)
  mishaps,    (* history: commands that threw, sockets lost, deletions      *)
  syncs       (* history: times a window asked for the content              *)

server == <<log, seq, deleted>>
net    == <<socket, up, down>>
client == <<ready, known>>
calls  == <<made, by, status, answers>>
window == <<view, paused, buffer, raced>>
vars == <<server, net, client, calls, task, window, mishaps, syncs>>

Sockets  == {"none", "connecting", "open", "closed"}
Statuses == {"unsent", "waiting", "acked", "stale", "refused", "lost"}
Tools    == {"write", "patch", "comment"}
Steps    == {"idle", "reading", "opening", "waiting", "done"}
Contents == SUBSET Commands
Tasks    == [tool : Tools, step : Steps, last : {0} \cup Commands,
             sent : 0 .. MaxBatch, tries : 0 .. MaxTries]
Requests == [kind : {"request"}]
Sends    == [kind : {"command"}, edit : Commands, base : Nat \cup {None}, after : {0} \cup Commands]
Replies  == [kind : {"snapshot"}, number : Nat, content : Contents]
       \cup [kind : {"command"}, number : Nat, edit : Commands]
       \cup [kind : {"ack"}, number : Nat, edit : Commands]
       \cup [kind : {"stale", "error"}]
Entries  == [edit : Commands, number : Numbers, after : {0} \cup Commands]

SyncTypeOK ==
  /\ log \in Seq(Entries)
  /\ seq \in {0} \cup Numbers
  /\ deleted \in BOOLEAN
  /\ socket \in [Clients -> Sockets]
  /\ up \in [Clients -> Seq(Requests \cup Sends)]
  /\ down \in [Clients -> Seq(Replies)]
  /\ ready \in [Clients -> {"pending", "ready", "failed"}]
  /\ known \in [Clients -> Nat]
  /\ made \in 0 .. MaxCommands
  /\ by \in [Commands -> Clients \cup {None}]
  /\ status \in [Commands -> Statuses]
  /\ answers \in [Commands -> {0} \cup Numbers]
  /\ task \in [Agents -> Tasks]
  /\ view \in [Windows -> Contents]
  /\ paused \in [Windows -> BOOLEAN]
  /\ buffer \in [Windows -> Contents \cup {{0}}]
  /\ raced \in [Windows -> BOOLEAN]
  /\ mishaps \in 0 .. MaxMishaps
  /\ syncs \in 0 .. MaxSyncs

NoBuffer == {0}
Content  == {log[i].edit : i \in DOMAIN log}
NoTask   == [tool |-> "write", step |-> "idle", last |-> 0,
             sent |-> 0, tries |-> 0]

(* The windows show the instance, the agents have done nothing yet.        *)
Init ==
  /\ log = <<>> /\ seq = 0 /\ deleted = FALSE
  /\ socket = [c \in Clients |-> IF c \in Windows THEN "open" ELSE "none"]
  /\ up = [c \in Clients |-> <<>>] /\ down = [c \in Clients |-> <<>>]
  /\ ready = [c \in Clients |-> IF c \in Windows THEN "ready" ELSE "pending"]
  /\ known = [c \in Clients |-> 0]
  /\ made = 0
  /\ by = [k \in Commands |-> None]
  /\ status = [k \in Commands |-> "unsent"]
  /\ answers = [k \in Commands |-> 0]
  /\ task = [a \in Agents |-> NoTask]
  /\ view = [w \in Windows |-> {}]
  /\ paused = [w \in Windows |-> FALSE]
  /\ buffer = [w \in Windows |-> NoBuffer]
  /\ raced = [w \in Windows |-> FALSE]
  /\ mishaps = 0 /\ syncs = 0

-----------------------------------------------------------------------------
(* ws-server: the next message of a client is handled to its end.          *)

Reply(c, message) == down' = [down EXCEPT ![c] = Append(@, message)]

(* Mutant of Spread: the answer carries the version from before the        *)
(* command.                                                                *)
SpreadOldNumber(c, k, n) ==
  down' = [d \in Clients |->
    IF d = c THEN Append(down[d], [kind |-> "ack", number |-> seq, edit |-> k])
    ELSE IF socket[d] = "open"
         THEN Append(down[d], [kind |-> "command", number |-> n, edit |-> k])
         ELSE down[d]]

(* The answer to the sender and the broadcast to the others in the channel.*)
Spread(c, k, n) ==
  down' = [d \in Clients |->
    IF d = c THEN Append(down[d], [kind |-> "ack", number |-> n, edit |-> k])
    ELSE IF socket[d] = "open"
         THEN Append(down[d], [kind |-> "command", number |-> n, edit |-> k])
         ELSE down[d]]

Take(c, kind) ==
  /\ socket[c] = "open" /\ up[c] # <<>> /\ Head(up[c]).kind = kind
  /\ up' = [up EXCEPT ![c] = Tail(@)]
  /\ UNCHANGED <<deleted, socket, client, calls, task, view, paused, buffer, syncs>>

ServeRequest(c) ==
  /\ Take(c, "request")
  /\ Reply(c, IF deleted THEN [kind |-> "error"]
              ELSE [kind |-> "snapshot", number |-> seq, content |-> Content])
  /\ UNCHANGED <<log, seq, raced, mishaps>>

(* Mutant of Stale: a base version that is one behind passes.              *)
StaleOffByOne(message) == message.base # None /\ message.base + 1 < seq

Stale(message) == message.base # None /\ message.base < seq

(* Its window shows an edit the server has not.                            *)
Unwanted(c) == raced' = [w \in Windows |-> raced[w] \/ w = c]

(* Mutant of ServeCommand: the command and its entry in the log are        *)
(* numbered separately.                                                    *)
ServeCommandTwiceNumbered(c) ==
  /\ Take(c, "command") /\ ~deleted /\ ~Stale(Head(up[c]))
  /\ LET message == Head(up[c]) IN
       /\ seq' = seq + 2
       /\ log' = Append(log, [edit |-> message.edit, number |-> seq + 2, after |-> message.after])
       /\ Spread(c, message.edit, seq + 2)
  /\ UNCHANGED <<raced, mishaps>>

ServeCommand(c) ==
  /\ Take(c, "command") /\ ~deleted /\ ~Stale(Head(up[c]))
  /\ LET message == Head(up[c]) IN
       /\ seq' = seq + 1
       /\ log' = Append(log, [edit |-> message.edit, number |-> seq + 1, after |-> message.after])
       /\ Spread(c, message.edit, seq + 1)
  /\ UNCHANGED <<raced, mishaps>>

RefuseStale(c) ==
  /\ Take(c, "command") /\ ~deleted /\ Stale(Head(up[c]))
  /\ Reply(c, [kind |-> "stale"])
  /\ UNCHANGED <<log, seq, raced, mishaps>>

(* The command is invalid, or applying it throws: then its number is gone. *)
FaultyCommand(c) ==
  /\ Take(c, "command") /\ ~deleted /\ mishaps < MaxMishaps
  /\ mishaps' = mishaps + 1
  /\ \/ seq' = seq
     \/ ~Stale(Head(up[c])) /\ seq' = seq + 1
  /\ Reply(c, [kind |-> "error"])
  /\ Unwanted(c)
  /\ UNCHANGED log

(* Without a document the handler returns and nothing is answered.         *)
DropCommand(c) ==
  /\ Take(c, "command") /\ deleted
  /\ Unwanted(c)
  /\ UNCHANGED <<log, seq, down, mishaps>>

(* All who show the instance are sent an empty document.                   *)
DeleteInstance ==
  /\ ~deleted /\ mishaps < MaxMishaps
  /\ deleted' = TRUE /\ mishaps' = mishaps + 1
  /\ down' = [d \in Clients |->
       IF socket[d] = "open"
       THEN Append(down[d], [kind |-> "snapshot", number |-> seq, content |-> {}])
       ELSE down[d]]
  /\ UNCHANGED <<log, seq, socket, up, client, calls, task, window, syncs>>

Serve(c) ==
  ServeRequest(c) \/ ServeCommand(c) \/ RefuseStale(c) \/ FaultyCommand(c) \/ DropCommand(c)

-----------------------------------------------------------------------------
(* SyncClient.                                                             *)

(* Mutant of Outstanding: the clients share one table of outstanding       *)
(* sends.                                                                  *)
OutstandingOfAll(c) == {k \in Commands : status[k] = "waiting" /\ c \in Clients}

Outstanding(c) == {k \in Commands : by[k] = c /\ status[k] = "waiting"}

DrainPendingAcks(c, outcome) ==
  status' = [k \in Commands |-> IF k \in Outstanding(c) THEN outcome ELSE status[k]]

(* send: a socket that is not open rejects at once.                        *)
Send(c, k, base, after) ==
  /\ made < MaxCommands /\ k = made + 1
  /\ made' = k
  /\ by' = [by EXCEPT ![k] = c]
  /\ \/ /\ socket[c] = "open"
        /\ status' = [status EXCEPT ![k] = "waiting"]
        /\ up' = [up EXCEPT ![c] =
             Append(@, [kind |-> "command", edit |-> k, base |-> base, after |-> after])]
     \/ /\ socket[c] # "open"
        /\ status' = [status EXCEPT ![k] = "lost"]
        /\ UNCHANGED up
  /\ UNCHANGED <<answers, socket, down>>

(* handleMessage; what a window does with the message besides.             *)
Receive(c) ==
  /\ socket[c] = "open" /\ down[c] # <<>>
  /\ down' = [down EXCEPT ![c] = Tail(@)]
  /\ LET m == Head(down[c]) IN
       /\ known' = IF m.kind \in {"snapshot", "command", "ack"}
                   THEN [known EXCEPT ![c] = m.number] ELSE known
       /\ ready' = IF ready[c] # "pending" THEN ready
                   ELSE IF m.kind = "snapshot" THEN [ready EXCEPT ![c] = "ready"]
                   ELSE IF m.kind \in {"stale", "error"} THEN [ready EXCEPT ![c] = "failed"]
                   ELSE ready
       /\ CASE m.kind = "ack" /\ m.edit \in Outstanding(c) ->
                 /\ status' = [status EXCEPT ![m.edit] = "acked"]
                 /\ answers' = [answers EXCEPT ![m.edit] = m.number]
            [] m.kind \in {"stale", "error"} ->
                 /\ DrainPendingAcks(c, IF m.kind = "stale" THEN "stale" ELSE "refused")
                 /\ UNCHANGED answers
            [] OTHER -> UNCHANGED <<status, answers>>
       /\ view' = [w \in Windows |->
            IF w # c \/ paused[w] THEN view[w]
            ELSE IF m.kind = "snapshot" THEN m.content
            ELSE IF m.kind = "command" THEN view[w] \cup {m.edit}
            ELSE view[w]]
       /\ buffer' = [w \in Windows |->
            IF w = c /\ paused[w] /\ m.kind = "snapshot" THEN m.content ELSE buffer[w]]
  /\ UNCHANGED <<server, socket, up, made, by, task, paused, raced, mishaps, syncs>>

(* Mutant of Close: the sends of a closed socket are forgotten.            *)
CloseForgetting(c) ==
  /\ socket' = [socket EXCEPT ![c] = "closed"]
  /\ up' = [up EXCEPT ![c] = <<>>]
  /\ down' = [down EXCEPT ![c] = <<>>]
  /\ ready' = [ready EXCEPT ![c] = IF @ = "pending" THEN "failed" ELSE @]
  /\ UNCHANGED <<known, status>>

(* onclose: the connection is lost, with all that was on its way; a tool   *)
(* makes a new client when it connects again.                              *)
Close(c) ==
  /\ socket' = [socket EXCEPT ![c] = "closed"]
  /\ up' = [up EXCEPT ![c] = <<>>]
  /\ down' = [down EXCEPT ![c] = <<>>]
  /\ ready' = [ready EXCEPT ![c] = IF @ = "pending" THEN "failed" ELSE @]
  /\ known' = [known EXCEPT ![c] = IF c \in Agents THEN 0 ELSE @]
  /\ DrainPendingAcks(c, "lost")

Lose(c) ==
  /\ socket[c] \in {"connecting", "open"} /\ mishaps < MaxMishaps
  /\ mishaps' = mishaps + 1
  /\ Close(c)
  /\ UNCHANGED <<server, made, by, answers, task, window, syncs>>

-----------------------------------------------------------------------------
(* The windows.                                                            *)

Awaited(w) == \/ \E i \in DOMAIN up[w] : up[w][i].kind = "request"
              \/ \E i \in DOMAIN down[w] : down[w][i].kind = "snapshot"

Edit(w) ==
  /\ ~paused[w]
  /\ \E k \in Commands :
       /\ Send(w, k, None, 0)
       /\ view' = [view EXCEPT ![w] = @ \cup {k}]
  /\ raced' = [raced EXCEPT ![w] = @ \/ Awaited(w)]
  /\ UNCHANGED <<server, client, task, paused, buffer, mishaps, syncs>>

(* An edit made while paused is shown and never sent.                      *)
EditPaused(w) ==
  /\ paused[w]
  /\ made < MaxCommands
  /\ made' = made + 1
  /\ view' = [view EXCEPT ![w] = @ \cup {made + 1}]
  /\ UNCHANGED <<server, net, client, by, status, answers, task, paused, buffer, raced, mishaps, syncs>>

RequestSync(w) ==
  /\ syncs < MaxSyncs
  /\ syncs' = syncs + 1
  /\ up' = IF socket[w] = "open"
           THEN [up EXCEPT ![w] = Append(@, [kind |-> "request"])] ELSE up

Resync(w) ==
  /\ RequestSync(w)
  /\ UNCHANGED <<server, socket, down, client, calls, task, window, mishaps>>

Pause(w) ==
  /\ ~paused[w] /\ syncs < MaxSyncs
  /\ paused' = [paused EXCEPT ![w] = TRUE]
  /\ UNCHANGED <<server, net, client, calls, task, view, buffer, raced, mishaps, syncs>>

(* Mutant of Resume: a window that resumes takes the buffered snapshot for *)
(* the latest.                                                             *)
ResumeUnasked(w) ==
  /\ paused[w]
  /\ paused' = [paused EXCEPT ![w] = FALSE]
  /\ view' = [view EXCEPT ![w] = IF buffer[w] = NoBuffer THEN @ ELSE buffer[w]]
  /\ buffer' = [buffer EXCEPT ![w] = NoBuffer]
  /\ UNCHANGED <<server, net, client, calls, task, raced, mishaps, syncs>>

Resume(w) ==
  /\ paused[w]
  /\ paused' = [paused EXCEPT ![w] = FALSE]
  /\ view' = [view EXCEPT ![w] = IF buffer[w] = NoBuffer THEN @ ELSE buffer[w]]
  /\ buffer' = [buffer EXCEPT ![w] = NoBuffer]
  /\ RequestSync(w)
  /\ UNCHANGED <<server, socket, down, client, calls, task, raced, mishaps>>

-----------------------------------------------------------------------------
(* The tools.  "write" reads and sends over one client; "patch" and        *)
(* "comment" compute their commands from what another client read before.  *)

(* A new client connects.                                                  *)
Connect(a) ==
  /\ socket' = [socket EXCEPT ![a] = "connecting"]
  /\ up' = [up EXCEPT ![a] = <<>>]
  /\ down' = [down EXCEPT ![a] = <<>>]
  /\ ready' = [ready EXCEPT ![a] = "pending"]
  /\ known' = [known EXCEPT ![a] = 0]

(* leaveComment waits for those before it on the document.                 *)
Start(a, tool) ==
  /\ task[a].step = "idle"
  /\ tool = "comment" =>
       \A b \in Agents : task[b].tool = "comment" => task[b].step \in {"idle", "done"}
  /\ Connect(a)
  /\ task' = [task EXCEPT ![a].tool = tool,
                          ![a].step = IF tool = "write" THEN "opening" ELSE "reading"]
  /\ UNCHANGED <<server, calls, window, mishaps, syncs>>

(* onopen: the handshake asks for the content.                             *)
Open(a) ==
  /\ socket[a] = "connecting"
  /\ socket' = [socket EXCEPT ![a] = "open"]
  /\ up' = [up EXCEPT ![a] = <<[kind |-> "request"]>>]
  /\ UNCHANGED <<server, down, client, calls, task, window, mishaps, syncs>>

(* getDocumentPayload returns what it read, and disconnects; the tool      *)
(* computes its commands from that and connects another client.            *)
ReadDocument(a) ==
  /\ task[a].step = "reading" /\ ready[a] = "ready"
  /\ task' = [task EXCEPT ![a].step = "opening"]
  /\ Connect(a)
  /\ UNCHANGED <<server, calls, window, mishaps, syncs>>

(* The client is ready: its version is the base of the batch's first send. *)
SendFirst(a) ==
  /\ task[a].step = "opening" /\ ready[a] = "ready"
  /\ \E k \in Commands :
       /\ Send(a, k, known[a], 0)
       /\ task' = [task EXCEPT ![a].step = "waiting", ![a].last = k, ![a].sent = 1]
  /\ UNCHANGED <<server, client, window, mishaps, syncs>>

(* sendBatch goes on from the number of the last acknowledgement.          *)
SendNext(a) ==
  /\ task[a].step = "waiting" /\ status[task[a].last] = "acked"
  /\ task[a].sent < MaxBatch
  /\ \E k \in Commands :
       /\ Send(a, k, answers[task[a].last], task[a].last)
       /\ task' = [task EXCEPT ![a].last = k, ![a].sent = @ + 1]
  /\ UNCHANGED <<server, client, window, mishaps, syncs>>

TriesAgain(a) ==
  /\ task[a].tool = "comment" /\ task[a].tries < MaxTries
  /\ task[a].step = "waiting" /\ status[task[a].last] = "stale"

(* All was acknowledged, or a failed send or connection fails the tool:    *)
(* it disconnects.                                                         *)
Finish(a) ==
  /\ \/ task[a].step \in {"reading", "opening"} /\ ready[a] = "failed"
     \/ task[a].step = "waiting" /\ status[task[a].last] # "waiting" /\ ~TriesAgain(a)
  /\ task' = [task EXCEPT ![a] = [NoTask EXCEPT !.step = "done"]]
  /\ Close(a)
  /\ UNCHANGED <<server, made, by, answers, window, mishaps, syncs>>

(* leaveComment starts over when its base version was stale.               *)
TryAgain(a) ==
  /\ TriesAgain(a)
  /\ Connect(a)
  /\ task' = [task EXCEPT ![a] = [NoTask EXCEPT
       !.tool = "comment", !.step = "reading", !.tries = task[a].tries + 1]]
  /\ UNCHANGED <<server, calls, window, mishaps, syncs>>

-----------------------------------------------------------------------------
Next ==
  \/ DeleteInstance
  \/ \E c \in Clients : Serve(c) \/ Receive(c) \/ Lose(c)
  \/ \E w \in Windows : Edit(w) \/ EditPaused(w) \/ Resync(w) \/ Pause(w) \/ Resume(w)
  \/ \E a \in Agents :
       \/ \E tool \in Tools : Start(a, tool)
       \/ Open(a) \/ ReadDocument(a) \/ SendFirst(a) \/ SendNext(a)
       \/ Finish(a) \/ TryAgain(a)

Spec == Init /\ [][Next]_vars

(* Messages on a socket are delivered, and the server handles them.        *)
Fairness == \A c \in Clients : WF_vars(Serve(c)) /\ WF_vars(Receive(c))

FairSpec == Spec /\ Fairness

-----------------------------------------------------------------------------
(* The promise of send, for any number of clients: each command is applied *)
(* at most once, and a send that resolved was applied under its number.    *)
Promise == INSTANCE CommandLog WITH
  Commands <- Commands,
  Numbers  <- Numbers,
  log      <- [i \in DOMAIN log |-> [edit |-> log[i].edit, number |-> log[i].number]],
  calls    <- [k \in Commands |->
                 IF status[k] \in {"stale", "refused", "lost"} THEN "failed" ELSE status[k]],
  answers  <- answers

KeepsPromise == Promise!Spec

(* Nothing comes between the commands of one batch: each was applied right *)
(* after the one before it, whatever windows and other agents sent         *)
(* meanwhile (sendBatch carries the acknowledged number over as the base   *)
(* of the next, SyncClient.ts:424-432, and the server checks it).          *)
BatchesContiguous ==
  \A i \in DOMAIN log : log[i].after # 0 => i > 1 /\ log[i - 1].edit = log[i].after

Travelling(c) ==
  {up[c][i].edit : i \in {j \in DOMAIN up[c] : up[c][j].kind = "command"}}

(* An error reply names no command and fails every send that waits; a tool *)
(* has one at a time, so what it was refused was not applied and never     *)
(* will be (SyncClient.ts:553).                                            *)
RefusedNotApplied ==
  \A k \in Commands : status[k] \in {"stale", "refused"} /\ by[k] \in Agents =>
    k \notin Content /\ (deleted \/ \A c \in Clients : k \notin Travelling(c))

(* When nothing is on its way a window shows what the server holds, after  *)
(* any edits, pauses and resumptions, unless it edited while a snapshot    *)
(* was on its way, which then overwrites the edit on the screen alone, or  *)
(* was refused an edit (useSyncSession.ts:63-86, 133-160).                 *)
WindowsConverge ==
  \A w \in Windows :
    socket[w] = "open" /\ up[w] = <<>> /\ down[w] = <<>> /\ ~paused[w] /\ ~raced[w] /\ ~deleted
      => view[w] = Content

(* No send waits for ever: each is acknowledged, refused or lost with its  *)
(* socket.  Only the command of a deleted instance is dropped without an   *)
(* answer.                                                                 *)
SendsSettle == []<>(deleted \/ \A k \in Commands : status[k] # "waiting")
=============================================================================
