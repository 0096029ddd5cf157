---------------------------- MODULE AgentThread ----------------------------
(***************************************************************************)
(* One chat thread: the chat pane (Chat.tsx), the handlers of the main     *)
(* process that run the agent's turns (agent.ts, streaming.ts) and that    *)
(* capture and restore checkpoint bundles (checkpoints.ts,                 *)
(* CheckpointOrchestrator.ts, AgentCheckpointRegistry.ts), and what the    *)
(* file server keeps: the agent's checkpoints, the tree of messages, the   *)
(* bundles and the contents of the instances.                              *)
(*                                                                         *)
(* A turn is a number.  The agent's memory at a checkpoint, called a       *)
(* point, is the set of turns whose input it holds; an instance holds the  *)
(* turns that edited it; a message holds the messages on the way to it     *)
(* from the root.  LangGraph is external: a turn loads a checkpoint, may   *)
(* edit instances, puts one checkpoint, then produces its text.            *)
(*                                                                         *)
(* Bounds: MaxTurns turns, MaxAtOnce of them under way at once,            *)
(* MaxRestores restores, MaxMishaps restarts, failed turns and restores.   *)
(***************************************************************************)
EXTENDS Naturals, Sequences, FiniteSets

CONSTANTS Instances,
          Edits,       (* the instances that each turn's tools edit *)
          MaxTurns, MaxAtOnce, MaxRestores, MaxMishaps

ASSUME ThreadAssumption ==
  /\ MaxTurns \in Nat /\ MaxAtOnce \in Nat /\ MaxRestores \in Nat /\ MaxMishaps \in Nat
  /\ Edits \in [1 .. MaxTurns -> SUBSET Instances]

Turns   == 1 .. MaxTurns
None    == 0             (* no turn, point or bundle *)
Roles   == {"user", "assistant", "notice"}
Ids     == Turns \X Roles
NoId    == <<0, "none">> (* no message: no parent, the start of the chat *)
Steps   == {"idle", "lookup", "setup", "running", "saving",
            "flushing", "gathering", "sealing", "done"}

VARIABLES
  streaming,  (* isStreaming of the chat pane                               *)
  turn,       (* what each turn does, and its capture after it              *)
  streams,    (* activeStreams: the turn that an abort reaches              *)
  effective,  (* effectiveByThreadId                                        *)
  pending,    (* pendingBranchByThreadId                                    *)
  current,    (* effectiveBundleIdByThreadId                                *)
  cached,     (* latestCheckpointIds of the saver                           *)
  points,     (* the checkpoints stored                                     *)
  head,       (* langgraph_restore_heads                                    *)
  messages,   (* chat_messages: the way to each, {} when it is not there    *)
  active,     (* active_message_id                                          *)
  posts,      (* messages on their way to the file server                   *)
  work,       (* the turns that edited each instance                        *)
  bundles,    (* the bundles stored, oldest first                           *)
  restore,    (* the restore under way                                      *)
  owed,       (* history: the last bundle restored, until a turn begins     *)
  disturbed,  (* history: what began overlapped what went on, or failed     *)
  late,       (* history: a message came after its turn, or was refused     *)
  forgotten,  (* history: the turns answered before the last restart        *)
  restores, mishaps

pane     == <<streaming, restore, restores>>
registry == <<effective, pending, current>>
memory   == <<cached, points, head>>
chat     == <<messages, active, posts>>
history  == <<owed, disturbed, late, mishaps, forgotten>>
vars == <<pane, turn, streams, registry, memory, chat, work, bundles, history>>

TurnStates == [step : Steps, memory : SUBSET Turns, put : BOOLEAN, aborted : BOOLEAN,
               point : 0 .. MaxTurns, from : 0 .. MaxTurns,
               work : [Instances -> SUBSET Turns]]
Posts      == [id : Ids, parent : Ids \cup {NoId}]
Bundles    == [point : 0 .. MaxTurns, chat : Ids \cup {NoId}, from : 0 .. MaxTurns,
               work : [Instances -> SUBSET Turns]]

ThreadTypeOK ==
  /\ streaming \in BOOLEAN
  /\ turn \in [Turns -> TurnStates]
  /\ streams \in {None} \cup Turns
  /\ effective \in 0 .. MaxTurns /\ pending \in 0 .. MaxTurns
  /\ current \in 0 .. MaxTurns /\ cached \in 0 .. MaxTurns
  /\ points \in Seq(SUBSET Turns) /\ Len(points) <= MaxTurns
  /\ head \in 0 .. MaxTurns
  /\ messages \in [Ids -> SUBSET Ids]
  /\ active \in Ids \cup {NoId}
  /\ posts \in SUBSET Posts
  /\ work \in [Instances -> SUBSET Turns]
  /\ bundles \in Seq(Bundles) /\ Len(bundles) <= MaxTurns
  /\ restore \in [step : {"idle", "flushing", "posted", "served"}, bundle : 0 .. MaxTurns]
  /\ owed \in 0 .. MaxTurns
  /\ disturbed \in BOOLEAN /\ late \in BOOLEAN /\ forgotten \subseteq Turns
  /\ restores \in 0 .. MaxRestores /\ mishaps \in 0 .. MaxMishaps

NoWork   == [i \in Instances |-> {}]
NoTurn   == [step |-> "idle", memory |-> {}, put |-> FALSE, aborted |-> FALSE,
             point |-> None, from |-> None, work |-> NoWork]
NoRestore == [step |-> "idle", bundle |-> None]

Init ==
  /\ streaming = FALSE /\ restore = NoRestore /\ restores = 0
  /\ turn = [t \in Turns |-> NoTurn]
  /\ streams = None
  /\ effective = None /\ pending = None /\ current = None
  /\ cached = None /\ points = <<>> /\ head = None
  /\ messages = [m \in Ids |-> {}] /\ active = NoId /\ posts = {}
  /\ work = NoWork
  /\ bundles = <<>>
  /\ owed = None /\ disturbed = FALSE /\ late = FALSE /\ mishaps = 0 /\ forgotten = {}

Memory(p) == IF p = None THEN {} ELSE points[p]
WayTo(m)  == IF m = NoId THEN {} ELSE messages[m]
Present(m) == messages[m] # {}

Said(way, role) == {t \in Turns : <<t, role>> \in way}

Ongoing(t) == turn[t].step \notin {"idle", "done"}
Saved(t)   == \A m \in posts : m.id[1] # t

Quiet == posts = {} /\ restore.step = "idle" /\ \A t \in Turns : ~Ongoing(t)

Disturb(condition) == disturbed' = (disturbed \/ condition)

-----------------------------------------------------------------------------
(* The chat pane.                                                          *)

(* handleSendMessage, and the stream's entry in activeStreams; the entry   *)
(* of a turn that still runs is overwritten.                               *)
Send(t) ==
  /\ ~streaming /\ turn[t].step = "idle" /\ \A u \in 1 .. t - 1 : turn[u].step # "idle"
  /\ Cardinality({u \in Turns : Ongoing(u)}) < MaxAtOnce
  /\ streaming' = TRUE
  /\ turn' = [turn EXCEPT ![t].step = "lookup"]
  /\ streams' = t
  /\ Disturb(~Quiet)
  /\ UNCHANGED <<restore, restores, registry, memory, chat, work, bundles, owed, late, mishaps,
                 forgotten>>

(* abortAgentStream.                                                       *)
Abort ==
  /\ turn' = IF streams = None THEN turn ELSE [turn EXCEPT ![streams].aborted = TRUE]
  /\ streams' = None

(* handleCancelMessage.                                                    *)
Cancel ==
  /\ streaming
  /\ streaming' = FALSE
  /\ Abort
  /\ UNCHANGED <<restore, restores, registry, memory, chat, work, bundles, history>>

-----------------------------------------------------------------------------
(* streamAgentResponse.                                                    *)

(* The user's message is to follow the active one; it is not waited for.   *)
ReadParent(t) ==
  /\ turn[t].step = "lookup"
  /\ turn' = [turn EXCEPT ![t].step = "setup"]
  /\ posts' = posts \cup {[id |-> <<t, "user">>, parent |-> active]}
  /\ UNCHANGED <<pane, streams, registry, memory, messages, active, work, bundles, history>>

(* The pending branch is consumed; otherwise the agent continues from the  *)
(* restore head, which is the latest checkpoint or the restored one.       *)
Begin(t) ==
  /\ turn[t].step = "setup"
  /\ pending' = None
  /\ turn' = [turn EXCEPT ![t].step = "running", ![t].memory =
       Memory(IF pending # None THEN pending ELSE head) \cup {t}]
  /\ owed' = None
  /\ UNCHANGED <<pane, streams, effective, current, memory, chat, work, bundles,
                 disturbed, late, mishaps, forgotten>>

(* Mutant of Work: the put does not move the restore head.                 *)
WorkBehindHead(t) ==
  /\ turn[t].step = "running" /\ ~turn[t].put
  /\ work' = [i \in Instances |-> IF i \in Edits[t] THEN work[i] \cup {t} ELSE work[i]]
  /\ points' = Append(points, turn[t].memory)
  /\ head' = head /\ cached' = Len(points) + 1
  /\ turn' = [turn EXCEPT ![t].put = TRUE]
  /\ UNCHANGED <<pane, streams, registry, chat, bundles, history>>

(* Mutant of Work: a checkpoint that was put is put again.                 *)
WorkAgain(t) ==
  /\ turn[t].step = "running"
  /\ work' = [i \in Instances |-> IF i \in Edits[t] THEN work[i] \cup {t} ELSE work[i]]
  /\ points' = Append(points, turn[t].memory)
  /\ head' = Len(points) + 1 /\ cached' = Len(points) + 1
  /\ turn' = [turn EXCEPT ![t].put = TRUE]
  /\ UNCHANGED <<pane, streams, registry, chat, bundles, history>>

(* The agent's tools edit instances and its saver puts the checkpoint,     *)
(* which becomes the restore head.                                         *)
Work(t) ==
  /\ turn[t].step = "running" /\ ~turn[t].put
  /\ work' = [i \in Instances |-> IF i \in Edits[t] THEN work[i] \cup {t} ELSE work[i]]
  /\ points' = Append(points, turn[t].memory)
  /\ head' = Len(points) + 1 /\ cached' = Len(points) + 1
  /\ turn' = [turn EXCEPT ![t].put = TRUE]
  /\ UNCHANGED <<pane, streams, registry, chat, bundles, history>>

(* Mutant of Stop: the registry is not told of the new checkpoint.         *)
StopUntold(t) ==
  /\ turn[t].step = "running" /\ (turn[t].put \/ turn[t].aborted)
  /\ cached' = IF cached # None THEN cached ELSE head
  /\ \/ turn[t].put
        /\ posts' = posts \cup {[id |-> <<t, "assistant">>, parent |-> <<t, "user">>]}
     \/ turn[t].aborted /\ UNCHANGED posts
  /\ turn' = [turn EXCEPT ![t].step = "saving", ![t].memory = {}]
  /\ UNCHANGED <<pane, streams, effective, pending, current, points, head, messages, active, work,
                 bundles, history>>

(* The loop is over, or was aborted: the registry takes the latest         *)
(* checkpoint the saver remembers, and the text is saved after the user's  *)
(* message.  An aborted turn that has none saves no message.               *)
Stop(t) ==
  /\ turn[t].step = "running" /\ (turn[t].put \/ turn[t].aborted)
  /\ LET latest == IF cached # None THEN cached ELSE head IN
       /\ cached' = latest
       /\ effective' = IF latest # None THEN latest ELSE effective
       /\ Disturb(~turn[t].put /\ latest # head)
  /\ \/ turn[t].put
        /\ posts' = posts \cup {[id |-> <<t, "assistant">>, parent |-> <<t, "user">>]}
     \/ turn[t].aborted /\ UNCHANGED posts
  /\ turn' = [turn EXCEPT ![t].step = "saving", ![t].memory = {}]
  /\ UNCHANGED <<pane, streams, pending, current, points, head, messages, active, work,
                 bundles, owed, late, mishaps, forgotten>>

(* agent.stream waits for the first chunk.  Before it the input may have   *)
(* been put, and no tool has run.                                          *)
BeforeFirstChunk(t) == turn[t].step = "running" /\ (turn[t].put => Edits[t] = {})

(* The handler's finally drops the entry of activeStreams, whosever it is; *)
(* the pane is not streaming any more and captures a bundle.  An abort     *)
(* that comes before the first chunk is thrown by agent.stream and ends    *)
(* the turn at once: the registry is told nothing and no text is saved.    *)
EndTurn(t) ==
  /\ turn[t].step = "saving" \/ (BeforeFirstChunk(t) /\ turn[t].aborted)
  /\ \A m \in posts : m.id # <<t, "assistant">>
  /\ streams' = None
  /\ streaming' = FALSE
  /\ turn' = [turn EXCEPT ![t] = [NoTurn EXCEPT !.step = "flushing"]]
  /\ late' = (late \/ ~Saved(t))
  /\ UNCHANGED <<restore, restores, registry, memory, chat, work, bundles, owed, disturbed, mishaps,
                 forgotten>>

(* The agent was not made, or its model failed, before the first chunk or  *)
(* after: the pane posts what it has of the answer, unless it was saved,   *)
(* and a notice, to follow the active message.                             *)
FailTurn(t) ==
  /\ turn[t].step \in {"lookup", "saving"} \/ BeforeFirstChunk(t)
  /\ \A m \in posts : m.id # <<t, "assistant">>
  /\ mishaps < MaxMishaps /\ mishaps' = mishaps + 1
  /\ streams' = None
  /\ streaming' = FALSE
  /\ LET partial == {m \in {<<t, "assistant">>} : turn[t].step = "saving" /\ turn[t].put} IN
       posts' = posts \cup [id : {<<t, "notice">>} \cup partial, parent : {NoId}]
  /\ turn' = [turn EXCEPT ![t] = [NoTurn EXCEPT !.step = "done"]]
  /\ late' = (late \/ ~Saved(t))
  /\ UNCHANGED <<restore, restores, registry, memory, messages, active, work, bundles, owed,
                 disturbed, forgotten>>

-----------------------------------------------------------------------------
(* The file server: messages.                                              *)

(* appendChatMessage: without a parent it follows the active message; one  *)
(* whose parent is not there, or that is there itself, violates a          *)
(* constraint of the table.                                                *)
AppendMessage(m) ==
  LET parent == IF m.parent = NoId THEN active ELSE m.parent IN
  /\ posts' = posts \ {m}
  /\ IF ~Present(m.id) /\ (parent = NoId \/ Present(parent))
     THEN /\ messages' = [messages EXCEPT ![m.id] = WayTo(parent) \cup {m.id}]
          /\ active' = m.id
          /\ UNCHANGED late
     ELSE /\ UNCHANGED <<messages, active>>
          /\ late' = (late \/ ~Present(m.id))
  /\ UNCHANGED <<pane, turn, streams, registry, memory, work, bundles, owed, disturbed, mishaps,
                 forgotten>>

-----------------------------------------------------------------------------
(* createCheckpointBundle, after the turn.                                 *)

(* The flush is over: the effective checkpoint is read.                    *)
ReadEffective(t) ==
  /\ turn[t].step = "flushing"
  /\ turn' = [turn EXCEPT ![t].step = "gathering", ![t].point = effective]
  /\ UNCHANGED <<pane, streams, registry, memory, chat, work, bundles, history>>

(* Mutant of GatherWork: the newest bundle is taken for the parent.        *)
GatherNewest(t) ==
  /\ turn[t].step = "gathering"
  /\ turn' = [turn EXCEPT ![t].step = "sealing", ![t].work = work, ![t].from = Len(bundles)]
  /\ UNCHANGED <<pane, streams, registry, memory, chat, work, bundles, history>>

(* The bundle the branch descends from, the newest one if none is known,   *)
(* and a snapshot of each instance.                                        *)
GatherWork(t) ==
  /\ turn[t].step = "gathering"
  /\ turn' = [turn EXCEPT ![t].step = "sealing", ![t].work = work,
                          ![t].from = IF current # None THEN current ELSE Len(bundles)]
  /\ UNCHANGED <<pane, streams, registry, memory, chat, work, bundles, history>>

(* The last message of the branch; the bundle is stored and is current.    *)
Seal(t) ==
  /\ turn[t].step = "sealing"
  /\ bundles' = Append(bundles, [point |-> turn[t].point, chat |-> active,
                                 from |-> turn[t].from, work |-> turn[t].work])
  /\ current' = Len(bundles) + 1
  /\ turn' = [turn EXCEPT ![t] = [NoTurn EXCEPT !.step = "done"]]
  /\ UNCHANGED <<pane, streams, effective, pending, memory, chat, work, history>>

-----------------------------------------------------------------------------
(* handleRestoreCheckpoint and restoreCheckpointBundle.                    *)

StartRestore ==
  /\ ~streaming /\ restore.step = "idle" /\ restores < MaxRestores
  /\ restores' = restores + 1
  /\ \E b \in DOMAIN bundles : restore' = [step |-> "flushing", bundle |-> b]
  /\ Disturb(~Quiet)
  /\ UNCHANGED <<streaming, turn, streams, registry, memory, chat, work, bundles, owed, late,
                 mishaps, forgotten>>

(* The flush is over: the stream of the thread is aborted, not waited for. *)
PostRestore ==
  /\ restore.step = "flushing"
  /\ restore' = [restore EXCEPT !.step = "posted"]
  /\ Abort
  /\ UNCHANGED <<streaming, restores, registry, memory, chat, work, bundles, history>>

(* POST /api/checkpoints/restore: the instances, the branch of the chat    *)
(* (all of it is cleared for a bundle captured before its first message,   *)
(* and it stays when the message is gone) and the restore head.            *)
ServeRestore ==
  LET bundle == bundles[restore.bundle] IN
  /\ restore.step = "posted"
  /\ restore' = [restore EXCEPT !.step = "served"]
  /\ work' = bundle.work
  /\ messages' = IF bundle.chat = NoId THEN [m \in Ids |-> {}] ELSE messages
  /\ active' = IF bundle.chat = NoId THEN NoId
               ELSE IF Present(bundle.chat) THEN bundle.chat ELSE active
  /\ head' = IF bundle.point # None THEN bundle.point ELSE head
  /\ Disturb(\/ bundle.point = None
             \/ bundle.chat = NoId
             \/ ~Present(bundle.chat))
  /\ UNCHANGED <<streaming, restores, turn, streams, registry, cached, points, posts, bundles,
                 owed, late, mishaps, forgotten>>

(* The snapshot of an instance cannot be read: those before it are         *)
(* restored, nothing else is.                                              *)
FailRestore ==
  /\ restore.step = "posted" /\ mishaps < MaxMishaps /\ mishaps' = mishaps + 1
  /\ restore' = NoRestore
  /\ \E I \in SUBSET Instances \ {Instances} :
       work' = [i \in Instances |-> IF i \in I THEN bundles[restore.bundle].work[i] ELSE work[i]]
  /\ Disturb(TRUE)
  /\ UNCHANGED <<streaming, restores, turn, streams, registry, memory, chat, bundles, owed, late,
                 forgotten>>

(* Mutant of FinishRestore: no branch is pending.                          *)
FinishUnbranched ==
  LET bundle == bundles[restore.bundle] IN
  /\ restore.step = "served"
  /\ restore' = NoRestore
  /\ IF bundle.point # None
     THEN effective' = bundle.point /\ owed' = bundle.point
     ELSE UNCHANGED <<effective, owed>>
  /\ current' = restore.bundle
  /\ streaming' = FALSE
  /\ UNCHANGED <<restores, pending, turn, streams, memory, chat, work, bundles, disturbed, late,
                 mishaps, forgotten>>

(* The registry learns of the restored checkpoint, and the pane reloads.   *)
FinishRestore ==
  LET bundle == bundles[restore.bundle] IN
  /\ restore.step = "served"
  /\ restore' = NoRestore
  /\ IF bundle.point # None
     THEN pending' = bundle.point /\ effective' = bundle.point /\ owed' = bundle.point
     ELSE UNCHANGED <<pending, effective, owed>>
  /\ current' = restore.bundle
  /\ streaming' = FALSE
  /\ UNCHANGED <<restores, turn, streams, memory, chat, work, bundles, disturbed, late, mishaps,
                 forgotten>>

-----------------------------------------------------------------------------
(* The program ends at any time and starts again: the registry, the        *)
(* saver's ids and all that was under way are gone.                        *)
Restart ==
  /\ mishaps < MaxMishaps /\ mishaps' = mishaps + 1
  /\ streaming' = FALSE /\ streams' = None /\ restore' = NoRestore
  /\ turn' = [t \in Turns |-> IF turn[t].step = "idle" THEN turn[t]
                               ELSE [NoTurn EXCEPT !.step = "done"]]
  /\ effective' = None /\ pending' = None /\ current' = None /\ cached' = None
  /\ posts' = {}
  /\ owed' = None
  /\ forgotten' = forgotten \cup UNION {Said(messages[m], "assistant") : m \in Ids}
  /\ Disturb(posts # {} \/ restore.step = "served" \/ current \notin {None, Len(bundles)})
  /\ UNCHANGED <<restores, points, head, messages, active, work, bundles, late>>

Next ==
  \/ Cancel \/ StartRestore \/ PostRestore \/ ServeRestore \/ FailRestore \/ FinishRestore
  \/ Restart
  \/ \E t \in Turns :
       \/ Send(t) \/ ReadParent(t) \/ Begin(t) \/ Work(t) \/ Stop(t)
       \/ EndTurn(t) \/ FailTurn(t) \/ ReadEffective(t) \/ GatherWork(t) \/ Seal(t)
  \/ \E m \in posts : AppendMessage(m)

Spec == Init /\ [][Next]_vars

-----------------------------------------------------------------------------
(* What the agent remembers fits the branch on the screen: every answer    *)
(* there, and nothing that was not asked there.                            *)
Fits(remembered, way) ==
  Said(way, "assistant") \subseteq remembered /\ remembered \subseteq Said(way, "user")

NextMemory == Memory(IF pending # None THEN pending ELSE head)

(* Chat, agent and instances stay aligned through turns, cancelled or not, *)
(* captures, restores to and fro and restarts, as long as no turn or       *)
(* restore begins before the last turn and its capture ended and no step   *)
(* failed (streaming.ts:628-665, filesystemAPI.ts:1234-1365).              *)
AlignedUndisturbed ==
  Quiet /\ ~disturbed /\ ~late =>
    /\ Fits(NextMemory, WayTo(active))
    /\ \A i \in Instances : work[i] \subseteq Said(WayTo(active), "user")

(* A checkpoint fits the branch; without one, the branch has no answer but *)
(* those that a restart made the registry forget.                          *)
Recalls(point, way) ==
  IF point = None THEN Said(way, "assistant") \subseteq forgotten ELSE Fits(points[point], way)

(* A bundle holds one moment: its checkpoint and its instances belong to   *)
(* the branch of its message, although they are read one after the other,  *)
(* the effective checkpoint comes from the registry, and a turn aborted    *)
(* before its first chunk does not tell the registry of its own            *)
(* (CheckpointOrchestrator.ts:74, checkpoints.ts:53-126, agent.ts:204-208).*)
BundlesCoherent ==
  ~disturbed /\ ~late => \A b \in DOMAIN bundles :
    LET way == WayTo(bundles[b].chat) IN
    /\ Recalls(bundles[b].point, way)
    /\ \A i \in Instances : bundles[b].work[i] \subseteq Said(way, "user")

(* A bundle's parent is a bundle of the branch it lies on                  *)
(* (checkpoints.ts:52-63).                                                 *)
LineageFollowsBranch ==
  ~disturbed /\ ~late => \A b \in DOMAIN bundles :
    bundles[b].from # None => WayTo(bundles[bundles[b].from].chat) \subseteq WayTo(bundles[b].chat)

(* The first turn to begin after a restore was answered continues from the *)
(* restored checkpoint, even when a turn that was aborted puts another one *)
(* meanwhile (AgentCheckpointRegistry.ts:62-77).                           *)
NextTurnContinuesRestored ==
  [][\A t \in Turns :
       turn[t].step = "setup" /\ turn'[t].step = "running" /\ owed # None
         => turn'[t].memory = points[owed] \cup {t}]_vars

(* "LangGraph runtime memory and SQLite chat history remain 100% aligned   *)
(* across all branch and restore operations" (adr-011:128): once all is    *)
(* quiet after a restore, the next turn continues from what the chat shows.*)
MemoryAligned == Quiet /\ owed # None /\ ~late => Fits(NextMemory, WayTo(active))
=============================================================================
