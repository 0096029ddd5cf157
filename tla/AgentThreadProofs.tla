-------------------------- MODULE AgentThreadProofs --------------------------
(* The state of a thread stays within its types: every checkpoint and bundle  *)
(* that is named is there; the first turn after a restore continues from the  *)
(* restored checkpoint; and in a thread that nothing disturbed chat, agent    *)
(* and instances stay aligned, and the bundles are moments of their branch;   *)
(* for any numbers of turns, restores and mishaps.                            *)
EXTENDS AgentThread, FiniteSetTheorems, TLAPS

-----------------------------------------------------------------------------
(* The inductive invariant.                                                   *)

Typed ==
  /\ streaming \in BOOLEAN
  /\ turn \in [Turns -> TurnStates]
  /\ streams \in {None} \cup Turns
  /\ effective \in Nat /\ pending \in Nat /\ current \in Nat /\ cached \in Nat /\ head \in Nat
  /\ points \in Seq(SUBSET Turns)
  /\ messages \in [Ids -> SUBSET Ids]
  /\ active \in Ids \cup {NoId}
  /\ posts \in SUBSET Posts
  /\ work \in [Instances -> SUBSET Turns]
  /\ bundles \in Seq(Bundles)
  /\ restore \in [step : {"idle", "flushing", "posted", "served"}, bundle : 0 .. MaxTurns]
  /\ owed \in Nat
  /\ disturbed \in BOOLEAN /\ late \in BOOLEAN /\ forgotten \subseteq Turns
  /\ restores \in 0 .. MaxRestores /\ mishaps \in 0 .. MaxMishaps

(* Each turn that put a checkpoint has passed its put, and each that sealed a *)
(* bundle is done.                                                            *)
Putters == {t \in Turns : turn[t].put \/ turn[t].step \in {"flushing", "gathering", "sealing", "done"}}
Sealers == {t \in Turns : turn[t].step = "done"}

Counted == Len(points) <= Cardinality(Putters) /\ Len(bundles) <= Cardinality(Sealers)

(* What is named is there.                                                    *)
PointsExist ==
  /\ effective <= Len(points) /\ pending <= Len(points) /\ cached <= Len(points)
  /\ head <= Len(points) /\ owed <= Len(points)
  /\ \A t \in Turns : turn[t].point <= Len(points)
  /\ \A b \in DOMAIN bundles : bundles[b].point <= Len(points)

BundlesExist ==
  /\ current <= Len(bundles)
  /\ restore.step # "idle" => restore.bundle \in DOMAIN bundles

ThreadInv == Typed /\ Counted /\ PointsExist /\ BundlesExist

-----------------------------------------------------------------------------
(* Counting.                                                                  *)

(* There are no more turns than MaxTurns.                                     *)
LEMMA TurnsFinite == IsFiniteSet(Turns) /\ Cardinality(Turns) = MaxTurns
<1>1. MaxTurns \in Nat
  BY ThreadAssumption
<1> QED
  BY <1>1, FS_Interval DEF Turns

(* A count of some turns is at most MaxTurns, and grows with them.            *)
LEMMA SomeTurns ==
  ASSUME NEW S \in SUBSET Turns, NEW T \in SUBSET Turns, S \subseteq T
  PROVE  /\ Cardinality(S) \in Nat /\ Cardinality(T) \in Nat
         /\ Cardinality(S) <= Cardinality(T) /\ Cardinality(T) <= MaxTurns
BY TurnsFinite, FS_Subset, FS_CardinalityType

(* One more turn counts one more.                                             *)
LEMMA OneMoreTurn ==
  ASSUME NEW S \in SUBSET Turns, NEW T \in SUBSET Turns, NEW t \in T, t \notin S, S \subseteq T
  PROVE  Cardinality(S) + 1 <= Cardinality(T)
<1>1. IsFiniteSet(S) /\ IsFiniteSet(T)
  BY TurnsFinite, FS_Subset
<1>2. Cardinality(S \cup {t}) = Cardinality(S) + 1
  BY <1>1, FS_AddElement
<1>3. S \cup {t} \subseteq T
  OBVIOUS
<1> QED
  BY <1>1, <1>2, <1>3, FS_Subset

LEMMA Bounded ==
  ASSUME ThreadInv
  PROVE  Len(points) \in 0 .. MaxTurns /\ Len(bundles) \in 0 .. MaxTurns
<1>1. Putters \in SUBSET Turns /\ Sealers \in SUBSET Turns
  BY DEF Putters, Sealers
<1>2. Len(points) \in Nat /\ Len(bundles) \in Nat
  BY DEF ThreadInv, Typed
<1> QED
  BY <1>1, <1>2, SomeTurns, ThreadAssumption DEF ThreadInv, Counted

LEMMA InvTyped == ThreadInv => ThreadTypeOK
<1>1. SUFFICES ASSUME ThreadInv PROVE ThreadTypeOK
  OBVIOUS
<1>2. /\ Len(points) \in 0 .. MaxTurns /\ Len(bundles) \in 0 .. MaxTurns /\ MaxTurns \in Nat
  BY <1>1, Bounded, ThreadAssumption
<1>3. /\ effective \in 0 .. MaxTurns /\ pending \in 0 .. MaxTurns
      /\ current \in 0 .. MaxTurns /\ cached \in 0 .. MaxTurns
      /\ head \in 0 .. MaxTurns /\ owed \in 0 .. MaxTurns
  BY <1>1, <1>2 DEF ThreadInv, Typed, PointsExist, BundlesExist
<1> QED
  BY <1>1, <1>2, <1>3 DEF ThreadInv, Typed, ThreadTypeOK

-----------------------------------------------------------------------------
(* The initial state.                                                         *)

LEMMA ThreadInit == Init => ThreadInv
<1>1. SUFFICES ASSUME Init PROVE ThreadInv
  OBVIOUS
<1>2. NoTurn \in TurnStates /\ NoTurn.put = FALSE /\ NoTurn.step = "idle" /\ NoTurn.point = 0
  BY ThreadAssumption DEF NoTurn, TurnStates, Steps, NoWork, None
<1>3. Typed
  <2>1. turn \in [Turns -> TurnStates]
    BY <1>1, <1>2 DEF Init
  <2>2. restore \in [step : {"idle", "flushing", "posted", "served"}, bundle : 0 .. MaxTurns]
    BY <1>1, ThreadAssumption DEF Init, NoRestore, None
  <2>3. messages \in [Ids -> SUBSET Ids] /\ work \in [Instances -> SUBSET Turns]
    BY <1>1 DEF Init, NoWork
  <2>4. restores \in 0 .. MaxRestores /\ mishaps \in 0 .. MaxMishaps
    BY <1>1, ThreadAssumption DEF Init
  <2>5. points \in Seq(SUBSET Turns) /\ bundles \in Seq(Bundles) /\ posts \in SUBSET Posts
    BY <1>1 DEF Init
  <2> QED
    BY <1>1, <2>1, <2>2, <2>3, <2>4, <2>5 DEF Init, Typed, None
<1>4. Counted
  <2>1. Putters \in SUBSET Turns /\ Sealers \in SUBSET Turns
    BY DEF Putters, Sealers
  <2>2. Cardinality(Putters) \in Nat /\ Cardinality(Sealers) \in Nat
    BY <2>1, SomeTurns
  <2>3. Len(points) = 0 /\ Len(bundles) = 0
    BY <1>1 DEF Init
  <2> QED
    BY <2>2, <2>3 DEF Counted
<1>5. PointsExist /\ BundlesExist
  BY <1>1, <1>2 DEF Init, PointsExist, BundlesExist, NoRestore, None
<1> QED
  BY <1>3, <1>4, <1>5 DEF ThreadInv

-----------------------------------------------------------------------------
(* A step of one turn.                                                        *)

Past(x) == x.put \/ x.step \in {"flushing", "gathering", "sealing", "done"}

(* One turn goes on from x to y.                                              *)
Onward(x, y) == (Past(x) => Past(y)) /\ (x.step = "done" => y.step = "done")

LEMMA TurnGoesOn ==
  ASSUME Typed, NEW t \in Turns, NEW y \in TurnStates, turn' = [turn EXCEPT ![t] = y]
  PROVE  /\ turn' \in [Turns -> TurnStates]
         /\ turn'[t] = y /\ \A u \in Turns : u # t => turn'[u] = turn[u]
BY DEF Typed

LEMMA CountsStay ==
  ASSUME Typed, Counted, UNCHANGED <<points, bundles>>,
         \A t \in Turns : Onward(turn[t], turn'[t])
  PROVE  Counted'
<1>1. Putters \in SUBSET Turns /\ Sealers \in SUBSET Turns
  BY DEF Putters, Sealers
<1>2. Putters' \in SUBSET Turns /\ Sealers' \in SUBSET Turns
  BY DEF Putters, Sealers
<1>3. Putters \subseteq Putters' /\ Sealers \subseteq Sealers'
  BY DEF Putters, Sealers, Onward, Past
<1>4. /\ Cardinality(Putters) \in Nat /\ Cardinality(Putters') \in Nat
      /\ Cardinality(Sealers) \in Nat /\ Cardinality(Sealers') \in Nat
      /\ Cardinality(Putters) <= Cardinality(Putters')
      /\ Cardinality(Sealers) <= Cardinality(Sealers')
  BY <1>1, <1>2, <1>3, SomeTurns
<1>5. Len(points) \in Nat /\ Len(bundles) \in Nat
  BY DEF Typed
<1> QED
  BY <1>4, <1>5 DEF Counted

(* The counts and names after a step of turn t that stores nothing.           *)
LEMMA OtherwiseSame ==
  ASSUME ThreadInv, NEW t \in Turns, NEW y \in TurnStates, turn' = [turn EXCEPT ![t] = y],
         Onward(turn[t], y), y.point <= Len(points),
         UNCHANGED <<points, bundles, pending, current, head, restore>>,
         effective' <= Len(points), cached' <= Len(points), owed' <= Len(points)
  PROVE  Counted' /\ PointsExist' /\ BundlesExist'
<1>1. turn'[t] = y /\ \A u \in Turns : u # t => turn'[u] = turn[u]
  BY TurnGoesOn DEF ThreadInv
<1>2. \A u \in Turns : Onward(turn[u], turn'[u])
  BY <1>1 DEF Onward
<1>3. Counted'
  BY <1>2, CountsStay DEF ThreadInv
<1>4. PointsExist'
  BY <1>1 DEF ThreadInv, PointsExist
<1> QED
  BY <1>3, <1>4 DEF ThreadInv, BundlesExist

(* The fields of a turn keep their types when one is set.                     *)
LEMMA TurnFields ==
  ASSUME NEW x \in TurnStates
  PROVE  /\ \A step \in Steps : [x EXCEPT !.step = step] \in TurnStates
         /\ \A step \in Steps, M \in SUBSET Turns :
              [x EXCEPT !.step = step, !.memory = M] \in TurnStates
         /\ \A step \in Steps, p \in 0 .. MaxTurns :
              [x EXCEPT !.step = step, !.point = p] \in TurnStates
         /\ \A step \in Steps, p \in 0 .. MaxTurns, w \in [Instances -> SUBSET Turns] :
              [x EXCEPT !.step = step, !.work = w, !.from = p] \in TurnStates
         /\ [x EXCEPT !.put = TRUE] \in TurnStates
         /\ [x EXCEPT !.aborted = TRUE] \in TurnStates
BY DEF TurnStates

LEMMA FreshTurn ==
  ASSUME NEW step \in Steps
  PROVE  [NoTurn EXCEPT !.step = step] \in TurnStates
<1>1. NoTurn \in TurnStates
  BY ThreadAssumption DEF NoTurn, TurnStates, Steps, NoWork, None
<1> QED
  BY <1>1, TurnFields

-----------------------------------------------------------------------------
(* The turns.                                                                 *)

LEMMA SendKeeps ==
  ASSUME ThreadInv, NEW t \in Turns, Send(t)
  PROVE  ThreadInv'
<1> DEFINE y == [turn[t] EXCEPT !.step = "lookup"]
<1>1. turn' = [turn EXCEPT ![t] = y]
  BY DEF Send, ThreadInv, Typed
<1>2. turn[t] \in TurnStates /\ y \in TurnStates
  BY TurnFields DEF ThreadInv, Typed, Steps
<1>3. Onward(turn[t], y) /\ y.point <= Len(points)
  BY <1>2 DEF Send, Onward, Past, ThreadInv, PointsExist, TurnStates
<1> HIDE DEF y
<1>4. UNCHANGED <<points, bundles, pending, current, head, restore, effective, cached, owed>>
  BY DEF Send, registry, memory
<1>5. Counted' /\ PointsExist' /\ BundlesExist'
  BY <1>1, <1>2, <1>3, <1>4, OtherwiseSame DEF ThreadInv, PointsExist
<1>6. Typed'
  BY <1>1, <1>2, TurnGoesOn DEF Send, Disturb, ThreadInv, Typed, registry, memory, chat, vars
<1> QED
  BY <1>5, <1>6 DEF ThreadInv

LEMMA ReadParentKeeps ==
  ASSUME ThreadInv, NEW t \in Turns, ReadParent(t)
  PROVE  ThreadInv'
<1> DEFINE y == [turn[t] EXCEPT !.step = "setup"]
<1>1. turn' = [turn EXCEPT ![t] = y]
  BY DEF ReadParent, ThreadInv, Typed
<1>2. turn[t] \in TurnStates /\ y \in TurnStates
  BY TurnFields DEF ThreadInv, Typed, Steps
<1>3. Onward(turn[t], y) /\ y.point <= Len(points)
  BY <1>2 DEF ReadParent, Onward, Past, ThreadInv, PointsExist, TurnStates
<1> HIDE DEF y
<1>4. UNCHANGED <<points, bundles, pending, current, head, restore, effective, cached, owed>>
  BY DEF ReadParent, pane, registry, memory, history
<1>5. Counted' /\ PointsExist' /\ BundlesExist'
  BY <1>1, <1>2, <1>3, <1>4, OtherwiseSame DEF ThreadInv, PointsExist
<1>6. posts' \in SUBSET Posts
  BY DEF ReadParent, ThreadInv, Typed, Posts, Ids, Roles
<1>7. Typed'
  BY <1>1, <1>2, <1>6, TurnGoesOn DEF ReadParent, ThreadInv, Typed, pane, registry, memory, history
<1> QED
  BY <1>5, <1>7 DEF ThreadInv

(* The bundles that are there.                                                *)
LEMMA BundleTyped ==
  ASSUME Typed, NEW b \in DOMAIN bundles
  PROVE  /\ bundles[b].point \in Nat /\ bundles[b].chat \in Ids \cup {NoId}
         /\ bundles[b].work \in [Instances -> SUBSET Turns]
<1>1. bundles \in Seq(Bundles)
  BY DEF Typed
<1>2. bundles[b] \in Bundles
  BY <1>1
<1> QED
  BY <1>2, ThreadAssumption DEF Bundles

(* The memory at a checkpoint that is there.                                  *)
LEMMA MemoryTyped ==
  ASSUME Typed, NEW p \in Nat, p <= Len(points)
  PROVE  Memory(p) \in SUBSET Turns
BY DEF Typed, Memory, None

LEMMA BeginKeeps ==
  ASSUME ThreadInv, NEW t \in Turns, Begin(t)
  PROVE  ThreadInv'
<1> DEFINE M == Memory(IF pending # None THEN pending ELSE head) \cup {t}
           y == [turn[t] EXCEPT !.step = "running", !.memory = M]
<1>0. M \in SUBSET Turns
  BY MemoryTyped DEF ThreadInv, Typed, PointsExist
<1>1. turn' = [turn EXCEPT ![t] = y]
  BY DEF Begin, ThreadInv, Typed
<1> HIDE DEF M
<1>2. turn[t] \in TurnStates /\ y \in TurnStates
  BY <1>0, TurnFields DEF ThreadInv, Typed, Steps
<1>3. Onward(turn[t], y) /\ y.point <= Len(points)
  BY <1>2 DEF Begin, Onward, Past, ThreadInv, PointsExist, TurnStates
<1> HIDE DEF y
<1>4. turn'[t] = y /\ \A u \in Turns : u # t => turn'[u] = turn[u]
  BY <1>1, <1>2, TurnGoesOn DEF ThreadInv
<1>5. /\ UNCHANGED <<points, bundles, current, head, restore, effective, cached>>
      /\ pending' = 0 /\ owed' = 0
  BY DEF Begin, pane, memory, None
<1>6. Counted'
  BY <1>3, <1>4, <1>5, CountsStay DEF ThreadInv, Onward
<1>7. PointsExist' /\ BundlesExist'
  BY <1>3, <1>4, <1>5 DEF ThreadInv, PointsExist, BundlesExist, Typed
<1>8. Typed'
  <2>1. turn' \in [Turns -> TurnStates]
    BY <1>1, <1>2, TurnGoesOn DEF ThreadInv
  <2>2. UNCHANGED <<forgotten, pane, streams, effective, current, memory, chat, work, bundles, disturbed, late, mishaps>>
    BY DEF Begin
  <2> QED
    BY <2>1, <2>2, <1>5 DEF ThreadInv, Typed, pane, memory, chat
<1> QED
  BY <1>6, <1>7, <1>8 DEF ThreadInv

LEMMA WorkKeeps ==
  ASSUME ThreadInv, NEW t \in Turns, Work(t)
  PROVE  ThreadInv'
<1> DEFINE y == [turn[t] EXCEPT !.put = TRUE]
<1>1. turn' = [turn EXCEPT ![t] = y]
  BY DEF Work, ThreadInv, Typed
<1>2. turn[t] \in TurnStates /\ y \in TurnStates
  BY TurnFields DEF ThreadInv, Typed
<1>3. y.put /\ y.step = turn[t].step /\ y.point = turn[t].point /\ ~Past(turn[t])
  BY <1>2 DEF Work, Past, TurnStates
<1> HIDE DEF y
<1>4. turn'[t] = y /\ \A u \in Turns : u # t => turn'[u] = turn[u]
  BY <1>1, <1>2, TurnGoesOn DEF ThreadInv
<1>5. points' = Append(points, turn[t].memory) /\ turn[t].memory \in SUBSET Turns
  BY <1>2 DEF Work, TurnStates
<1>6. points' \in Seq(SUBSET Turns) /\ Len(points') = Len(points) + 1 /\ Len(points) \in Nat
  BY <1>5 DEF ThreadInv, Typed
<1>7. UNCHANGED <<bundles, pending, current, restore, effective, owed>> /\ head' = Len(points) + 1
      /\ cached' = Len(points) + 1
  BY DEF Work, pane, registry, history
<1>8. Counted'
  <2>1. t \notin Putters /\ t \in Putters' /\ Putters \subseteq Putters' /\ Sealers' = Sealers
    BY <1>3, <1>4 DEF Putters, Sealers, Past
  <2>2. Putters \in SUBSET Turns /\ Putters' \in SUBSET Turns
    BY DEF Putters
  <2>3. Cardinality(Putters) + 1 <= Cardinality(Putters')
    BY <2>1, <2>2, OneMoreTurn
  <2>4. Cardinality(Putters) \in Nat /\ Cardinality(Putters') \in Nat
    BY <2>2, SomeTurns
  <2> QED
    BY <1>6, <1>7, <2>1, <2>3, <2>4 DEF ThreadInv, Counted
<1>9. PointsExist'
  <2>1. \A u \in Turns : turn'[u].point = turn[u].point /\ turn[u].point \in Nat
    BY <1>2, <1>3, <1>4, ThreadAssumption DEF ThreadInv, Typed, TurnStates
  <2>2. \A b \in DOMAIN bundles : bundles[b].point \in Nat
    BY BundleTyped DEF ThreadInv
  <2>3. \A u \in Turns : turn'[u].point <= Len(points')
    BY <1>6, <2>1 DEF ThreadInv, PointsExist
  <2>4. \A b \in DOMAIN bundles' : bundles'[b].point <= Len(points')
    BY <1>6, <1>7, <2>2 DEF ThreadInv, PointsExist
  <2> QED
    BY <1>6, <1>7, <2>3, <2>4 DEF ThreadInv, Typed, PointsExist
<1>10. BundlesExist'
  BY <1>7 DEF ThreadInv, BundlesExist
<1>11. work' \in [Instances -> SUBSET Turns]
  BY DEF Work, ThreadInv, Typed
<1>12. Typed'
  <2>1. turn' \in [Turns -> TurnStates]
    BY <1>1, <1>2, TurnGoesOn DEF ThreadInv
  <2>2. UNCHANGED <<pane, streams, registry, chat, bundles, history>>
    BY DEF Work
  <2> QED
    BY <2>1, <2>2, <1>6, <1>7, <1>11 DEF ThreadInv, Typed, pane, registry, chat, history
<1> QED
  BY <1>8, <1>9, <1>10, <1>12 DEF ThreadInv

LEMMA StopKeeps ==
  ASSUME ThreadInv, NEW t \in Turns, Stop(t)
  PROVE  ThreadInv'
<1> DEFINE y == [turn[t] EXCEPT !.step = "saving", !.memory = {}]
           latest == IF cached # None THEN cached ELSE head
<1>1. turn' = [turn EXCEPT ![t] = y]
  BY DEF Stop, ThreadInv, Typed
<1>2. turn[t] \in TurnStates /\ y \in TurnStates
  BY TurnFields DEF ThreadInv, Typed, Steps
<1>3. Onward(turn[t], y) /\ y.point <= Len(points)
  BY <1>2 DEF Stop, Onward, Past, ThreadInv, PointsExist, TurnStates
<1> HIDE DEF y
<1>4. latest \in Nat /\ latest <= Len(points)
  BY DEF ThreadInv, Typed, PointsExist
<1>5. /\ cached' = latest /\ effective' \in {latest, effective}
      /\ UNCHANGED <<points, bundles, pending, current, head, restore, owed>>
      /\ disturbed' \in BOOLEAN
  BY DEF Stop, pane, Disturb
<1> HIDE DEF latest
<1>6. effective' \in Nat /\ effective' <= Len(points) /\ cached' \in Nat /\ cached' <= Len(points)
  BY <1>4, <1>5 DEF ThreadInv, Typed, PointsExist
<1>7. Counted' /\ PointsExist' /\ BundlesExist'
  BY <1>1, <1>2, <1>3, <1>5, <1>6, OtherwiseSame DEF ThreadInv, PointsExist
<1>8. posts' \in SUBSET Posts
  BY DEF Stop, ThreadInv, Typed, Posts, Ids, Roles
<1>9. Typed'
  BY <1>1, <1>2, <1>5, <1>6, <1>8, TurnGoesOn DEF Stop, ThreadInv, Typed, pane
<1> QED
  BY <1>7, <1>9 DEF ThreadInv

LEMMA EndTurnKeeps ==
  ASSUME ThreadInv, NEW t \in Turns, EndTurn(t)
  PROVE  ThreadInv'
<1> DEFINE y == [NoTurn EXCEPT !.step = "flushing"]
<1>1. turn' = [turn EXCEPT ![t] = y]
  BY DEF EndTurn
<1>2. y \in TurnStates
  BY FreshTurn DEF Steps
<1>3. Onward(turn[t], y) /\ y.point <= Len(points)
  BY DEF EndTurn, BeforeFirstChunk, Onward, Past, NoTurn, ThreadInv, Typed, None
<1> HIDE DEF y
<1>4. UNCHANGED <<restore, restores, registry, memory, chat, work, bundles, owed, disturbed, mishaps,
                forgotten>>
  BY DEF EndTurn
<1>5. Counted' /\ PointsExist' /\ BundlesExist'
  BY <1>1, <1>2, <1>3, <1>4, OtherwiseSame DEF ThreadInv, PointsExist, registry, memory
<1>6. turn' \in [Turns -> TurnStates]
  BY <1>1, <1>2, TurnGoesOn DEF ThreadInv
<1>7. streaming' = FALSE /\ streams' = None /\ late' \in BOOLEAN
  BY DEF EndTurn
<1>8. Typed'
  BY <1>4, <1>6, <1>7 DEF ThreadInv, Typed, registry, memory, chat
<1> QED
  BY <1>5, <1>8 DEF ThreadInv

LEMMA FailTurnKeeps ==
  ASSUME ThreadInv, NEW t \in Turns, FailTurn(t)
  PROVE  ThreadInv'
<1> DEFINE y == [NoTurn EXCEPT !.step = "done"]
<1>1. turn' = [turn EXCEPT ![t] = y]
  BY DEF FailTurn
<1>2. y \in TurnStates
  BY FreshTurn DEF Steps
<1>3. Onward(turn[t], y) /\ y.point <= Len(points)
  BY DEF FailTurn, Onward, Past, NoTurn, ThreadInv, Typed, None
<1> HIDE DEF y
<1>4. UNCHANGED <<restore, restores, registry, memory, messages, active, work, bundles, owed, disturbed,
                forgotten>>
  BY DEF FailTurn
<1>5. Counted' /\ PointsExist' /\ BundlesExist'
  BY <1>1, <1>2, <1>3, <1>4, OtherwiseSame DEF ThreadInv, PointsExist, registry, memory
<1>6. turn' \in [Turns -> TurnStates]
  BY <1>1, <1>2, TurnGoesOn DEF ThreadInv
<1>7. streaming' = FALSE /\ streams' = None /\ late' \in BOOLEAN
  BY DEF FailTurn
<1>8. mishaps' \in 0 .. MaxMishaps
  BY ThreadAssumption DEF FailTurn, ThreadInv, Typed
<1>9. posts' \in SUBSET Posts
  BY DEF FailTurn, ThreadInv, Typed, Posts, Ids, Roles
<1>10. Typed'
  BY <1>4, <1>6, <1>7, <1>8, <1>9 DEF ThreadInv, Typed, registry, memory
<1> QED
  BY <1>5, <1>10 DEF ThreadInv

LEMMA ReadEffectiveKeeps ==
  ASSUME ThreadInv, NEW t \in Turns, ReadEffective(t)
  PROVE  ThreadInv'
<1> DEFINE y == [turn[t] EXCEPT !.step = "gathering", !.point = effective]
<1>0. effective \in 0 .. MaxTurns
  BY InvTyped DEF ThreadTypeOK
<1>1. turn' = [turn EXCEPT ![t] = y]
  BY DEF ReadEffective, ThreadInv, Typed
<1>2. turn[t] \in TurnStates /\ y \in TurnStates
  BY <1>0, TurnFields DEF ThreadInv, Typed, Steps
<1>3. Onward(turn[t], y) /\ y.point <= Len(points)
  BY <1>2 DEF ReadEffective, Onward, Past, ThreadInv, PointsExist, TurnStates
<1> HIDE DEF y
<1>4. UNCHANGED <<pane, streams, registry, memory, chat, work, bundles, history>>
  BY DEF ReadEffective
<1>5. Counted' /\ PointsExist' /\ BundlesExist'
  BY <1>1, <1>2, <1>3, <1>4, OtherwiseSame DEF ThreadInv, PointsExist, pane, registry, memory, history
<1>6. turn' \in [Turns -> TurnStates]
  BY <1>1, <1>2, TurnGoesOn DEF ThreadInv
<1>7. Typed'
  BY <1>4, <1>6 DEF ThreadInv, Typed, pane, registry, memory, chat, history
<1> QED
  BY <1>5, <1>7 DEF ThreadInv

LEMMA GatherWorkKeeps ==
  ASSUME ThreadInv, NEW t \in Turns, GatherWork(t)
  PROVE  ThreadInv'
<1> DEFINE from == IF current # None THEN current ELSE Len(bundles)
           y    == [turn[t] EXCEPT !.step = "sealing", !.work = work, !.from = from]
<1>0. from \in 0 .. MaxTurns /\ work \in [Instances -> SUBSET Turns]
  BY InvTyped, Bounded DEF ThreadTypeOK
<1>1. turn' = [turn EXCEPT ![t] = y]
  BY DEF GatherWork, ThreadInv, Typed
<1> HIDE DEF from
<1>2. turn[t] \in TurnStates /\ y \in TurnStates
  BY <1>0, TurnFields DEF ThreadInv, Typed, Steps
<1>3. Onward(turn[t], y) /\ y.point <= Len(points)
  BY <1>2 DEF GatherWork, Onward, Past, ThreadInv, PointsExist, TurnStates
<1> HIDE DEF y
<1>4. UNCHANGED <<pane, streams, registry, memory, chat, work, bundles, history>>
  BY DEF GatherWork
<1>5. Counted' /\ PointsExist' /\ BundlesExist'
  BY <1>1, <1>2, <1>3, <1>4, OtherwiseSame DEF ThreadInv, PointsExist, pane, registry, memory, history
<1>6. turn' \in [Turns -> TurnStates]
  BY <1>1, <1>2, TurnGoesOn DEF ThreadInv
<1>7. Typed'
  BY <1>4, <1>6 DEF ThreadInv, Typed, pane, registry, memory, chat, history
<1> QED
  BY <1>5, <1>7 DEF ThreadInv

LEMMA SealKeeps ==
  ASSUME ThreadInv, NEW t \in Turns, Seal(t)
  PROVE  ThreadInv'
<1> DEFINE y == [NoTurn EXCEPT !.step = "done"]
           bundle == [point |-> turn[t].point, chat |-> active, from |-> turn[t].from, work |-> turn[t].work]
<1>1. turn' = [turn EXCEPT ![t] = y] /\ bundles' = Append(bundles, bundle) /\ current' = Len(bundles) + 1
  BY DEF Seal
<1>2. y \in TurnStates /\ y.step = "done" /\ y.point = 0
  BY FreshTurn DEF Steps, NoTurn, None
<1>3. turn[t] \in TurnStates /\ turn[t].step = "sealing"
  BY DEF Seal, ThreadInv, Typed
<1>4. bundle \in Bundles /\ bundle.point = turn[t].point
  BY <1>3 DEF ThreadInv, Typed, Bundles, TurnStates
<1> HIDE DEF y, bundle
<1>5. turn'[t] = y /\ \A u \in Turns : u # t => turn'[u] = turn[u]
  BY <1>1, <1>2, TurnGoesOn DEF ThreadInv
<1>6. /\ bundles' \in Seq(Bundles) /\ Len(bundles') = Len(bundles) + 1 /\ Len(bundles) \in Nat
      /\ DOMAIN bundles' = DOMAIN bundles \cup {Len(bundles) + 1}
      /\ DOMAIN bundles = 1 .. Len(bundles)
      /\ bundles'[Len(bundles) + 1] = bundle /\ \A b \in DOMAIN bundles : bundles'[b] = bundles[b]
  BY <1>1, <1>4 DEF ThreadInv, Typed
<1>7. UNCHANGED <<pane, streams, effective, pending, memory, chat, work, history>>
  BY DEF Seal
<1>8. Counted'
  <2>1. t \notin Sealers /\ t \in Sealers' /\ Sealers \subseteq Sealers' /\ Putters \subseteq Putters'
    BY <1>2, <1>3, <1>5 DEF Putters, Sealers
  <2>2. /\ Putters \in SUBSET Turns /\ Putters' \in SUBSET Turns
        /\ Sealers \in SUBSET Turns /\ Sealers' \in SUBSET Turns
    BY DEF Putters, Sealers
  <2>3. Cardinality(Sealers) + 1 <= Cardinality(Sealers')
    BY <2>1, <2>2, OneMoreTurn
  <2>4. /\ Cardinality(Sealers) \in Nat /\ Cardinality(Sealers') \in Nat
        /\ Cardinality(Putters) \in Nat /\ Cardinality(Putters') \in Nat
        /\ Cardinality(Putters) <= Cardinality(Putters')
    BY <2>1, <2>2, SomeTurns
  <2>5. Len(points) \in Nat /\ points' = points
    BY <1>7 DEF ThreadInv, Typed, memory
  <2> QED
    BY <1>6, <2>3, <2>4, <2>5 DEF ThreadInv, Counted
<1>9. PointsExist'
  <2>1. \A u \in Turns : turn'[u].point <= Len(points)
    BY <1>2, <1>5 DEF ThreadInv, Typed, PointsExist
  <2>2. \A b \in DOMAIN bundles' : bundles'[b].point <= Len(points)
    BY <1>4, <1>6 DEF ThreadInv, PointsExist
  <2> QED
    BY <1>7, <2>1, <2>2 DEF ThreadInv, PointsExist, memory, history
<1>10. BundlesExist'
  BY <1>1, <1>6, <1>7 DEF ThreadInv, BundlesExist, pane
<1>11. Typed'
  <2>1. turn' \in [Turns -> TurnStates]
    BY <1>1, <1>2, TurnGoesOn DEF ThreadInv
  <2> QED
    BY <2>1, <1>1, <1>6, <1>7 DEF ThreadInv, Typed, pane, memory, chat, history
<1> QED
  BY <1>8, <1>9, <1>10, <1>11 DEF ThreadInv

-----------------------------------------------------------------------------
(* The chat, the restore and the end of the program.                          *)

LEMMA AppendKeeps ==
  ASSUME ThreadInv, NEW m \in posts, AppendMessage(m)
  PROVE  ThreadInv'
<1> DEFINE parent == IF m.parent = NoId THEN active ELSE m.parent
<1>1. m \in Posts
  BY DEF ThreadInv, Typed
<1>2. m.id \in Ids /\ parent \in Ids \cup {NoId}
  BY <1>1 DEF Posts, ThreadInv, Typed
<1>3. WayTo(parent) \in SUBSET Ids
  BY <1>2 DEF WayTo, ThreadInv, Typed
<1>4. /\ messages' \in {messages, [messages EXCEPT ![m.id] = WayTo(parent) \cup {m.id}]}
      /\ active' \in {active, m.id} /\ late' \in BOOLEAN
  BY DEF AppendMessage, ThreadInv, Typed
<1>5. /\ UNCHANGED <<forgotten, pane, turn, streams, registry, memory, work, bundles, owed, disturbed, mishaps>>
      /\ posts' = posts \ {m}
  BY DEF AppendMessage
<1>6. messages' \in [Ids -> SUBSET Ids] /\ active' \in Ids \cup {NoId} /\ posts' \in SUBSET Posts
  BY <1>2, <1>3, <1>4, <1>5 DEF ThreadInv, Typed
<1>7. Typed'
  BY <1>4, <1>5, <1>6 DEF ThreadInv, Typed, pane, registry, memory
<1>8. Counted' /\ PointsExist' /\ BundlesExist'
  BY <1>5 DEF ThreadInv, Counted, Putters, Sealers, PointsExist, BundlesExist, pane, registry, memory
<1> QED
  BY <1>7, <1>8 DEF ThreadInv

(* An abort marks a turn and drops the entry of its stream.                   *)
LEMMA AbortTyped ==
  ASSUME Typed, Abort
  PROVE  /\ turn' \in [Turns -> TurnStates] /\ streams' = None
         /\ \A t \in Turns : /\ turn'[t].put = turn[t].put /\ turn'[t].step = turn[t].step
                              /\ turn'[t].point = turn[t].point
<1>1. CASE streams = None
  BY <1>1 DEF Abort, Typed
<1>2. CASE streams # None
  <2> DEFINE y == [turn[streams] EXCEPT !.aborted = TRUE]
  <2>1. streams \in Turns /\ turn[streams] \in TurnStates
    BY <1>2 DEF Typed
  <2>2. turn' = [turn EXCEPT ![streams] = y] /\ streams' = None
    BY <1>2 DEF Abort, Typed
  <2>3. /\ y \in TurnStates /\ y.put = turn[streams].put /\ y.step = turn[streams].step
        /\ y.point = turn[streams].point
    BY <2>1, TurnFields DEF TurnStates
  <2> HIDE DEF y
  <2>4. /\ turn' \in [Turns -> TurnStates] /\ turn'[streams] = y
        /\ \A u \in Turns : u # streams => turn'[u] = turn[u]
    BY <2>1, <2>2, <2>3, TurnGoesOn
  <2> QED
    BY <2>2, <2>3, <2>4
<1> QED
  BY <1>1, <1>2

(* The counts and names depend on few of a turn's fields.                     *)
LEMMA AbortSame ==
  ASSUME ThreadInv, Abort, UNCHANGED <<points, bundles, effective, pending, current, cached, head, owed>>
  PROVE  Counted' /\ PointsExist'
<1>1. \A t \in Turns : /\ turn'[t].put = turn[t].put /\ turn'[t].step = turn[t].step
                       /\ turn'[t].point = turn[t].point
  BY AbortTyped DEF ThreadInv
<1>2. Counted'
  <2>1. \A t \in Turns : Onward(turn[t], turn'[t])
    BY <1>1 DEF Onward, Past
  <2> QED
    BY <2>1, CountsStay DEF ThreadInv
<1> QED
  BY <1>1, <1>2 DEF ThreadInv, PointsExist

LEMMA CancelKeeps ==
  ASSUME ThreadInv, Cancel
  PROVE  ThreadInv'
<1>1. /\ Abort /\ streaming' = FALSE
      /\ UNCHANGED <<restore, restores, registry, memory, chat, work, bundles, history>>
  BY DEF Cancel
<1>2. Counted' /\ PointsExist'
  BY <1>1, AbortSame DEF registry, memory, history
<1>3. turn' \in [Turns -> TurnStates] /\ streams' = None
  BY <1>1, AbortTyped DEF ThreadInv
<1>4. Typed' /\ BundlesExist'
  BY <1>1, <1>3 DEF ThreadInv, Typed, BundlesExist, registry, memory, chat, history
<1> QED
  BY <1>2, <1>4 DEF ThreadInv

LEMMA PostRestoreKeeps ==
  ASSUME ThreadInv, PostRestore
  PROVE  ThreadInv'
<1>1. /\ Abort /\ restore.step = "flushing" /\ restore' = [restore EXCEPT !.step = "posted"]
      /\ UNCHANGED <<streaming, restores, registry, memory, chat, work, bundles, history>>
  BY DEF PostRestore
<1>2. Counted' /\ PointsExist'
  BY <1>1, AbortSame DEF registry, memory, history
<1>3. turn' \in [Turns -> TurnStates] /\ streams' = None
  BY <1>1, AbortTyped DEF ThreadInv
<1>4. /\ restore' \in [step : {"idle", "flushing", "posted", "served"}, bundle : 0 .. MaxTurns]
      /\ restore'.bundle = restore.bundle
  BY <1>1 DEF ThreadInv, Typed
<1>5. Typed' /\ BundlesExist'
  BY <1>1, <1>3, <1>4 DEF ThreadInv, Typed, BundlesExist, registry, memory, chat, history
<1> QED
  BY <1>2, <1>5 DEF ThreadInv

LEMMA StartRestoreKeeps ==
  ASSUME ThreadInv, StartRestore
  PROVE  ThreadInv'
<1>1. PICK b \in DOMAIN bundles : restore' = [step |-> "flushing", bundle |-> b]
  BY DEF StartRestore
<1>2. b \in 0 .. MaxTurns
  <2>1. Len(bundles) \in 0 .. MaxTurns
    BY Bounded
  <2>2. b \in 1 .. Len(bundles)
    BY DEF ThreadInv, Typed
  <2> QED
    BY <2>1, <2>2, ThreadAssumption
<1>3. /\ UNCHANGED <<forgotten, streaming, turn, streams, registry, memory, chat, work, bundles, owed, late, mishaps>>
      /\ disturbed' \in BOOLEAN /\ restores' \in 0 .. MaxRestores
  BY ThreadAssumption DEF StartRestore, Disturb, ThreadInv, Typed
<1>4. Typed' /\ BundlesExist'
  BY <1>1, <1>2, <1>3 DEF ThreadInv, Typed, BundlesExist, registry, memory, chat
<1>5. Counted' /\ PointsExist'
  BY <1>3 DEF ThreadInv, Counted, Putters, Sealers, PointsExist, registry, memory
<1> QED
  BY <1>4, <1>5 DEF ThreadInv

LEMMA ServeRestoreKeeps ==
  ASSUME ThreadInv, ServeRestore
  PROVE  ThreadInv'
<1> DEFINE bundle == bundles[restore.bundle]
<1>1. /\ restore.bundle \in DOMAIN bundles
      /\ restore' = [restore EXCEPT !.step = "served"]
  BY DEF ServeRestore, ThreadInv, BundlesExist
<1>2. /\ bundle.point \in Nat /\ bundle.point <= Len(points) /\ bundle.chat \in Ids \cup {NoId}
      /\ bundle.work \in [Instances -> SUBSET Turns]
  BY <1>1, BundleTyped DEF ThreadInv, PointsExist
<1>3. /\ work' = bundle.work
      /\ messages' \in {messages, [m \in Ids |-> {}]}
      /\ active' \in {NoId, bundle.chat, active}
      /\ head' \in {bundle.point, head}
  BY DEF ServeRestore
<1> HIDE DEF bundle
<1>4. /\ UNCHANGED <<streaming, restores, turn, streams, registry, cached, points, posts, bundles,
                     owed, late, mishaps, forgotten>>
      /\ disturbed' \in BOOLEAN
  BY DEF ServeRestore, Disturb
<1>5. /\ restore' \in [step : {"idle", "flushing", "posted", "served"}, bundle : 0 .. MaxTurns]
      /\ restore'.bundle = restore.bundle
  BY <1>1 DEF ThreadInv, Typed
<1>6. /\ messages' \in [Ids -> SUBSET Ids] /\ active' \in Ids \cup {NoId}
      /\ head' \in Nat /\ head' <= Len(points)
  BY <1>2, <1>3 DEF ThreadInv, Typed, PointsExist
<1>7. Typed' /\ BundlesExist'
  BY <1>1, <1>2, <1>3, <1>4, <1>5, <1>6 DEF ThreadInv, Typed, BundlesExist, registry
<1>8. Counted' /\ PointsExist'
  BY <1>4, <1>6 DEF ThreadInv, Counted, Putters, Sealers, PointsExist, registry
<1> QED
  BY <1>7, <1>8 DEF ThreadInv

LEMMA NoRestoreTyped ==
  /\ NoRestore \in [step : {"idle", "flushing", "posted", "served"}, bundle : 0 .. MaxTurns]
  /\ NoRestore.step = "idle"
BY ThreadAssumption DEF NoRestore, None

LEMMA FailRestoreKeeps ==
  ASSUME ThreadInv, FailRestore
  PROVE  ThreadInv'
<1>1. PICK I \in SUBSET Instances \ {Instances} :
        work' = [i \in Instances |-> IF i \in I THEN bundles[restore.bundle].work[i] ELSE work[i]]
  BY DEF FailRestore
<1>2. restore.bundle \in DOMAIN bundles
  BY DEF FailRestore, ThreadInv, BundlesExist
<1>3. bundles[restore.bundle].work \in [Instances -> SUBSET Turns] /\ work \in [Instances -> SUBSET Turns]
  BY <1>2, BundleTyped DEF ThreadInv, Typed
<1>4. work' \in [Instances -> SUBSET Turns]
  BY <1>1, <1>3
<1>5. /\ UNCHANGED <<forgotten, streaming, restores, turn, streams, registry, memory, chat, bundles, owed, late>>
      /\ restore' = NoRestore /\ disturbed' \in BOOLEAN
  BY DEF FailRestore, Disturb
<1>8. mishaps' \in 0 .. MaxMishaps
  BY ThreadAssumption DEF FailRestore, ThreadInv, Typed
<1>6. Typed' /\ BundlesExist'
  BY <1>4, <1>5, <1>8, NoRestoreTyped DEF ThreadInv, Typed, BundlesExist, registry, memory, chat
<1>7. Counted' /\ PointsExist'
  BY <1>5 DEF ThreadInv, Counted, Putters, Sealers, PointsExist, registry, memory
<1> QED
  BY <1>6, <1>7 DEF ThreadInv

LEMMA FinishRestoreKeeps ==
  ASSUME ThreadInv, FinishRestore
  PROVE  ThreadInv'
<1> DEFINE bundle == bundles[restore.bundle]
<1>1. restore.bundle \in DOMAIN bundles /\ restore' = NoRestore
  BY DEF FinishRestore, ThreadInv, BundlesExist
<1>2. bundle.point \in Nat /\ bundle.point <= Len(points)
  BY <1>1, BundleTyped DEF ThreadInv, PointsExist
<1>3. /\ pending' \in {bundle.point, pending} /\ effective' \in {bundle.point, effective}
      /\ owed' \in {bundle.point, owed}
  BY DEF FinishRestore
<1> HIDE DEF bundle
<1>4. /\ UNCHANGED <<forgotten, restores, turn, streams, memory, chat, work, bundles, disturbed, late, mishaps>>
      /\ current' = restore.bundle /\ streaming' = FALSE
  BY DEF FinishRestore
<1>5. /\ pending' \in Nat /\ effective' \in Nat /\ owed' \in Nat
      /\ pending' <= Len(points) /\ effective' <= Len(points) /\ owed' <= Len(points)
  BY <1>2, <1>3 DEF ThreadInv, Typed, PointsExist
<1>6. current' \in Nat /\ current' <= Len(bundles)
  BY <1>1, <1>4 DEF ThreadInv, Typed
<1>7. Typed' /\ BundlesExist'
  BY <1>1, <1>4, <1>5, <1>6, NoRestoreTyped DEF ThreadInv, Typed, BundlesExist, memory, chat
<1>8. Counted' /\ PointsExist'
  BY <1>4, <1>5 DEF ThreadInv, Counted, Putters, Sealers, PointsExist, memory
<1> QED
  BY <1>7, <1>8 DEF ThreadInv

LEMMA RestartKeeps ==
  ASSUME ThreadInv, Restart
  PROVE  ThreadInv'
<1> DEFINE ended == [NoTurn EXCEPT !.step = "done"]
<1>1. ended \in TurnStates /\ ended.step = "done" /\ ended.point = 0
  BY FreshTurn DEF Steps, NoTurn, None
<1>2. turn' = [t \in Turns |-> IF turn[t].step = "idle" THEN turn[t] ELSE ended]
  BY DEF Restart
<1> HIDE DEF ended
<1>3. turn' \in [Turns -> TurnStates]
  BY <1>1, <1>2 DEF ThreadInv, Typed
<1>4. \A t \in Turns : Onward(turn[t], turn'[t]) /\ turn'[t].point <= Len(points)
  BY <1>1, <1>2 DEF ThreadInv, Typed, PointsExist, Onward, Past
<1>5. /\ UNCHANGED <<restores, points, head, messages, active, work, bundles, late>>
      /\ effective' = 0 /\ pending' = 0 /\ current' = 0 /\ cached' = 0 /\ owed' = 0
      /\ streaming' = FALSE /\ streams' = None /\ restore' = NoRestore /\ posts' = {}
      /\ disturbed' \in BOOLEAN /\ mishaps' \in 0 .. MaxMishaps
  BY ThreadAssumption DEF Restart, Disturb, None, ThreadInv, Typed
<1>10. forgotten' \subseteq Turns
  BY DEF Restart, Said, ThreadInv, Typed
<1>9. posts' \in SUBSET Posts
  BY <1>5
<1>6. Typed' /\ BundlesExist'
  <2>1. /\ effective' \in Nat /\ pending' \in Nat /\ current' \in Nat /\ cached' \in Nat /\ owed' \in Nat
        /\ streaming' \in BOOLEAN
        /\ restore' \in [step : {"idle", "flushing", "posted", "served"}, bundle : 0 .. MaxTurns]
    BY <1>5, NoRestoreTyped
  <2>2. Typed'
    BY <1>3, <1>5, <1>9, <1>10, <2>1 DEF ThreadInv, Typed
  <2>3. Len(bundles) \in Nat
    BY DEF ThreadInv, Typed
  <2> QED
    BY <1>5, <2>2, <2>3, NoRestoreTyped DEF BundlesExist
<1>7. Counted'
  BY <1>4, <1>5, CountsStay DEF ThreadInv
<1>8. PointsExist'
  BY <1>4, <1>5 DEF ThreadInv, Typed, PointsExist
<1> QED
  BY <1>6, <1>7, <1>8 DEF ThreadInv

LEMMA ThreadStep == ThreadInv /\ [Next]_vars => ThreadInv'
<1>1. SUFFICES ASSUME ThreadInv, [Next]_vars PROVE ThreadInv'
  OBVIOUS
<1>2. CASE UNCHANGED vars
  BY <1>1, <1>2 DEF ThreadInv, Typed, Counted, Putters, Sealers, PointsExist, BundlesExist, vars, pane,
                    registry, memory, chat, history
<1>3. CASE Next
  BY <1>1, <1>3, SendKeeps, ReadParentKeeps, BeginKeeps, WorkKeeps, StopKeeps, EndTurnKeeps,
     FailTurnKeeps, ReadEffectiveKeeps, GatherWorkKeeps, SealKeeps, AppendKeeps, CancelKeeps,
     StartRestoreKeeps, PostRestoreKeeps, ServeRestoreKeeps, FailRestoreKeeps, FinishRestoreKeeps,
     RestartKeeps DEF Next
<1> QED
  BY <1>1, <1>2, <1>3

LEMMA ThreadAlways == Spec => []ThreadInv
BY ThreadInit, ThreadStep, PTL DEF Spec

(* Everything is of its type: each turn puts at most one checkpoint and seals *)
(* at most one bundle, and no checkpoint or bundle is named that is not there.*)
THEOREM ThreadTypeCorrect == Spec => []ThreadTypeOK
BY ThreadAlways, InvTyped, PTL

-----------------------------------------------------------------------------
(* After a restore.                                                           *)

(* The branch that is owed is pending until a turn consumes both.             *)
Owed == owed # None => pending = owed

LEMMA OwedStep == Owed /\ [Next]_vars => Owed'
<1>1. SUFFICES ASSUME Owed, [Next]_vars PROVE Owed'
  OBVIOUS
<1>2. CASE FinishRestore
  BY <1>1, <1>2 DEF FinishRestore, Owed, None
<1>3. CASE Restart
  BY <1>3 DEF Restart, Owed, None
<1>4. ASSUME NEW t \in Turns, Begin(t) PROVE Owed'
  BY <1>4 DEF Begin, Owed, None
<1>5. CASE UNCHANGED <<pending, owed>>
  BY <1>1, <1>5 DEF Owed
<1>6. CASE UNCHANGED vars
  BY <1>5, <1>6 DEF vars, registry, history
<1>7. CASE Cancel \/ StartRestore \/ PostRestore \/ ServeRestore \/ FailRestore
  BY <1>5, <1>7 DEF Cancel, StartRestore, PostRestore, ServeRestore, FailRestore, registry, history
<1>8. ASSUME NEW t \in Turns,
             \/ Send(t) \/ ReadParent(t) \/ Work(t) \/ Stop(t) \/ EndTurn(t)
             \/ FailTurn(t) \/ ReadEffective(t) \/ GatherWork(t) \/ Seal(t)
      PROVE  Owed'
  BY <1>5, <1>8 DEF Send, ReadParent, Work, Stop, EndTurn, FailTurn, ReadEffective, GatherWork, Seal,
                    registry, history
<1>9. ASSUME NEW m \in posts, AppendMessage(m) PROVE Owed'
  BY <1>5, <1>9 DEF AppendMessage, registry
<1> QED
  BY <1>1, <1>2, <1>3, <1>4, <1>6, <1>7, <1>8, <1>9 DEF Next

Begins(t) == turn[t].step = "setup" /\ turn'[t].step = "running"

LEMMA OnlyBeginBegins ==
  ASSUME ThreadInv, [Next]_vars, NEW t \in Turns, Begins(t)
  PROVE  Begin(t)
<1>1. CASE UNCHANGED turn
  BY <1>1 DEF Begins
<1>2. CASE UNCHANGED vars
  BY <1>1, <1>2 DEF vars
<1>3. CASE \/ StartRestore \/ ServeRestore \/ FailRestore \/ FinishRestore
           \/ \E m \in posts : AppendMessage(m)
  BY <1>1, <1>3 DEF StartRestore, ServeRestore, FailRestore, FinishRestore, AppendMessage
<1>4. CASE Restart
  BY <1>4 DEF Restart, Begins, NoTurn
<1>5. CASE Cancel \/ PostRestore
  <2>1. turn' = turn \/ \E u \in Turns : turn' = [turn EXCEPT ![u].aborted = TRUE]
    BY <1>5 DEF Cancel, PostRestore, Abort, ThreadInv, Typed
  <2>2. ASSUME NEW u \in Turns, turn' = [turn EXCEPT ![u].aborted = TRUE] PROVE turn'[t].step = turn[t].step
    BY <2>2 DEF ThreadInv, Typed, TurnStates
  <2>3. turn'[t].step = turn[t].step
    BY <2>1, <2>2
  <2> QED
    BY <2>3 DEF Begins
<1>6. ASSUME NEW u \in Turns, Begin(u) PROVE Begin(t)
  <2>1. u # t => turn'[t] = turn[t]
    BY <1>6 DEF Begin, ThreadInv, Typed
  <2> QED
    BY <1>6, <2>1 DEF Begins
<1>7. ASSUME NEW u \in Turns,
             \/ Send(u) \/ ReadParent(u) \/ Work(u) \/ Stop(u) \/ EndTurn(u)
             \/ FailTurn(u) \/ ReadEffective(u) \/ GatherWork(u) \/ Seal(u)
      PROVE  FALSE
  <2>1. turn \in [Turns -> TurnStates]
    BY DEF ThreadInv, Typed
  <2>2. CASE Send(u) \/ ReadParent(u) \/ Stop(u)
    BY <2>1, <2>2 DEF Send, ReadParent, Stop, Begins, TurnStates
  <2>3. CASE Work(u)
    BY <2>1, <2>3 DEF Work, Begins, TurnStates
  <2>4. CASE EndTurn(u) \/ FailTurn(u) \/ Seal(u)
    BY <2>1, <2>4 DEF EndTurn, FailTurn, Seal, Begins, TurnStates, NoTurn
  <2>5. CASE ReadEffective(u) \/ GatherWork(u)
    BY <2>1, <2>5 DEF ReadEffective, GatherWork, Begins, TurnStates
  <2> QED
    BY <1>7, <2>2, <2>3, <2>4, <2>5
<1> QED
  BY <1>2, <1>3, <1>4, <1>5, <1>6, <1>7 DEF Next

(* A step of the property.                                                    *)
ContinuesRestored ==
  \A t \in Turns :
    turn[t].step = "setup" /\ turn'[t].step = "running" /\ owed # None
      => turn'[t].memory = points[owed] \cup {t}

LEMMA BeginContinuesRestored ==
  ASSUME ThreadInv, Owed, [Next]_vars
  PROVE  ContinuesRestored
<1>1. SUFFICES ASSUME NEW t \in Turns, Begins(t), owed # None
               PROVE  turn'[t].memory = points[owed] \cup {t}
  BY DEF ContinuesRestored, Begins
<1>2. Begin(t)
  BY <1>1, OnlyBeginBegins
<1>3. Memory(pending) = points[owed] /\ pending # None
  BY <1>1 DEF Owed, Memory
<1> QED
  BY <1>2, <1>3 DEF Begin, ThreadInv, Typed, TurnStates

(* The first turn to begin after a restore was answered continues from the    *)
(* restored checkpoint.                                                       *)
THEOREM RestoredBranchIsNext == Spec => NextTurnContinuesRestored
<1>1. Init => Owed
  BY DEF Init, Owed, None
<1>2. ThreadInv /\ Owed /\ [Next]_vars => [ContinuesRestored]_vars
  BY BeginContinuesRestored
<1>3. NextTurnContinuesRestored <=> [][ContinuesRestored]_vars
  BY DEF NextTurnContinuesRestored, ContinuesRestored
<1> QED
  BY <1>1, <1>2, <1>3, OwedStep, ThreadAlways, PTL DEF Spec

-----------------------------------------------------------------------------
(* An undisturbed thread: what holds together while nothing overlapped what   *)
(* went on and no message came late.                                          *)

(* The branch on the screen with what is on its way to it, and the bundle     *)
(* that the next one descends from.                                           *)
Branch == WayTo(active) \cup {m.id : m \in posts}
Origin == IF current # None THEN current ELSE Len(bundles)

(* A memory and the contents of the instances belong to a branch.             *)
Belongs(M, w, way) == Fits(M, way) /\ \A i \in Instances : w[i] \subseteq Said(way, "user")

(* One turn or one restore goes on, and what is posted is of that turn.       *)
Alone ==
  /\ \A t \in Turns : Ongoing(t) =>
       /\ restore.step = "idle" /\ \A u \in Turns : Ongoing(u) => u = t
       /\ \A m \in posts : m.id[1] = t
  /\ restore.step # "idle" => posts = {}

(* A message on its way continues the branch: the user's follows the active   *)
(* one, the answer follows the user's, and a notice follows what is active.   *)
UserPost(m) ==
  /\ turn[m.id[1]].step \in {"setup", "running", "saving"}
  /\ m.id[2] = "user" /\ ~Present(m.id) /\ m.parent = active
AnswerPost(m) ==
  /\ turn[m.id[1]].step = "saving"
  /\ m.id[2] = "assistant" /\ m.parent = <<m.id[1], "user">>
  /\ Present(m.parent) => active = m.parent
NoticePost(m) ==
  /\ turn[m.id[1]].step = "done"
  /\ m.parent = NoId /\ (Present(m.id) => m.id \in WayTo(active))
PostsSound == \A m \in posts : UserPost(m) \/ AnswerPost(m) \/ NoticePost(m)

(* The messages of a turn are not there before it says them, and those of the *)
(* turn that goes on are on the branch.                                       *)
TurnChat(t) ==
  /\ turn[t].step \in {"idle", "lookup"} => \A r \in Roles : ~Present(<<t, r>>)
  /\ turn[t].step # "done" => ~Present(<<t, "notice">>)
  /\ turn[t].step \in {"setup", "running"} =>
       ~Present(<<t, "assistant">>) /\ (Present(<<t, "user">>) => active = <<t, "user">>)
  /\ Ongoing(t) => \A r \in Roles : Present(<<t, r>>) => <<t, r>> \in WayTo(active)
  /\ turn[t].step \in {"setup", "running", "saving"} => <<t, "user">> \in Branch

(* A turn continues from the restore head, its checkpoint is the head, and    *)
(* what its capture has read is still so.                                     *)
TurnMemory(t) ==
  /\ turn[t].put => turn[t].step \in {"running", "saving"} /\ t \in Memory(head)
  /\ turn[t].step = "running" => pending = None
  /\ turn[t].step = "running" /\ turn[t].put => cached = head
  /\ turn[t].step = "running" /\ ~turn[t].put => turn[t].memory = Memory(head) \cup {t}
  /\ turn[t].step = "saving" => effective = head
  /\ turn[t].step = "sealing" => turn[t].work = work /\ turn[t].from = Origin

TurnsSound == \A t \in Turns : TurnChat(t) /\ TurnMemory(t)

AlignedNow == Belongs(Memory(head), work, Branch)

(* A pending branch is where the head is, and without a head there is no      *)
(* checkpoint.                                                                *)
Continues ==
  /\ pending # None /\ restore.step # "served" => pending = head
  /\ head = None => points = <<>>

(* A restore that was answered has moved the head and the chat.               *)
Served ==
  restore.step = "served" =>
    /\ bundles[restore.bundle].point # None
    /\ head = bundles[restore.bundle].point /\ active = bundles[restore.bundle].chat

(* A bundle is one moment of its branch, and so is its parent.                *)
BundleSound(b) ==
  /\ bundles[b].chat = NoId \/ Present(bundles[b].chat)
  /\ \A i \in Instances : bundles[b].work[i] \subseteq Said(WayTo(bundles[b].chat), "user")
  /\ bundles[b].from <= Len(bundles)
  /\ bundles[b].from # None => WayTo(bundles[bundles[b].from].chat) \subseteq WayTo(bundles[b].chat)
BundlesSound == \A b \in DOMAIN bundles : BundleSound(b)

(* The next bundle's parent is on the branch.                                 *)
OriginSound ==
  restore.step # "served" /\ Origin # None => WayTo(bundles[Origin].chat) \subseteq WayTo(active)

ActiveThere == active = NoId \/ Present(active)

Undisturbed == /\ Alone /\ PostsSound /\ TurnsSound /\ AlignedNow /\ Continues
               /\ Served /\ BundlesSound /\ OriginSound /\ ActiveThere

(* The effective checkpoint fits the branch, and so does one that a capture   *)
(* has read, and that of a bundle fits the branch of the bundle.              *)
CapturesRecall ==
  \A t \in Turns : turn[t].step \in {"gathering", "sealing"} => Recalls(turn[t].point, Branch)
BundlesRecall == \A b \in DOMAIN bundles : Recalls(bundles[b].point, WayTo(bundles[b].chat))
Recollection ==
  /\ restore.step # "served" => Recalls(effective, Branch)
  /\ CapturesRecall /\ BundlesRecall

CalmInv == ~disturbed /\ ~late => Undisturbed /\ Recollection

LEMMA CalmInit == Init => CalmInv
<1>1. SUFFICES ASSUME Init PROVE Undisturbed /\ Recollection
  BY DEF CalmInv
<1>2. /\ turn = [t \in Turns |-> NoTurn] /\ NoTurn.step = "idle" /\ NoTurn.put = FALSE
      /\ \A m \in Ids : messages[m] = {}
      /\ posts = {} /\ active = NoId /\ head = 0 /\ pending = 0 /\ current = 0 /\ points = <<>>
      /\ bundles = <<>> /\ restore.step = "idle" /\ \A i \in Instances : work[i] = {}
  BY <1>1 DEF Init, NoTurn, NoRestore, NoWork, None
<1>3. \A t \in Turns : ~Ongoing(t)
  BY <1>2 DEF Ongoing
<1>4. TurnsSound
  <2>1. SUFFICES ASSUME NEW t \in Turns PROVE TurnChat(t) /\ TurnMemory(t)
    BY DEF TurnsSound
  <2>2. \A r \in Roles : <<t, r>> \in Ids
    BY DEF Ids
  <2>3. turn[t].step = "idle" /\ turn[t].put = FALSE
    BY <1>2
  <2> QED
    BY <1>2, <1>3, <2>2, <2>3 DEF TurnChat, TurnMemory, Present, Roles
<1>5. AlignedNow
  BY <1>2 DEF AlignedNow, Belongs, Fits, Said, Branch, Memory, WayTo, None
<1>6. DOMAIN bundles = {} /\ Origin = 0
  BY <1>2 DEF Origin, None
<1>7. Recollection
  <2>1. effective = None /\ Said(Branch, "assistant") = {}
    BY <1>1, <1>2 DEF Init, Branch, WayTo, Said
  <2> QED
    BY <1>2, <1>6, <2>1 DEF Recollection, CapturesRecall, BundlesRecall, Recalls
<1> QED
  BY <1>2, <1>3, <1>4, <1>5, <1>6, <1>7 DEF Undisturbed, Alone, PostsSound, Continues, Served, BundlesSound,
     OriginSound, ActiveThere, None

-----------------------------------------------------------------------------
(* What a step leaves as it was.                                              *)

(* A message that is there, or none.                                          *)
There(c) == c = NoId \/ (c \in Ids /\ Present(c))

(* A branch and a memory that belong to it grow together.                     *)
LEMMA BelongsMore ==
  ASSUME NEW M, NEW w, NEW way, NEW longer, Belongs(M, w, way), way \subseteq longer,
         \A t \in Turns : <<t, "assistant">> \in longer => <<t, "assistant">> \in way \/ t \in M
  PROVE  Belongs(M, w, longer)
BY DEF Belongs, Fits, Said

LEMMA BundleFields ==
  ASSUME ThreadInv, NEW b \in DOMAIN bundles
  PROVE  /\ bundles[b].point \in Nat /\ bundles[b].point <= Len(points)
         /\ bundles[b].chat \in Ids \cup {NoId}
         /\ bundles[b].work \in [Instances -> SUBSET Turns] /\ bundles[b].from \in Nat
<1>1. bundles[b] \in Bundles
  BY DEF ThreadInv, Typed
<1>2. bundles[b].from \in Nat
  BY <1>1, ThreadAssumption DEF Bundles
<1> QED
  BY <1>2, BundleTyped DEF ThreadInv, PointsExist

(* Bundles that were stored stay sound while what they name stays.            *)
LEMMA BundlesStay ==
  ASSUME ThreadInv, BundlesSound, UNCHANGED bundles,
         \A c : There(c) => There(c)' /\ WayTo(c)' = WayTo(c)
  PROVE  BundlesSound'
<1>1. SUFFICES ASSUME NEW b \in DOMAIN bundles PROVE BundleSound(b)'
  BY DEF BundlesSound
<1>2. BundleSound(b)
  BY DEF BundlesSound
<1>3. /\ bundles[b].chat \in Ids \cup {NoId} /\ bundles[b].from \in Nat
      /\ bundles[b].point \in Nat /\ bundles[b].point <= Len(points)
  BY BundleFields
<1>4. There(bundles[b].chat)
  BY <1>2, <1>3 DEF BundleSound, There
<1>5. WayTo(bundles[b].chat)' = WayTo(bundles[b].chat) /\ There(bundles[b].chat)'
  BY <1>4
<1>7. ASSUME bundles[b].from # None
      PROVE  (WayTo(bundles[bundles[b].from].chat) \subseteq WayTo(bundles[b].chat))'
  <2>1. bundles[b].from \in DOMAIN bundles
    BY <1>2, <1>3, <1>7 DEF BundleSound, None, ThreadInv, Typed
  <2>2. There(bundles[bundles[b].from].chat)
    BY <2>1, BundleFields DEF BundlesSound, BundleSound, There
  <2>3. WayTo(bundles[bundles[b].from].chat)' = WayTo(bundles[bundles[b].from].chat)
    BY <2>2
  <2> QED
    BY <1>2, <1>5, <1>7, <2>3 DEF BundleSound
<1> QED
  BY <1>2, <1>5, <1>7 DEF BundleSound, There

(* The rest of them is as it was while the chat is.                           *)
LEMMA ChatStays ==
  ASSUME UNCHANGED messages
  PROVE  /\ \A c : There(c) => There(c)' /\ WayTo(c)' = WayTo(c)
         /\ \A c : WayTo(c)' = WayTo(c) /\ (Present(c)' <=> Present(c))
BY DEF There, WayTo, Present

LEMMA PointsStay ==
  ASSUME UNCHANGED points
  PROVE  \A p : Memory(p)' = Memory(p)
BY DEF Memory

LEMMA OriginStays ==
  ASSUME OriginSound, UNCHANGED <<current, bundles, messages, active>>,
         restore'.step # "served" => restore.step # "served"
  PROVE  OriginSound' /\ Origin' = Origin
<1>1. Origin' = Origin
  BY DEF Origin
<1> QED
  BY <1>1, ChatStays DEF OriginSound

(* Turns that rest are as they were while the chat is.                        *)
LEMMA RestingStay ==
  ASSUME NEW t \in Turns, TurnChat(t), TurnMemory(t), ~Ongoing(t), UNCHANGED messages,
         turn'[t] = turn[t]
  PROVE  TurnChat(t)' /\ TurnMemory(t)'
<1>1. turn[t].step \in {"idle", "done"} /\ ~turn[t].put
  BY DEF Ongoing, TurnMemory
<1>2. turn'[t].step \in {"idle", "done"} /\ ~turn'[t].put /\ ~Ongoing(t)'
  BY <1>1 DEF Ongoing
<1> QED
  BY <1>1, <1>2, ChatStays DEF TurnChat, TurnMemory

-----------------------------------------------------------------------------
(* The turns, undisturbed.                                                    *)

(* Who does not go on rests while a turn goes on.                             *)
LEMMA OthersRest ==
  ASSUME ThreadInv, Undisturbed, NEW t \in Turns, Ongoing(t), NEW y \in TurnStates,
         turn' = [turn EXCEPT ![t] = y], UNCHANGED <<restore, messages, active>>,
         y.step = "done" \/ \A m \in posts' : m.id[1] = t
  PROVE  /\ Alone' /\ Served' /\ ActiveThere' /\ restore.step = "idle"
         /\ turn'[t] = y
         /\ \A u \in Turns : u # t => TurnChat(u)' /\ TurnMemory(u)'
<1>1. turn'[t] = y /\ \A u \in Turns : u # t => turn'[u] = turn[u]
  BY TurnGoesOn DEF ThreadInv
<1>2. /\ restore.step = "idle" /\ \A u \in Turns : u # t => ~Ongoing(u)
      /\ \A m \in posts : m.id[1] = t
  BY DEF Undisturbed, Alone
<1>3. \A u \in Turns : u # t => ~Ongoing(u)'
  BY <1>1, <1>2 DEF Ongoing
<1>4. Alone'
  <2>1. CASE y.step = "done"
    BY <1>1, <1>2, <1>3, <2>1 DEF Alone, Ongoing
  <2>2. CASE \A m \in posts' : m.id[1] = t
    BY <1>2, <1>3, <2>2 DEF Alone
  <2> QED
    BY <2>1, <2>2
<1>5. Served' /\ ActiveThere'
  BY <1>2 DEF Served, ActiveThere, Undisturbed, Present
<1>6. ASSUME NEW u \in Turns, u # t PROVE TurnChat(u)' /\ TurnMemory(u)'
  BY <1>1, <1>2, <1>6, RestingStay DEF Undisturbed, TurnsSound
<1> QED
  BY <1>1, <1>2, <1>4, <1>5, <1>6

(* A turn that has posted nothing, or whose posts have arrived, has none on   *)
(* its way.                                                                   *)
LEMMA NothingPosted ==
  ASSUME Undisturbed, NEW t \in Turns,
         turn[t].step \in {"lookup", "flushing", "gathering", "sealing"}
  PROVE  posts = {} /\ Branch = WayTo(active)
<1>1. Ongoing(t)
  BY DEF Ongoing
<1>2. \A m \in posts : m.id[1] = t
  BY <1>1 DEF Undisturbed, Alone
<1>3. \A m \in posts : ~(UserPost(m) \/ AnswerPost(m) \/ NoticePost(m))
  BY <1>2 DEF UserPost, AnswerPost, NoticePost
<1>4. posts = {}
  BY <1>3 DEF Undisturbed, PostsSound
<1> QED
  BY <1>4 DEF Branch

LEMMA IdsOf ==
  ASSUME NEW t \in Turns
  PROVE  /\ <<t, "user">> \in Ids /\ <<t, "assistant">> \in Ids /\ <<t, "notice">> \in Ids
         /\ <<t, "user">> # NoId /\ <<t, "assistant">> # NoId /\ <<t, "notice">> # NoId
BY DEF Ids, Roles, NoId

LEMMA ReadParentCalm ==
  ASSUME ThreadInv, Undisturbed, NEW t \in Turns, ReadParent(t)
  PROVE  Undisturbed'
<1> DEFINE y == [turn[t] EXCEPT !.step = "setup"]
           m == [id |-> <<t, "user">>, parent |-> active]
<1>1. turn' = [turn EXCEPT ![t] = y] /\ turn[t].step = "lookup" /\ posts' = posts \cup {m}
  BY DEF ReadParent, ThreadInv, Typed
<1>2. y \in TurnStates /\ y.step = "setup" /\ y.put = turn[t].put
  <2>1. turn[t] \in TurnStates /\ y \in TurnStates
    BY TurnFields DEF ThreadInv, Typed, Steps
  <2> QED
    BY <2>1 DEF TurnStates
<1>3. m.id[1] = t /\ m.id[2] = "user" /\ m.id = <<t, "user">> /\ m.parent = active
  OBVIOUS
<1> HIDE DEF y, m
<1>4. UNCHANGED <<pane, streams, registry, memory, messages, active, work, bundles, history>>
  BY DEF ReadParent
<1>5. posts = {} /\ posts' = {m} /\ Branch = WayTo(active)
  BY <1>1, NothingPosted
<1>6. Branch' = Branch \cup {<<t, "user">>}
  BY <1>3, <1>4, <1>5, ChatStays DEF Branch
<1>7. /\ Alone' /\ Served' /\ ActiveThere' /\ restore.step = "idle" /\ turn'[t] = y
      /\ \A u \in Turns : u # t => TurnChat(u)' /\ TurnMemory(u)'
  BY <1>1, <1>2, <1>3, <1>4, <1>5, OthersRest DEF pane, Ongoing
<1>8. TurnChat(t) /\ TurnMemory(t)
  BY DEF Undisturbed, TurnsSound
<1>9. /\ \A r \in Roles : ~Present(<<t, r>>)
  BY <1>1, <1>8 DEF TurnChat
<1>10. PostsSound'
  BY <1>1, <1>2, <1>3, <1>4, <1>5, <1>7, <1>9, ChatStays DEF PostsSound, UserPost, Roles
<1>11. TurnChat(t)'
  BY <1>2, <1>4, <1>6, <1>7, <1>9, ChatStays DEF TurnChat, Roles
<1>12. TurnMemory(t)'
  BY <1>1, <1>2, <1>7, <1>8 DEF TurnMemory
<1>13. AlignedNow'
  <2>1. Belongs(Memory(head), work, Branch \cup {<<t, "user">>})
    BY BelongsMore DEF Undisturbed, AlignedNow
  <2> QED
    BY <1>4, <1>6, <2>1, PointsStay DEF AlignedNow, memory
<1>14. Continues' /\ BundlesSound' /\ OriginSound'
  BY <1>4, ChatStays, PointsStay, BundlesStay, OriginStays DEF Undisturbed, Continues, pane, registry, memory
<1> QED
  BY <1>7, <1>10, <1>11, <1>12, <1>13, <1>14 DEF Undisturbed, TurnsSound

LEMMA BeginCalm ==
  ASSUME ThreadInv, Undisturbed, NEW t \in Turns, Begin(t)
  PROVE  Undisturbed'
<1> DEFINE y == [turn[t] EXCEPT !.step = "running",
                               !.memory = Memory(IF pending # None THEN pending ELSE head) \cup {t}]
<1>1. turn' = [turn EXCEPT ![t] = y] /\ turn[t].step = "setup" /\ pending' = None
  BY DEF Begin, ThreadInv, Typed
<1>2. turn[t] \in TurnStates /\ Memory(IF pending # None THEN pending ELSE head) \cup {t} \in SUBSET Turns
  BY MemoryTyped DEF ThreadInv, Typed, PointsExist
<1>3. /\ y \in TurnStates /\ y.step = "running" /\ y.put = turn[t].put
      /\ y.memory = Memory(IF pending # None THEN pending ELSE head) \cup {t}
  <2>1. y \in TurnStates
    BY <1>2, TurnFields DEF Steps
  <2> QED
    BY <1>2, <2>1 DEF TurnStates
<1> HIDE DEF y
<1>4. UNCHANGED <<pane, streams, effective, current, memory, chat, work, bundles>>
  BY DEF Begin
<1>5. \A m \in posts : m.id[1] = t
  BY <1>1 DEF Undisturbed, Alone, Ongoing
<1>6. Branch' = Branch
  BY <1>4, ChatStays DEF Branch, chat
<1>7. /\ Alone' /\ Served' /\ ActiveThere' /\ restore.step = "idle" /\ turn'[t] = y
      /\ \A u \in Turns : u # t => TurnChat(u)' /\ TurnMemory(u)'
  BY <1>1, <1>3, <1>4, <1>5, OthersRest DEF pane, chat, Ongoing
<1>8. TurnChat(t) /\ TurnMemory(t)
  BY DEF Undisturbed, TurnsSound
<1>9. PostsSound'
  <2>1. SUFFICES ASSUME NEW m \in posts PROVE UserPost(m)'
    BY <1>4 DEF PostsSound, chat
  <2>2. UserPost(m)
    BY <1>1, <1>5 DEF Undisturbed, PostsSound, AnswerPost, NoticePost
  <2> QED
    BY <1>3, <1>4, <1>5, <1>7, <2>2, ChatStays DEF UserPost, chat
<1>10. TurnChat(t)'
  BY <1>1, <1>3, <1>4, <1>6, <1>7, <1>8, ChatStays DEF TurnChat, chat, Ongoing
<1>11. (IF pending # None THEN pending ELSE head) = head
  BY <1>7 DEF Undisturbed, Continues
<1>12. TurnMemory(t)'
  <2>1. ~turn[t].put /\ y.memory = Memory(head) \cup {t}
    BY <1>1, <1>3, <1>8, <1>11 DEF TurnMemory
  <2>2. Memory(head)' = Memory(head)
    BY <1>4, PointsStay DEF memory
  <2> QED
    BY <1>1, <1>3, <1>7, <2>1, <2>2 DEF TurnMemory
<1>13. AlignedNow'
  BY <1>4, <1>6, PointsStay DEF Undisturbed, AlignedNow, memory
<1>14. Continues' /\ BundlesSound' /\ OriginSound'
  BY <1>1, <1>4, ChatStays, PointsStay, BundlesStay, OriginStays DEF Undisturbed, Continues, pane, memory, chat
<1> QED
  BY <1>7, <1>9, <1>10, <1>12, <1>13, <1>14 DEF Undisturbed, TurnsSound

(* A checkpoint that was put is the newest, and the others are as they were.  *)
LEMMA PointPut ==
  ASSUME Typed, NEW M \in SUBSET Turns, points' = Append(points, M)
  PROVE  /\ \A p \in Nat : p <= Len(points) => Memory(p)' = Memory(p)
         /\ \A p : p = Len(points) + 1 => p # None
         /\ head' = Len(points) + 1 => Memory(head)' = M
<1>1. points \in Seq(SUBSET Turns) /\ Len(points) \in Nat
  BY DEF Typed
<1>2. /\ points'[Len(points) + 1] = M
      /\ \A p \in 1 .. Len(points) : points'[p] = points[p]
  BY <1>1
<1>3. ASSUME NEW p \in Nat, p <= Len(points) PROVE Memory(p)' = Memory(p)
  <2>1. CASE p = None
    BY <2>1 DEF Memory
  <2>2. CASE p # None
    <3>1. p \in 1 .. Len(points)
      BY <1>1, <1>3, <2>2 DEF None
    <3> QED
      BY <1>2, <2>2, <3>1 DEF Memory
  <2> QED
    BY <2>1, <2>2
<1>4. \A p : p = Len(points) + 1 => p # None
  BY <1>1 DEF None
<1>5. ASSUME head' = Len(points) + 1 PROVE Memory(head)' = M
  <2>1. head' # None
    BY <1>4, <1>5
  <2> QED
    BY <1>2, <1>5, <2>1 DEF Memory
<1> QED
  BY <1>3, <1>4, <1>5

LEMMA WorkCalm ==
  ASSUME ThreadInv, Undisturbed, NEW t \in Turns, Work(t)
  PROVE  Undisturbed'
<1> DEFINE y == [turn[t] EXCEPT !.put = TRUE]
<1>1. /\ turn' = [turn EXCEPT ![t] = y] /\ turn[t].step = "running" /\ ~turn[t].put
      /\ head' = Len(points) + 1 /\ cached' = head' /\ points' = Append(points, turn[t].memory)
  BY DEF Work, ThreadInv, Typed
<1>2. y \in TurnStates /\ y.step = "running" /\ y.put /\ turn[t].memory \in SUBSET Turns
  <2>1. turn[t] \in TurnStates /\ y \in TurnStates
    BY TurnFields DEF ThreadInv, Typed
  <2> QED
    BY <1>1, <2>1 DEF TurnStates
<1> HIDE DEF y
<1>3. UNCHANGED <<pane, streams, registry, chat, bundles, history>>
  BY DEF Work
<1>4. \A m \in posts : m.id[1] = t
  BY <1>1 DEF Undisturbed, Alone, Ongoing
<1>5. Branch' = Branch
  BY <1>3, ChatStays DEF Branch, chat
<1>6. /\ Alone' /\ Served' /\ ActiveThere' /\ restore.step = "idle" /\ turn'[t] = y
      /\ \A u \in Turns : u # t => TurnChat(u)' /\ TurnMemory(u)'
  BY <1>1, <1>2, <1>3, <1>4, OthersRest DEF pane, chat, Ongoing
<1>7. TurnChat(t) /\ TurnMemory(t)
  BY DEF Undisturbed, TurnsSound
<1>8. turn[t].memory = Memory(head) \cup {t} /\ pending = None
  BY <1>1, <1>7 DEF TurnMemory
<1>9. Memory(head)' = Memory(head) \cup {t} /\ head' # None
  BY <1>1, <1>2, <1>8, PointPut DEF ThreadInv
<1>10. PostsSound'
  <2>1. SUFFICES ASSUME NEW m \in posts PROVE UserPost(m)'
    BY <1>3 DEF PostsSound, chat
  <2>2. UserPost(m)
    BY <1>1, <1>4 DEF Undisturbed, PostsSound, AnswerPost, NoticePost
  <2> QED
    BY <1>2, <1>3, <1>4, <1>6, <2>2, ChatStays DEF UserPost, chat
<1>11. TurnChat(t)'
  BY <1>1, <1>2, <1>3, <1>5, <1>6, <1>7, ChatStays DEF TurnChat, chat, Ongoing
<1>12. TurnMemory(t)'
  BY <1>1, <1>2, <1>3, <1>6, <1>8, <1>9 DEF TurnMemory, registry
<1>13. AlignedNow'
  <2>1. <<t, "user">> \in Branch
    BY <1>1, <1>7 DEF TurnChat
  <2>2. Belongs(Memory(head), work, Branch)
    BY DEF Undisturbed, AlignedNow
  <2>3. ASSUME NEW i \in Instances PROVE work'[i] \subseteq work[i] \cup {t}
    BY DEF Work, ThreadInv, Typed
  <2>4. t \in Said(Branch, "user")
    BY <2>1 DEF Said
  <2>5. Fits(Memory(head) \cup {t}, Branch)
    BY <2>2, <2>4 DEF Belongs, Fits
  <2>6. \A i \in Instances : work'[i] \subseteq Said(Branch, "user")
    BY <2>2, <2>3, <2>4 DEF Belongs
  <2> QED
    BY <1>5, <1>9, <2>5, <2>6 DEF AlignedNow, Belongs
<1>14. Continues'
  BY <1>3, <1>8, <1>9 DEF Continues, registry
<1>15. BundlesSound'
  BY <1>1, <1>2, <1>3, ChatStays, PointPut, BundlesStay DEF Undisturbed, ThreadInv, chat
<1>16. OriginSound'
  BY <1>3, OriginStays DEF Undisturbed, pane, registry, chat
<1> QED
  BY <1>6, <1>10, <1>11, <1>12, <1>13, <1>14, <1>15, <1>16 DEF Undisturbed, TurnsSound

LEMMA StopCalm ==
  ASSUME ThreadInv, Undisturbed, NEW t \in Turns, Stop(t), ~disturbed'
  PROVE  Undisturbed'
<1> DEFINE y == [turn[t] EXCEPT !.step = "saving", !.memory = {}]
           latest == IF cached # None THEN cached ELSE head
           m == [id |-> <<t, "assistant">>, parent |-> <<t, "user">>]
<1>1. /\ turn' = [turn EXCEPT ![t] = y] /\ turn[t].step = "running"
      /\ effective' = IF latest # None THEN latest ELSE effective
      /\ turn[t].put \/ latest = head
      /\ posts' = posts \/ (turn[t].put /\ posts' = posts \cup {m})
  BY DEF Stop, Disturb, ThreadInv, Typed
<1>2. y \in TurnStates /\ y.step = "saving" /\ y.put = turn[t].put
  <2>1. turn[t] \in TurnStates /\ y \in TurnStates
    BY TurnFields DEF ThreadInv, Typed, Steps
  <2> QED
    BY <2>1 DEF TurnStates
<1>3. m.id[1] = t /\ m.id[2] = "assistant" /\ m.id = <<t, "assistant">> /\ m.parent = <<t, "user">>
  OBVIOUS
<1> HIDE DEF y, m
<1>4. UNCHANGED <<pane, pending, current, points, head, messages, active, work, bundles>>
  BY DEF Stop
<1>5. \A n \in posts : n.id[1] = t
  BY <1>1 DEF Undisturbed, Alone, Ongoing
<1>6. /\ Alone' /\ Served' /\ ActiveThere' /\ restore.step = "idle" /\ turn'[t] = y
      /\ \A u \in Turns : u # t => TurnChat(u)' /\ TurnMemory(u)'
  <2>1. \A n \in posts' : n.id[1] = t
    BY <1>1, <1>3, <1>5
  <2> QED
    BY <1>1, <1>2, <1>4, <2>1, OthersRest DEF pane, Ongoing
<1>7. TurnChat(t) /\ TurnMemory(t)
  BY DEF Undisturbed, TurnsSound
<1>8. Branch \subseteq Branch' /\ (Branch' = Branch \/ (turn[t].put /\ Branch' = Branch \cup {<<t, "assistant">>}))
  BY <1>1, <1>3, <1>4, ChatStays DEF Branch
<1>9. effective' = head
  <2>1. latest = head
    BY <1>1, <1>7 DEF TurnMemory
  <2>2. ASSUME head = None PROVE effective = None
    <3>1. points = <<>>
      BY <2>2 DEF Undisturbed, Continues
    <3> QED
      BY <3>1 DEF ThreadInv, Typed, PointsExist, None
  <2> QED
    BY <1>1, <2>1, <2>2
<1>10. PostsSound'
  <2>1. ASSUME NEW n \in posts PROVE UserPost(n)'
    <3>1. UserPost(n)
      BY <1>1, <1>5 DEF Undisturbed, PostsSound, AnswerPost, NoticePost
    <3> QED
      BY <1>2, <1>4, <1>5, <1>6, <3>1, ChatStays DEF UserPost
  <2>2. AnswerPost(m)'
    BY <1>1, <1>2, <1>3, <1>4, <1>6, <1>7, ChatStays DEF AnswerPost, TurnChat
  <2> QED
    BY <1>1, <2>1, <2>2 DEF PostsSound
<1>11. TurnChat(t)'
  BY <1>1, <1>2, <1>4, <1>6, <1>7, <1>8, ChatStays DEF TurnChat, Ongoing
<1>12. TurnMemory(t)'
  BY <1>1, <1>2, <1>4, <1>6, <1>7, <1>9, PointsStay DEF TurnMemory
<1>13. AlignedNow'
  <2>1. turn[t].put => t \in Memory(head)
    BY <1>7 DEF TurnMemory
  <2>2. Belongs(Memory(head), work, Branch')
    <3>1. ASSUME NEW u \in Turns, <<u, "assistant">> \in Branch'
          PROVE  <<u, "assistant">> \in Branch \/ u \in Memory(head)
      BY <1>8, <2>1, <3>1
    <3> QED
      BY <1>8, <3>1, BelongsMore DEF Undisturbed, AlignedNow
  <2> QED
    BY <1>4, <2>2, PointsStay DEF AlignedNow
<1>14. Continues' /\ BundlesSound' /\ OriginSound'
  BY <1>4, ChatStays, PointsStay, BundlesStay, OriginStays DEF Undisturbed, Continues, pane
<1> QED
  BY <1>6, <1>10, <1>11, <1>12, <1>13, <1>14 DEF Undisturbed, TurnsSound

LEMMA EndTurnCalm ==
  ASSUME ThreadInv, Undisturbed, NEW t \in Turns, EndTurn(t), ~late'
  PROVE  Undisturbed'
<1> DEFINE y == [NoTurn EXCEPT !.step = "flushing"]
<1>1. turn' = [turn EXCEPT ![t] = y] /\ turn[t].step \in {"running", "saving"} /\ Saved(t)
  BY DEF EndTurn, BeforeFirstChunk
<1>2. y \in TurnStates /\ y.step = "flushing" /\ ~y.put
  BY FreshTurn DEF Steps, NoTurn
<1> HIDE DEF y
<1>3. UNCHANGED <<restore, registry, memory, chat, work, bundles>>
  BY DEF EndTurn
<1>4. posts = {} /\ posts' = {}
  <2>1. \A m \in posts : m.id[1] = t
    BY <1>1 DEF Undisturbed, Alone, Ongoing
  <2> QED
    BY <1>1, <1>3, <2>1 DEF Saved, chat
<1>5. /\ Alone' /\ Served' /\ ActiveThere' /\ restore.step = "idle" /\ turn'[t] = y
      /\ \A u \in Turns : u # t => TurnChat(u)' /\ TurnMemory(u)'
  BY <1>1, <1>2, <1>3, <1>4, OthersRest DEF chat, Ongoing
<1>6. TurnChat(t) /\ TurnMemory(t)
  BY DEF Undisturbed, TurnsSound
<1>7. PostsSound'
  BY <1>4 DEF PostsSound
<1>8. TurnChat(t)'
  BY <1>1, <1>2, <1>3, <1>5, <1>6, ChatStays DEF TurnChat, chat, Ongoing
<1>9. TurnMemory(t)'
  BY <1>1, <1>2, <1>3, <1>5, <1>6 DEF TurnMemory, registry, memory
<1>10. AlignedNow'
  BY <1>3, <1>4, ChatStays, PointsStay DEF Undisturbed, AlignedNow, Branch, memory, chat
<1>11. Continues' /\ BundlesSound' /\ OriginSound'
  BY <1>3, ChatStays, PointsStay, BundlesStay, OriginStays
     DEF Undisturbed, Continues, registry, memory, chat
<1> QED
  BY <1>5, <1>7, <1>8, <1>9, <1>10, <1>11 DEF Undisturbed, TurnsSound

LEMMA FailTurnCalm ==
  ASSUME ThreadInv, Undisturbed, NEW t \in Turns, FailTurn(t), ~late'
  PROVE  Undisturbed'
<1> DEFINE y == [NoTurn EXCEPT !.step = "done"]
<1>1. turn' = [turn EXCEPT ![t] = y] /\ turn[t].step \in {"lookup", "running", "saving"} /\ Saved(t)
  BY DEF FailTurn, BeforeFirstChunk
<1>2. y \in TurnStates /\ y.step = "done" /\ ~y.put
  BY FreshTurn DEF Steps, NoTurn
<1> HIDE DEF y
<1>3. UNCHANGED <<restore, registry, memory, messages, active, work, bundles>>
  BY DEF FailTurn
<1>4. posts = {} /\ Branch = WayTo(active)
  <2>1. \A m \in posts : m.id[1] = t
    BY <1>1 DEF Undisturbed, Alone, Ongoing
  <2> QED
    BY <1>1, <2>1 DEF Saved, Branch
<1>5. \A m \in posts' :
        /\ m.parent = NoId
        /\ m.id = <<t, "notice">> \/ (m.id = <<t, "assistant">> /\ turn[t].put)
  <2>1. posts' = posts \cup [id : {<<t, "notice">>} \cup {m \in {<<t, "assistant">>} :
                                     turn[t].step = "saving" /\ turn[t].put},
                             parent : {NoId}]
    BY DEF FailTurn
  <2> QED
    BY <1>4, <2>1
<1>6. /\ Alone' /\ Served' /\ ActiveThere' /\ restore.step = "idle" /\ turn'[t] = y
      /\ \A u \in Turns : u # t => TurnChat(u)' /\ TurnMemory(u)'
  BY <1>1, <1>2, <1>3, OthersRest DEF Ongoing
<1>7. TurnChat(t) /\ TurnMemory(t) /\ Ongoing(t)
  BY <1>1 DEF Undisturbed, TurnsSound, Ongoing
<1>8. PostsSound'
  <2>1. SUFFICES ASSUME NEW m \in posts' PROVE NoticePost(m)'
    BY DEF PostsSound
  <2>2. m.parent = NoId /\ m.id[1] = t /\ (m.id = <<t, "notice">> \/ m.id = <<t, "assistant">>)
    BY <1>5
  <2>3. Present(m.id) => m.id \in WayTo(active)
    BY <1>1, <1>7, <2>2 DEF TurnChat, Roles
  <2> QED
    BY <1>2, <1>3, <1>6, <2>2, <2>3, ChatStays DEF NoticePost
<1>9. TurnChat(t)' /\ TurnMemory(t)'
  BY <1>2, <1>6 DEF TurnChat, TurnMemory, Ongoing
<1>10. AlignedNow'
  <2>1. turn[t].put => t \in Memory(head)
    BY <1>7 DEF TurnMemory
  <2>2. Branch' = Branch \cup {m.id : m \in posts'}
    BY <1>3, <1>4, ChatStays DEF Branch
  <2>3. ASSUME NEW u \in Turns, <<u, "assistant">> \in Branch'
        PROVE  <<u, "assistant">> \in Branch \/ u \in Memory(head)
    BY <1>5, <2>1, <2>2, <2>3
  <2>4. Belongs(Memory(head), work, Branch')
    BY <2>2, <2>3, BelongsMore DEF Undisturbed, AlignedNow
  <2> QED
    BY <1>3, <2>4, PointsStay DEF AlignedNow, memory
<1>11. Continues' /\ BundlesSound' /\ OriginSound'
  BY <1>3, ChatStays, PointsStay, BundlesStay, OriginStays DEF Undisturbed, Continues, registry, memory
<1> QED
  BY <1>6, <1>8, <1>9, <1>10, <1>11 DEF Undisturbed, TurnsSound

(* What a capture keeps while it reads: a step from one of its states to the  *)
(* next changes only what the turn knows.                                     *)
LEMMA CaptureCalm ==
  ASSUME ThreadInv, Undisturbed, NEW t \in Turns, NEW y \in TurnStates,
         turn' = [turn EXCEPT ![t] = y], turn[t].step \in {"flushing", "gathering"},
         y.step \in {"gathering", "sealing"}, y.put = turn[t].put,
         y.step = "sealing" => y.work = work /\ y.from = Origin,
         UNCHANGED <<pane, streams, registry, memory, chat, work, bundles, history>>
  PROVE  Undisturbed'
<1>1. posts = {} /\ posts' = {}
  BY NothingPosted DEF chat
<1>2. /\ Alone' /\ Served' /\ ActiveThere' /\ restore.step = "idle" /\ turn'[t] = y
      /\ \A u \in Turns : u # t => TurnChat(u)' /\ TurnMemory(u)'
  BY <1>1, OthersRest DEF pane, chat, Ongoing
<1>3. TurnChat(t) /\ TurnMemory(t) /\ Ongoing(t) /\ ~turn[t].put
  BY DEF Undisturbed, TurnsSound, TurnMemory, Ongoing
<1>4. PostsSound'
  BY <1>1 DEF PostsSound
<1>5. TurnChat(t)'
  BY <1>2, <1>3, ChatStays DEF TurnChat, chat, Ongoing
<1>6. TurnMemory(t)'
  BY <1>2, <1>3 DEF TurnMemory, registry, memory, Origin
<1>7. AlignedNow'
  BY <1>1, ChatStays, PointsStay DEF Undisturbed, AlignedNow, Branch, memory, chat
<1>8. Continues' /\ BundlesSound' /\ OriginSound'
  BY ChatStays, PointsStay, BundlesStay, OriginStays
     DEF Undisturbed, Continues, pane, registry, memory, chat
<1> QED
  BY <1>2, <1>4, <1>5, <1>6, <1>7, <1>8 DEF Undisturbed, TurnsSound

LEMMA ReadEffectiveCalm ==
  ASSUME ThreadInv, Undisturbed, NEW t \in Turns, ReadEffective(t)
  PROVE  Undisturbed'
<1> DEFINE y == [turn[t] EXCEPT !.step = "gathering", !.point = effective]
<1>1. turn' = [turn EXCEPT ![t] = y] /\ turn[t].step = "flushing"
  BY DEF ReadEffective, ThreadInv, Typed
<1>3. y \in TurnStates /\ y.step = "gathering" /\ y.put = turn[t].put
  <2>1. effective \in 0 .. MaxTurns
    BY InvTyped DEF ThreadTypeOK
  <2>2. turn[t] \in TurnStates /\ y \in TurnStates
    BY <2>1, TurnFields DEF ThreadInv, Typed, Steps
  <2> QED
    BY <2>2 DEF TurnStates
<1> HIDE DEF y
<1>4. UNCHANGED <<pane, streams, registry, memory, chat, work, bundles, history>>
  BY DEF ReadEffective
<1> QED
  BY <1>1, <1>3, <1>4, CaptureCalm

LEMMA OriginExists ==
  ASSUME ThreadInv
  PROVE  Origin \in 0 .. MaxTurns /\ Origin \in Nat /\ Origin <= Len(bundles)
<1>1. Len(bundles) \in 0 .. MaxTurns /\ MaxTurns \in Nat
  BY Bounded, ThreadAssumption
<1>2. current \in Nat /\ current <= Len(bundles)
  BY DEF ThreadInv, Typed, BundlesExist
<1> QED
  BY <1>1, <1>2 DEF Origin

LEMMA GatherWorkCalm ==
  ASSUME ThreadInv, Undisturbed, NEW t \in Turns, GatherWork(t)
  PROVE  Undisturbed'
<1> DEFINE y == [turn[t] EXCEPT !.step = "sealing", !.work = work, !.from = Origin]
<1>1. turn' = [turn EXCEPT ![t] = y] /\ turn[t].step = "gathering"
  BY DEF GatherWork, Origin, ThreadInv, Typed
<1>3. /\ y \in TurnStates /\ y.step = "sealing" /\ y.put = turn[t].put
      /\ y.work = work /\ y.from = Origin
  <2>1. Origin \in 0 .. MaxTurns /\ work \in [Instances -> SUBSET Turns]
    BY OriginExists DEF ThreadInv, Typed
  <2>2. turn[t] \in TurnStates /\ y \in TurnStates
    BY <2>1, TurnFields DEF ThreadInv, Typed, Steps
  <2> QED
    BY <2>2 DEF TurnStates
<1> HIDE DEF y
<1>4. UNCHANGED <<pane, streams, registry, memory, chat, work, bundles, history>>
  BY DEF GatherWork
<1> QED
  BY <1>1, <1>3, <1>4, CaptureCalm

LEMMA SealCalm ==
  ASSUME ThreadInv, Undisturbed, NEW t \in Turns, Seal(t)
  PROVE  Undisturbed'
<1> DEFINE y == [NoTurn EXCEPT !.step = "done"]
           bundle == [point |-> turn[t].point, chat |-> active, from |-> turn[t].from, work |-> turn[t].work]
<1>0. PICK new \in Nat : new = Len(bundles) + 1
  BY DEF ThreadInv, Typed
<1>1. /\ turn' = [turn EXCEPT ![t] = y] /\ turn[t].step = "sealing"
      /\ bundles' = Append(bundles, bundle) /\ current' = new
  BY <1>0 DEF Seal
<1>2. y \in TurnStates /\ y.step = "done" /\ ~y.put
  BY FreshTurn DEF Steps, NoTurn
<1>3. /\ bundle.point = turn[t].point /\ bundle.chat = active
      /\ bundle.from = turn[t].from /\ bundle.work = turn[t].work
  OBVIOUS
<1>4. /\ Len(bundles) \in Nat /\ DOMAIN bundles = 1 .. Len(bundles)
      /\ DOMAIN bundles' = DOMAIN bundles \cup {new} /\ Len(bundles') = new
      /\ bundles'[new] = bundle /\ \A b \in DOMAIN bundles : bundles'[b] = bundles[b]
  <2>1. bundles \in Seq(Bundles)
    BY DEF ThreadInv, Typed
  <2> QED
    BY <1>0, <1>1, <2>1
<1> HIDE DEF y, bundle
<1>5. UNCHANGED <<pane, streams, effective, pending, memory, chat, work, history>>
  BY DEF Seal
<1>6. posts = {} /\ posts' = {} /\ Branch = WayTo(active)
  BY <1>1, <1>5, NothingPosted DEF chat
<1>7. /\ Alone' /\ Served' /\ ActiveThere' /\ restore.step = "idle" /\ turn'[t] = y
      /\ \A u \in Turns : u # t => TurnChat(u)' /\ TurnMemory(u)'
  BY <1>1, <1>2, <1>5, OthersRest DEF pane, chat, Ongoing
<1>8. PostsSound'
  BY <1>6 DEF PostsSound
<1>9. TurnChat(t)' /\ TurnMemory(t)'
  BY <1>2, <1>7 DEF TurnChat, TurnMemory, Ongoing
<1>10. AlignedNow'
  BY <1>5, <1>6, ChatStays, PointsStay DEF Undisturbed, AlignedNow, Branch, memory, chat
<1>11. Continues'
  BY <1>5 DEF Undisturbed, Continues, pane, memory
<1>12. (\A c : WayTo(c)' = WayTo(c) /\ (Present(c)' <=> Present(c))) /\ \A p : Memory(p)' = Memory(p)
  BY <1>5, ChatStays, PointsStay DEF memory, chat
<1>13. BundlesSound'
  <2>1. ASSUME NEW b \in DOMAIN bundles PROVE BundleSound(b)'
    <3>1. BundleSound(b) /\ bundles[b].from \in Nat
      BY BundleFields DEF Undisturbed, BundlesSound
    <3>2. bundles[b].from # None => bundles'[bundles[b].from] = bundles[bundles[b].from]
      BY <1>4, <3>1 DEF BundleSound, None
    <3>3. bundles'[b] = bundles[b] /\ bundles[b].from <= Len(bundles')
      BY <1>0, <1>4, <3>1 DEF BundleSound
    <3> QED
      BY <1>12, <3>1, <3>2, <3>3 DEF BundleSound
  <2>2. BundleSound(new)'
    <3>1. bundle.work = work /\ bundle.from = Origin
      BY <1>1, <1>3 DEF Undisturbed, TurnsSound, TurnMemory
    <3>2. \A i \in Instances : work[i] \subseteq Said(WayTo(active), "user")
      BY <1>6 DEF Undisturbed, AlignedNow, Belongs
    <3>3. Origin \in Nat /\ Origin <= Len(bundles)
      BY OriginExists
    <3>4. ASSUME Origin # None
          PROVE  bundles'[Origin] = bundles[Origin] /\ WayTo(bundles[Origin].chat) \subseteq WayTo(active)
      <4>1. Origin \in DOMAIN bundles
        BY <1>4, <3>3, <3>4 DEF None
      <4> QED
        BY <1>4, <1>7, <3>4, <4>1 DEF Undisturbed, OriginSound
    <3>5. Origin <= Len(bundles') /\ bundles'[new] = bundle
      BY <1>0, <1>4, <3>3
    <3> QED
      BY <1>3, <1>12, <3>1, <3>2, <3>4, <3>5 DEF BundleSound, Undisturbed, ActiveThere
  <2> QED
    BY <1>4, <2>1, <2>2 DEF BundlesSound
<1>14. OriginSound'
  <2>1. Origin' = new
    BY <1>0, <1>1, <1>4 DEF Origin, None
  <2> QED
    BY <1>3, <1>4, <1>5, <2>1 DEF OriginSound, chat
<1> QED
  BY <1>7, <1>8, <1>9, <1>10, <1>11, <1>13, <1>14 DEF Undisturbed, TurnsSound

(* A step that begins something begins it when all is quiet.                  *)
LEMMA SendCalm ==
  ASSUME ThreadInv, Undisturbed, NEW t \in Turns, Send(t), ~disturbed'
  PROVE  Undisturbed'
<1> DEFINE y == [turn[t] EXCEPT !.step = "lookup"]
<1>1. turn' = [turn EXCEPT ![t] = y] /\ turn[t].step = "idle" /\ Quiet
  BY DEF Send, Disturb, ThreadInv, Typed
<1>2. y \in TurnStates /\ y.step = "lookup" /\ y.put = turn[t].put
  <2>1. turn[t] \in TurnStates /\ y \in TurnStates
    BY TurnFields DEF ThreadInv, Typed, Steps
  <2> QED
    BY <2>1 DEF TurnStates
<1> HIDE DEF y
<1>3. UNCHANGED <<restore, registry, memory, chat, work, bundles>>
  BY DEF Send
<1>4. turn'[t] = y /\ \A u \in Turns : u # t => turn'[u] = turn[u]
  BY <1>1, <1>2, TurnGoesOn DEF ThreadInv
<1>5. posts = {} /\ posts' = {} /\ restore.step = "idle" /\ \A u \in Turns : ~Ongoing(u)
  BY <1>1, <1>3 DEF Quiet, chat
<1>6. \A u \in Turns : u # t => ~Ongoing(u)'
  BY <1>4, <1>5 DEF Ongoing
<1>7. Alone' /\ PostsSound'
  BY <1>3, <1>5, <1>6 DEF Alone, PostsSound
<1>8. ASSUME NEW u \in Turns, u # t PROVE TurnChat(u)' /\ TurnMemory(u)'
  BY <1>3, <1>4, <1>5, <1>8, RestingStay DEF Undisturbed, TurnsSound, chat
<1>9. TurnChat(t)' /\ TurnMemory(t)'
  <2>1. ~turn[t].put /\ (\A r \in Roles : ~Present(<<t, r>>))
    BY <1>1 DEF Undisturbed, TurnsSound, TurnChat, TurnMemory
  <2> QED
    BY <1>2, <1>3, <1>4, <2>1, ChatStays DEF TurnChat, TurnMemory, Roles, chat
<1>10. AlignedNow' /\ ActiveThere'
  BY <1>3, ChatStays, PointsStay DEF Undisturbed, AlignedNow, ActiveThere, Branch, memory, chat
<1>11. Continues' /\ Served' /\ BundlesSound' /\ OriginSound'
  BY <1>3, <1>5, ChatStays, PointsStay, BundlesStay, OriginStays
     DEF Undisturbed, Continues, Served, registry, memory, chat
<1> QED
  BY <1>7, <1>8, <1>9, <1>10, <1>11 DEF Undisturbed, TurnsSound

-----------------------------------------------------------------------------
(* The restore and the end of the program, undisturbed.                       *)

LEMMA StartRestoreCalm ==
  ASSUME ThreadInv, Undisturbed, StartRestore, ~disturbed'
  PROVE  Undisturbed'
<1>0. PICK b : restore' = [step |-> "flushing", bundle |-> b]
  BY DEF StartRestore
<1>1. Quiet /\ restore'.step = "flushing"
  BY <1>0 DEF StartRestore, Disturb
<1>2. UNCHANGED <<turn, registry, memory, chat, work, bundles>>
  BY DEF StartRestore
<1>3. posts = {} /\ posts' = {} /\ restore.step = "idle" /\ \A u \in Turns : ~Ongoing(u)
  BY <1>1, <1>2 DEF Quiet, chat
<1>4. Alone' /\ PostsSound'
  BY <1>2, <1>3 DEF Alone, PostsSound, Ongoing
<1>5. ASSUME NEW u \in Turns PROVE TurnChat(u)' /\ TurnMemory(u)'
  BY <1>2, <1>3, RestingStay DEF Undisturbed, TurnsSound, chat
<1>6. AlignedNow' /\ ActiveThere'
  BY <1>2, ChatStays, PointsStay DEF Undisturbed, AlignedNow, ActiveThere, Branch, memory, chat
<1>7. Continues' /\ Served' /\ BundlesSound' /\ OriginSound'
  BY <1>1, <1>2, <1>3, ChatStays, PointsStay, BundlesStay, OriginStays
     DEF Undisturbed, Continues, Served, registry, memory, chat
<1> QED
  BY <1>4, <1>5, <1>6, <1>7 DEF Undisturbed, TurnsSound

(* An abort marks a turn: nothing that an undisturbed thread relies on.       *)
LEMMA AbortMarks ==
  ASSUME ThreadInv, Abort, NEW t \in Turns
  PROVE  /\ turn'[t].put = turn[t].put /\ turn'[t].step = turn[t].step
         /\ turn'[t].point = turn[t].point /\ turn'[t].memory = turn[t].memory
         /\ turn'[t].work = turn[t].work /\ turn'[t].from = turn[t].from
<1>1. turn \in [Turns -> TurnStates]
  BY DEF ThreadInv, Typed
<1>2. turn' = turn \/ \E u \in Turns : turn' = [turn EXCEPT ![u].aborted = TRUE]
  BY DEF Abort, ThreadInv, Typed
<1>3. ASSUME NEW u \in Turns, turn' = [turn EXCEPT ![u].aborted = TRUE]
      PROVE  turn'[t] = turn[t] \/ turn'[t] = [turn[t] EXCEPT !.aborted = TRUE]
  BY <1>1, <1>3
<1>4. turn'[t] = turn[t] \/ turn'[t] = [turn[t] EXCEPT !.aborted = TRUE]
  BY <1>2, <1>3
<1> QED
  BY <1>1, <1>4 DEF TurnStates

LEMMA AbortCalm ==
  ASSUME ThreadInv, Undisturbed, Abort,
         UNCHANGED <<registry, memory, chat, work, bundles>>,
         restore' = restore \/ (restore.step = "flushing" /\ restore'.step = "posted")
  PROVE  Undisturbed'
<1>1. \A t \in Turns :
        /\ turn'[t].put = turn[t].put /\ turn'[t].step = turn[t].step
        /\ turn'[t].point = turn[t].point /\ turn'[t].memory = turn[t].memory
        /\ turn'[t].work = turn[t].work /\ turn'[t].from = turn[t].from
  BY AbortMarks
<1>2. \A t \in Turns : Ongoing(t)' <=> Ongoing(t)
  BY <1>1 DEF Ongoing
<1>3. Alone'
  BY <1>2 DEF Undisturbed, Alone, chat
<1>4. /\ Origin' = Origin /\ OriginSound' /\ Branch' = Branch
      /\ \A c : WayTo(c)' = WayTo(c) /\ (Present(c)' <=> Present(c))
      /\ \A p : Memory(p)' = Memory(p)
  BY ChatStays, PointsStay, OriginStays DEF Undisturbed, registry, memory, chat, Branch
<1>5. PostsSound'
  <2>1. SUFFICES ASSUME NEW m \in posts PROVE (UserPost(m) \/ AnswerPost(m) \/ NoticePost(m))'
    BY DEF PostsSound, chat
  <2>2. m.id[1] \in Turns
    BY DEF ThreadInv, Typed, Posts, Ids
  <2>3. UserPost(m) \/ AnswerPost(m) \/ NoticePost(m)
    BY DEF Undisturbed, PostsSound
  <2>4. active' = active /\ turn'[m.id[1]].step = turn[m.id[1]].step
    BY <1>1, <2>2 DEF chat
  <2> QED
    BY <1>4, <2>3, <2>4 DEF UserPost, AnswerPost, NoticePost
<1>6. ASSUME NEW t \in Turns PROVE TurnChat(t)' /\ TurnMemory(t)'
  <2>1. TurnChat(t) /\ TurnMemory(t)
    BY DEF Undisturbed, TurnsSound
  <2>2. TurnChat(t)'
    BY <1>1, <1>2, <1>4, <2>1 DEF TurnChat, chat
  <2>3. TurnMemory(t)'
    BY <1>1, <1>4, <2>1 DEF TurnMemory, registry, memory
  <2> QED
    BY <2>2, <2>3
<1>7. AlignedNow' /\ ActiveThere'
  BY <1>4 DEF Undisturbed, AlignedNow, ActiveThere, memory, chat
<1>8. Continues' /\ Served' /\ BundlesSound'
  BY ChatStays, PointsStay, BundlesStay DEF Undisturbed, Continues, Served, registry, memory, chat
<1> QED
  BY <1>3, <1>4, <1>5, <1>6, <1>7, <1>8 DEF Undisturbed, TurnsSound

LEMMA CancelCalm ==
  ASSUME ThreadInv, Undisturbed, Cancel
  PROVE  Undisturbed'
BY AbortCalm DEF Cancel

LEMMA PostRestoreCalm ==
  ASSUME ThreadInv, Undisturbed, PostRestore
  PROVE  Undisturbed'
<1>1. restore.step = "flushing" /\ restore'.step = "posted"
  BY DEF PostRestore, ThreadInv, Typed
<1> QED
  BY <1>1, AbortCalm DEF PostRestore

(* While a restore goes on no turn does, and nothing is on its way.           *)
LEMMA RestoreAlone ==
  ASSUME ThreadInv, Undisturbed, restore.step # "idle"
  PROVE  /\ posts = {} /\ Branch = WayTo(active) /\ \A t \in Turns : ~Ongoing(t)
         /\ restore.bundle \in DOMAIN bundles /\ BundleSound(restore.bundle)
<1>1. posts = {} /\ \A t \in Turns : ~Ongoing(t)
  BY DEF Undisturbed, Alone
<1>2. restore.bundle \in DOMAIN bundles
  BY DEF ThreadInv, BundlesExist
<1> QED
  BY <1>1, <1>2 DEF Branch, Undisturbed, BundlesSound

LEMMA ServeRestoreCalm ==
  ASSUME ThreadInv, Undisturbed, Recollection, ServeRestore, ~disturbed'
  PROVE  Undisturbed'
<1> DEFINE bundle == bundles[restore.bundle]
<1>1. /\ restore.step = "posted" /\ restore'.step = "served" /\ restore'.bundle = restore.bundle
      /\ bundle.point # None /\ bundle.chat # NoId /\ Present(bundle.chat)
      /\ work' = bundle.work /\ messages' = messages
      /\ active' = bundle.chat /\ head' = bundle.point
  BY DEF ServeRestore, Disturb, ThreadInv, Typed
<1>2. UNCHANGED <<turn, registry, points, posts, bundles>>
  BY DEF ServeRestore
<1>3. /\ posts = {} /\ posts' = {} /\ \A t \in Turns : ~Ongoing(t)
      /\ restore.bundle \in DOMAIN bundles /\ BundleSound(restore.bundle)
  BY <1>1, <1>2, RestoreAlone
<1>4. Belongs(Memory(bundle.point), bundle.work, WayTo(bundle.chat))
  BY <1>1, <1>3 DEF BundleSound, Belongs, Recollection, BundlesRecall, Recalls, Memory
<1>5. bundles'[restore'.bundle] = bundle
  BY <1>1, <1>2
<1> HIDE DEF bundle
<1>6. /\ Memory(head)' = Memory(bundle.point) /\ WayTo(active)' = WayTo(bundle.chat)
      /\ Present(active)'
  BY <1>1, <1>2 DEF Memory, WayTo, Present
<1>7. Alone' /\ PostsSound'
  BY <1>2, <1>3 DEF Alone, PostsSound, Ongoing
<1>8. ASSUME NEW t \in Turns PROVE TurnChat(t)' /\ TurnMemory(t)'
  BY <1>1, <1>2, <1>3, RestingStay DEF Undisturbed, TurnsSound
<1>9. AlignedNow' /\ ActiveThere'
  <2>1. Branch' = WayTo(bundle.chat)
    BY <1>3, <1>6 DEF Branch
  <2> QED
    BY <1>1, <1>4, <1>6, <2>1 DEF AlignedNow, ActiveThere
<1>10. Continues' /\ Served' /\ OriginSound'
  BY <1>1, <1>5 DEF Continues, Served, OriginSound
<1>11. BundlesSound'
  BY <1>1, <1>2, ChatStays, PointsStay, BundlesStay DEF Undisturbed
<1> QED
  BY <1>7, <1>8, <1>9, <1>10, <1>11 DEF Undisturbed, TurnsSound

LEMMA FinishRestoreCalm ==
  ASSUME ThreadInv, Undisturbed, FinishRestore
  PROVE  Undisturbed'
<1> DEFINE bundle == bundles[restore.bundle]
<1>1. /\ restore.step = "served" /\ restore'.step = "idle"
      /\ bundle.point # None => pending' = bundle.point
      /\ current' = restore.bundle
  BY DEF FinishRestore, NoRestore
<1>2. UNCHANGED <<turn, memory, chat, work, bundles>>
  BY DEF FinishRestore
<1>3. /\ posts = {} /\ posts' = {} /\ \A t \in Turns : ~Ongoing(t)
      /\ restore.bundle \in DOMAIN bundles
  BY <1>1, <1>2, RestoreAlone DEF chat
<1>4. head = bundle.point /\ bundle.point # None /\ active = bundle.chat
  BY <1>1 DEF Undisturbed, Served
<1>5. Alone' /\ PostsSound'
  BY <1>2, <1>3 DEF Alone, PostsSound, Ongoing
<1>6. ASSUME NEW t \in Turns PROVE TurnChat(t)' /\ TurnMemory(t)'
  BY <1>2, <1>3, RestingStay DEF Undisturbed, TurnsSound, chat
<1>7. AlignedNow' /\ ActiveThere'
  BY <1>2, ChatStays, PointsStay DEF Undisturbed, AlignedNow, ActiveThere, Branch, memory, chat
<1>8. Continues' /\ Served'
  BY <1>1, <1>2, <1>4 DEF Undisturbed, Continues, Served, memory
<1>9. OriginSound'
  <2>1. Origin' = restore.bundle
    BY <1>1, <1>3 DEF Origin, None, ThreadInv, Typed
  <2> QED
    BY <1>2, <1>4, <2>1, ChatStays DEF OriginSound, chat
<1>10. BundlesSound'
  BY <1>2, ChatStays, PointsStay, BundlesStay DEF Undisturbed, memory, chat
<1> QED
  BY <1>5, <1>6, <1>7, <1>8, <1>9, <1>10 DEF Undisturbed, TurnsSound

LEMMA RestartCalm ==
  ASSUME ThreadInv, Undisturbed, Restart, ~disturbed'
  PROVE  Undisturbed'
<1> DEFINE ended == [NoTurn EXCEPT !.step = "done"]
<1>1. /\ posts = {} /\ restore.step # "served" /\ current \in {None, Len(bundles)}
      /\ restore'.step = "idle" /\ posts' = {} /\ pending' = None /\ current' = None
      /\ turn' = [t \in Turns |-> IF turn[t].step = "idle" THEN turn[t] ELSE ended]
  BY DEF Restart, Disturb, NoRestore
<1>2. UNCHANGED <<points, head, messages, active, work, bundles>>
  BY DEF Restart
<1>3. ended.step = "done" /\ ~ended.put
  BY DEF NoTurn
<1> HIDE DEF ended
<1>4. \A t \in Turns : turn'[t] = ended \/ (turn[t].step = "idle" /\ turn'[t] = turn[t])
  BY <1>1
<1>5. \A t \in Turns : ~Ongoing(t)'
  BY <1>3, <1>4 DEF Ongoing
<1>6. Alone' /\ PostsSound'
  BY <1>1, <1>5 DEF Alone, PostsSound
<1>7. ASSUME NEW t \in Turns PROVE TurnChat(t)' /\ TurnMemory(t)'
  <2>1. CASE turn'[t] = ended
    BY <1>3, <1>5, <2>1 DEF TurnChat, TurnMemory
  <2>2. CASE turn[t].step = "idle" /\ turn'[t] = turn[t]
    BY <1>2, <2>2, RestingStay DEF Undisturbed, TurnsSound, Ongoing
  <2> QED
    BY <1>4, <2>1, <2>2
<1>8. AlignedNow' /\ ActiveThere'
  BY <1>1, <1>2, ChatStays, PointsStay DEF Undisturbed, AlignedNow, ActiveThere, Branch
<1>9. Continues' /\ Served'
  BY <1>1, <1>2 DEF Undisturbed, Continues, Served
<1>10. OriginSound'
  <2>1. Origin' = Origin
    BY <1>1, <1>2 DEF Origin
  <2> QED
    BY <1>1, <1>2, <2>1, ChatStays DEF Undisturbed, OriginSound
<1>11. BundlesSound'
  BY <1>2, ChatStays, PointsStay, BundlesStay DEF Undisturbed
<1> QED
  BY <1>6, <1>7, <1>8, <1>9, <1>10, <1>11 DEF Undisturbed, TurnsSound

-----------------------------------------------------------------------------
(* A message arrives, undisturbed.                                            *)

(* It is there already, on the branch, or it follows the active message and   *)
(* becomes the active one.                                                    *)
Follows(m) ==
  /\ ~Present(m.id) /\ active' = m.id
  /\ messages' = [messages EXCEPT ![m.id] = WayTo(active) \cup {m.id}]
Ignored(m) == Present(m.id) /\ m.id \in WayTo(active) /\ UNCHANGED <<messages, active>>

LEMMA ArrivalOf ==
  ASSUME ThreadInv, Undisturbed, NEW m \in posts, AppendMessage(m), ~late'
  PROVE  /\ Ignored(m) \/ Follows(m)
         /\ AnswerPost(m) => Present(m.parent) \/ Present(m.id)
<1> DEFINE parent == IF m.parent = NoId THEN active ELSE m.parent
<1>1. IF ~Present(m.id) /\ (parent = NoId \/ Present(parent))
      THEN messages' = [messages EXCEPT ![m.id] = WayTo(parent) \cup {m.id}] /\ active' = m.id
      ELSE UNCHANGED <<messages, active>> /\ Present(m.id)
  BY DEF AppendMessage
<1>2. m.id \in Ids /\ m.id[1] \in Turns /\ m.id = <<m.id[1], m.id[2]>> /\ m.id[2] \in Roles
  BY DEF ThreadInv, Typed, Posts, Ids
<1>3. TurnChat(m.id[1]) /\ ActiveThere /\ (UserPost(m) \/ AnswerPost(m) \/ NoticePost(m))
  BY <1>2 DEF Undisturbed, TurnsSound, PostsSound
<1>4. CASE UserPost(m)
  <2>1. parent = active /\ ~Present(m.id)
    BY <1>4 DEF UserPost
  <2>2. m.id[2] = "user"
    BY <1>4 DEF UserPost
  <2> QED
    BY <1>1, <1>3, <2>1, <2>2 DEF Follows, AnswerPost, ActiveThere
<1>5. CASE AnswerPost(m)
  <2>1. m.parent = <<m.id[1], "user">> /\ m.parent # NoId /\ parent = m.parent
    BY <1>2, <1>5, IdsOf DEF AnswerPost
  <2>2. CASE Present(m.id)
    <3>1. Ongoing(m.id[1])
      BY <1>5 DEF AnswerPost, Ongoing
    <3>2. m.id \in WayTo(active)
      BY <1>2, <1>3, <2>2, <3>1 DEF TurnChat
    <3> QED
      BY <1>1, <2>2, <3>2 DEF Ignored
  <2>3. CASE ~Present(m.id)
    <3>1. Present(m.parent)
      BY <1>1, <2>1, <2>3
    <3>2. active = m.parent
      BY <1>5, <3>1 DEF AnswerPost
    <3> QED
      BY <1>1, <2>1, <2>3, <3>1, <3>2 DEF Follows
  <2> QED
    BY <2>2, <2>3
<1>6. CASE NoticePost(m)
  <2>1. parent = active /\ (Present(m.id) => m.id \in WayTo(active)) /\ turn[m.id[1]].step = "done"
    BY <1>6 DEF NoticePost
  <2>2. ~AnswerPost(m)
    BY <2>1 DEF AnswerPost
  <2>3. CASE Present(m.id)
    BY <1>1, <2>1, <2>2, <2>3 DEF Ignored
  <2>4. CASE ~Present(m.id)
    BY <1>1, <1>3, <2>1, <2>2, <2>4 DEF Follows, ActiveThere
  <2> QED
    BY <2>3, <2>4
<1> QED
  BY <1>3, <1>4, <1>5, <1>6

(* What follows leaves what was there, and lengthens the way to the active    *)
(* message.                                                                   *)
LEMMA FollowsKeeps ==
  ASSUME ThreadInv, NEW m \in posts, Follows(m)
  PROVE  /\ m.id \in Ids /\ m.id # NoId
         /\ \A c : There(c) => There(c)' /\ WayTo(c)' = WayTo(c)
         /\ \A c \in Ids : c # m.id => (Present(c)' <=> Present(c))
         /\ WayTo(active)' = WayTo(active) \cup {m.id} /\ Present(active)'
<1>1. m.id \in Ids /\ m.id # NoId
  BY DEF ThreadInv, Typed, Posts, Ids, Turns, NoId
<1>2. messages \in [Ids -> SUBSET Ids]
  BY DEF ThreadInv, Typed
<1>3. messages'[m.id] = WayTo(active) \cup {m.id} /\ \A c \in Ids : c # m.id => messages'[c] = messages[c]
  BY <1>1, <1>2 DEF Follows
<1>4. \A c \in Ids : c # m.id => (Present(c)' <=> Present(c))
  BY <1>3 DEF Present
<1>5. ASSUME NEW c, There(c) PROVE There(c)' /\ WayTo(c)' = WayTo(c)
  <2>1. c # NoId => c \in Ids /\ c # m.id
    BY <1>5 DEF There, Follows
  <2> QED
    BY <1>3, <1>4, <1>5, <2>1 DEF There, WayTo
<1>6. WayTo(active)' = WayTo(active) \cup {m.id} /\ Present(active)'
  BY <1>1, <1>3 DEF Follows, WayTo, Present
<1> QED
  BY <1>1, <1>4, <1>5, <1>6

(* Whoever waits to follow still does.                                        *)
LEMMA OthersFollow ==
  ASSUME ThreadInv, Undisturbed, NEW m \in posts, Follows(m), UNCHANGED turn,
         AnswerPost(m) => Present(m.parent),
         NEW n \in posts, n # m
  PROVE  (UserPost(n) \/ AnswerPost(n) \/ NoticePost(n))'
<1>1. /\ m \in Posts /\ n \in Posts /\ m.id \in Ids /\ n.id \in Ids
      /\ m.id[1] \in Turns /\ n.id[1] \in Turns
      /\ m.id = <<m.id[1], m.id[2]>> /\ n.id = <<n.id[1], n.id[2]>>
  BY DEF ThreadInv, Typed, Posts, Ids
<1>2. m.id # n.id \/ m.parent # n.parent
  BY <1>1 DEF Posts
<1>3. /\ UserPost(m) \/ AnswerPost(m) \/ NoticePost(m)
      /\ UserPost(n) \/ AnswerPost(n) \/ NoticePost(n)
  BY DEF Undisturbed, PostsSound
<1>4. /\ \A c \in Ids : c # m.id => (Present(c)' <=> Present(c))
      /\ WayTo(active)' = WayTo(active) \cup {m.id} /\ active' = m.id
  BY FollowsKeeps DEF Follows
<1>5. ASSUME UserPost(n) \/ AnswerPost(n)
      PROVE  m.id[1] = n.id[1] /\ (UserPost(m) \/ AnswerPost(m))
  <2>1. Ongoing(n.id[1])
    BY <1>5 DEF UserPost, AnswerPost, Ongoing
  <2>2. m.id[1] = n.id[1]
    BY <1>1, <2>1 DEF Undisturbed, Alone
  <2> QED
    BY <1>3, <2>1, <2>2 DEF NoticePost, Ongoing
<1>6. CASE UserPost(n)
  <2>1. n.id = <<n.id[1], "user">> /\ ~Present(n.id) /\ n.parent = active
    BY <1>1, <1>6 DEF UserPost
  <2>2. CASE UserPost(m)
    <3>1. m.id = n.id /\ m.parent = n.parent
      BY <1>1, <1>5, <1>6, <2>1, <2>2 DEF UserPost
    <3> QED
      BY <1>2, <3>1
  <2>3. CASE AnswerPost(m)
    BY <1>5, <1>6, <2>1, <2>3 DEF AnswerPost
  <2> QED
    BY <1>5, <1>6, <2>2, <2>3
<1>7. CASE AnswerPost(n)
  <2>1. n.id = <<n.id[1], "assistant">> /\ n.parent = <<n.id[1], "user">>
    BY <1>1, <1>7 DEF AnswerPost
  <2>2. CASE UserPost(m)
    <3>1. m.id = n.parent
      BY <1>1, <1>5, <1>7, <2>1, <2>2 DEF UserPost
    <3> QED
      BY <1>4, <1>7, <3>1 DEF AnswerPost
  <2>3. CASE AnswerPost(m)
    <3>1. m.id = n.id /\ m.parent = n.parent
      BY <1>1, <1>5, <1>7, <2>1, <2>3 DEF AnswerPost
    <3> QED
      BY <1>2, <3>1
  <2> QED
    BY <1>5, <1>7, <2>2, <2>3
<1>8. CASE NoticePost(n)
  <2>1. Present(n.id)' => n.id \in WayTo(active)'
    BY <1>1, <1>4, <1>8 DEF NoticePost
  <2> QED
    BY <1>8, <2>1 DEF NoticePost
<1> QED
  BY <1>3, <1>6, <1>7, <1>8

LEMMA AppendCalm ==
  ASSUME ThreadInv, Undisturbed, NEW m \in posts, AppendMessage(m), ~late'
  PROVE  Undisturbed'
<1>1. (Ignored(m) \/ Follows(m)) /\ (AnswerPost(m) => Present(m.parent) \/ Present(m.id))
  BY ArrivalOf
<1>2. UNCHANGED <<restore, turn, registry, memory, work, bundles>> /\ posts' = posts \ {m}
  BY DEF AppendMessage, pane
<1>3. restore.step = "idle"
  BY DEF Undisturbed, Alone
<1>4. Alone'
  BY <1>2 DEF Undisturbed, Alone, Ongoing
<1>5. m.id \in Ids /\ m.id[1] \in Turns /\ m.id = <<m.id[1], m.id[2]>>
  BY DEF ThreadInv, Typed, Posts, Ids
<1>6. Origin' = Origin /\ \A p : Memory(p)' = Memory(p)
  BY <1>2, PointsStay DEF Origin, registry, memory
<1>7. Continues' /\ Served'
  BY <1>2, <1>3 DEF Undisturbed, Continues, Served, registry, memory
<1>8. \A t \in Turns : TurnChat(t) /\ TurnMemory(t)
  BY DEF Undisturbed, TurnsSound
<1>9. \A t \in Turns : TurnMemory(t)'
  BY <1>2, <1>6, <1>8 DEF TurnMemory, registry, memory
<1>10. CASE Ignored(m)
  <2>1. /\ UNCHANGED <<messages, active>> /\ m.id \in WayTo(active)
        /\ \A c : WayTo(c)' = WayTo(c) /\ (Present(c)' <=> Present(c))
    BY <1>10, ChatStays DEF Ignored
  <2>2. Branch' = Branch
    BY <1>2, <2>1 DEF Branch
  <2>3. PostsSound'
    <3>1. SUFFICES ASSUME NEW n \in posts PROVE (UserPost(n) \/ AnswerPost(n) \/ NoticePost(n))'
      BY <1>2 DEF PostsSound
    <3>2. UserPost(n) \/ AnswerPost(n) \/ NoticePost(n)
      BY DEF Undisturbed, PostsSound
    <3> QED
      BY <1>2, <2>1, <3>2 DEF UserPost, AnswerPost, NoticePost
  <2>4. \A t \in Turns : TurnChat(t)'
    BY <1>2, <1>8, <2>1, <2>2 DEF TurnChat, Ongoing
  <2>5. AlignedNow' /\ ActiveThere'
    BY <1>2, <1>6, <2>1, <2>2 DEF Undisturbed, AlignedNow, ActiveThere, memory
  <2>6. BundlesSound' /\ OriginSound'
    BY <1>2, <1>6, <2>1, ChatStays, BundlesStay, OriginStays DEF Undisturbed, registry
  <2> QED
    BY <1>4, <1>7, <1>9, <2>3, <2>4, <2>5, <2>6 DEF Undisturbed, TurnsSound
<1>11. CASE Follows(m)
  <2>1. /\ m.id # NoId /\ WayTo(active)' = WayTo(active) \cup {m.id} /\ Present(active)'
        /\ \A c : There(c) => There(c)' /\ WayTo(c)' = WayTo(c)
        /\ \A c \in Ids : c # m.id => (Present(c)' <=> Present(c))
    BY <1>11, FollowsKeeps
  <2>2. AnswerPost(m) => Present(m.parent)
    BY <1>1, <1>11 DEF Follows
  <2>3. Branch' = Branch
    BY <1>2, <2>1 DEF Branch
  <2>4. PostsSound'
    BY <1>2, <1>11, <2>2, OthersFollow DEF PostsSound
  <2>5. ASSUME NEW t \in Turns PROVE TurnChat(t)'
    <3>1. \A r \in Roles : <<t, r>> \in Ids
      BY DEF Ids
    <3>2. CASE t # m.id[1]
      <4>1. ~Ongoing(t) /\ ~Ongoing(t)'
        BY <1>2, <3>2 DEF Undisturbed, Alone, Ongoing
      <4>2. \A r \in Roles : Present(<<t, r>>)' <=> Present(<<t, r>>)
        BY <1>5, <2>1, <3>1, <3>2
      <4> QED
        BY <1>2, <1>8, <4>1, <4>2 DEF TurnChat, Ongoing, Roles
    <3>3. CASE t = m.id[1]
      <4>1. UserPost(m) \/ AnswerPost(m) \/ NoticePost(m)
        BY DEF Undisturbed, PostsSound
      <4>2. ~(turn[t].step \in {"idle", "lookup"})
        BY <3>3, <4>1 DEF UserPost, AnswerPost, NoticePost
      <4>3. turn[t].step # "done" => ~Present(<<t, "notice">>)'
        <5>1. turn[t].step # "done" => m.id # <<t, "notice">>
          BY <3>3, <4>1 DEF UserPost, AnswerPost, NoticePost
        <5> QED
          BY <1>8, <2>1, <5>1, IdsOf DEF TurnChat
      <4>4. ASSUME turn[t].step \in {"setup", "running"}
            PROVE  (~Present(<<t, "assistant">>))' /\ active' = <<t, "user">>
        <5>1. m.id = <<t, "user">>
          BY <1>5, <3>3, <4>1, <4>4 DEF UserPost, AnswerPost, NoticePost
        <5>2. ~Present(<<t, "assistant">>)
          BY <1>8, <4>4 DEF TurnChat
        <5>3. <<t, "assistant">> # m.id /\ <<t, "assistant">> \in Ids
          BY <3>1, <5>1 DEF Roles
        <5>4. ~(Present(<<t, "assistant">>)')
          BY <2>1, <5>2, <5>3
        <5> QED
          BY <1>11, <5>1, <5>4 DEF Follows
      <4>5. ASSUME Ongoing(t), NEW r \in Roles, Present(<<t, r>>)'
            PROVE  <<t, r>> \in WayTo(active)'
        BY <1>8, <2>1, <3>1, <4>5 DEF TurnChat
      <4>6. turn[t].step \in {"setup", "running", "saving"} => <<t, "user">> \in Branch
        BY <1>8 DEF TurnChat
      <4> QED
        BY <1>2, <2>3, <4>2, <4>3, <4>4, <4>5, <4>6 DEF TurnChat, Ongoing
    <3> QED
      BY <3>2, <3>3
  <2>6. AlignedNow' /\ ActiveThere'
    BY <1>2, <1>6, <2>1, <2>3 DEF Undisturbed, AlignedNow, ActiveThere, memory
  <2>7. BundlesSound'
    BY <1>2, <1>6, <2>1, BundlesStay DEF Undisturbed
  <2>8. OriginSound'
    <3>1. SUFFICES ASSUME Origin # None PROVE WayTo(bundles[Origin].chat)' \subseteq WayTo(active)'
      BY <1>2, <1>6 DEF OriginSound
    <3>2. Origin \in DOMAIN bundles
      BY <3>1, OriginExists DEF None, ThreadInv, Typed
    <3>3. There(bundles[Origin].chat)
      BY <3>2, BundleFields DEF Undisturbed, BundlesSound, BundleSound, There
    <3>4. WayTo(bundles[Origin].chat)' = WayTo(bundles[Origin].chat)
      <4>1. bundles'[Origin'].chat = bundles[Origin].chat
        BY <1>2, <1>6
      <4> QED
        BY <2>1, <3>3, <4>1 DEF WayTo
    <3>5. WayTo(bundles[Origin].chat) \subseteq WayTo(active)
      BY <1>3, <3>1 DEF Undisturbed, OriginSound
    <3> QED
      BY <2>1, <3>4, <3>5
  <2> QED
    BY <1>4, <1>7, <1>9, <2>4, <2>5, <2>6, <2>7, <2>8 DEF Undisturbed, TurnsSound
<1> QED
  BY <1>1, <1>10, <1>11

-----------------------------------------------------------------------------
(* What the registry and the captures remember, undisturbed.                  *)

(* What fits a branch fits it still when it has no more answers.              *)
LEMMA RecallsStays ==
  ASSUME NEW p, NEW way, NEW longer, Recalls(p, way), way \subseteq longer,
         Said(longer, "assistant") = Said(way, "assistant"),
         Memory(p)' = Memory(p), forgotten \subseteq forgotten'
  PROVE  Recalls(p, longer)'
<1>1. Said(way, "user") \subseteq Said(longer, "user")
  BY DEF Said
<1>2. CASE p = None
  <2>1. Said(way, "assistant") \subseteq forgotten
    BY <1>2 DEF Recalls
  <2> QED
    BY <1>2, <2>1 DEF Recalls, Said
<1>3. CASE p # None
  <2>1. Memory(p) = points[p] /\ points'[p] = points[p]
    BY <1>3 DEF Memory
  <2>2. Fits(points[p], way)
    BY <1>3 DEF Recalls
  <2>3. Fits(points[p], longer)
    BY <1>1, <2>2 DEF Fits
  <2> QED
    BY <1>3, <2>1, <2>3 DEF Recalls, Fits, Said
<1> QED
  BY <1>2, <1>3

(* The restore head is recalled, for the memory there fits the branch.        *)
LEMMA HeadRecalled ==
  ASSUME AlignedNow', effective' = head'
  PROVE  Recalls(effective, Branch)'
<1>1. Fits(Memory(head), Branch)'
  BY DEF AlignedNow, Belongs
<1>2. CASE head' = None
  BY <1>1, <1>2 DEF Fits, Memory, Recalls
<1>3. CASE head' # None
  BY <1>1, <1>3 DEF Memory, Recalls
<1> QED
  BY <1>2, <1>3

(* What is kept of the chat and of the checkpoints.                           *)
Kept ==
  /\ \A c : There(c) => WayTo(c)' = WayTo(c)
  /\ \A p \in Nat : p <= Len(points) => Memory(p)' = Memory(p)
  /\ forgotten \subseteq forgotten'

(* The branch is the same, but for what has no answer.                        *)
SameAnswers ==
  Branch \subseteq Branch' /\ Said(Branch', "assistant") = Said(Branch, "assistant")

LEMMA BundlesStayRecalled ==
  ASSUME ThreadInv, Undisturbed, BundlesRecall, Kept, UNCHANGED bundles
  PROVE  BundlesRecall'
<1>1. SUFFICES ASSUME NEW b \in DOMAIN bundles
               PROVE  Recalls(bundles[b].point, WayTo(bundles[b].chat))'
  BY DEF BundlesRecall
<1>2. PICK p, c : p = bundles[b].point /\ c = bundles[b].chat
  OBVIOUS
<1>3. PICK way : way = WayTo(c)
  OBVIOUS
<1>4. p \in Nat /\ p <= Len(points) /\ There(c)
  BY <1>2, BundleFields DEF Undisturbed, BundlesSound, BundleSound, There
<1>5. WayTo(c)' = way /\ Memory(p)' = Memory(p) /\ forgotten \subseteq forgotten'
  BY <1>3, <1>4 DEF Kept
<1>6. Recalls(p, way)
  BY <1>2, <1>3 DEF BundlesRecall
<1>7. Recalls(p, way)'
  BY <1>5, <1>6, RecallsStays
<1>8. bundles'[b].point = p /\ bundles'[b].chat = c
  BY <1>2
<1> QED
  BY <1>5, <1>7, <1>8

(* A checkpoint that was recalled still is.                                   *)
LEMMA PointStaysRecalled ==
  ASSUME NEW p \in Nat, p <= Len(points), Recalls(p, Branch), Kept, SameAnswers
  PROVE  Recalls(p, Branch)'
<1>1. PICK way, longer : way = Branch /\ longer = Branch'
  OBVIOUS
<1>2. Recalls(p, longer)'
  <2>1. Recalls(p, way) /\ way \subseteq longer /\ Said(longer, "assistant") = Said(way, "assistant")
    BY <1>1 DEF SameAnswers
  <2>2. Memory(p)' = Memory(p) /\ forgotten \subseteq forgotten'
    BY DEF Kept
  <2> QED
    BY <2>1, <2>2, RecallsStays
<1> QED
  BY <1>1, <1>2

LEMMA CapturesStayRecalled ==
  ASSUME ThreadInv, CapturesRecall, Kept, SameAnswers,
         \A t \in Turns : turn'[t].step \in {"gathering", "sealing"} =>
           turn[t].step \in {"gathering", "sealing"} /\ turn'[t].point = turn[t].point
  PROVE  CapturesRecall'
<1>1. SUFFICES ASSUME NEW t \in Turns, turn'[t].step \in {"gathering", "sealing"}
               PROVE  Recalls(turn[t].point, Branch)'
  BY DEF CapturesRecall
<1>2. PICK p : p = turn[t].point
  OBVIOUS
<1>3. Recalls(p, Branch) /\ turn'[t].point = p
  BY <1>1, <1>2 DEF CapturesRecall
<1>4. p \in Nat /\ p <= Len(points)
  <2>1. turn[t] \in TurnStates
    BY DEF ThreadInv, Typed
  <2> QED
    BY <1>2, <2>1, ThreadAssumption DEF TurnStates, ThreadInv, PointsExist
<1>5. Recalls(p, Branch)'
  BY <1>3, <1>4, PointStaysRecalled
<1> QED
  BY <1>3, <1>5

LEMMA EffectiveStaysRecalled ==
  ASSUME ThreadInv, Recalls(effective, Branch), Kept, SameAnswers, UNCHANGED effective
  PROVE  Recalls(effective, Branch)'
<1>1. PICK p \in Nat : p = effective /\ p <= Len(points)
  BY DEF ThreadInv, Typed, PointsExist
<1>2. Recalls(p, Branch)'
  BY <1>1, PointStaysRecalled
<1> QED
  BY <1>1, <1>2

(* A step that changes none of this.                                          *)
LEMMA RecollectionStays ==
  ASSUME ThreadInv, Undisturbed, Recollection, Kept, SameAnswers, UNCHANGED <<effective, bundles>>,
         restore'.step # "served" => restore.step # "served",
         \A t \in Turns : turn'[t].step \in {"gathering", "sealing"} =>
           turn[t].step \in {"gathering", "sealing"} /\ turn'[t].point = turn[t].point
  PROVE  Recollection'
BY BundlesStayRecalled, CapturesStayRecalled, EffectiveStaysRecalled DEF Recollection

(* The chat and the checkpoints are left as they are.                         *)
LEMMA KeptSame ==
  ASSUME UNCHANGED <<messages, points, forgotten>>
  PROVE  Kept
BY ChatStays, PointsStay DEF Kept

(* Steps that begin, mark or end something, or work.                          *)
LEMMA SomeStepsRecall ==
  ASSUME ThreadInv, Undisturbed, Recollection,
         \/ Cancel \/ StartRestore \/ PostRestore
         \/ \E t \in Turns : Send(t) \/ Begin(t) \/ EndTurn(t)
  PROVE  Recollection'
<1>1. UNCHANGED <<messages, active, posts, points, forgotten, effective, bundles>>
  <2>1. CASE Cancel \/ StartRestore \/ PostRestore
    BY <2>1 DEF Cancel, StartRestore, PostRestore, chat, memory, registry, history
  <2>2. CASE \E t \in Turns : Send(t) \/ Begin(t) \/ EndTurn(t)
    BY <2>2 DEF Send, Begin, EndTurn, chat, memory, registry, history
  <2> QED
    BY <2>1, <2>2
<1>2. Kept /\ SameAnswers
  BY <1>1, KeptSame, ChatStays DEF SameAnswers, Branch
<1>3. restore'.step # "served" => restore.step # "served"
  <2>1. CASE Cancel \/ \E t \in Turns : Send(t) \/ Begin(t) \/ EndTurn(t)
    BY <2>1 DEF Cancel, Send, Begin, EndTurn, pane
  <2>2. CASE StartRestore \/ PostRestore
    BY <2>2 DEF StartRestore, PostRestore
  <2> QED
    BY <2>1, <2>2
<1>4. ASSUME NEW t \in Turns, turn'[t].step \in {"gathering", "sealing"}
      PROVE  turn[t].step \in {"gathering", "sealing"} /\ turn'[t].point = turn[t].point
  <2>1. CASE Cancel \/ PostRestore
    <3>1. turn'[t].step = turn[t].step /\ turn'[t].point = turn[t].point
      BY <2>1, AbortMarks DEF Cancel, PostRestore
    <3> QED
      BY <1>4, <3>1
  <2>2. CASE StartRestore
    BY <1>4, <2>2 DEF StartRestore
  <2>3. ASSUME NEW u \in Turns, Send(u) \/ Begin(u) \/ EndTurn(u)
        PROVE  turn'[t] = turn[t] \/ turn'[t].step \in {"lookup", "running", "flushing"}
    BY <2>3 DEF Send, Begin, EndTurn, NoTurn, ThreadInv, Typed, TurnStates
  <2> QED
    BY <1>4, <2>1, <2>2, <2>3
<1> QED
  BY <1>1, <1>2, <1>3, <1>4, RecollectionStays

(* The user's message has no answer, and a checkpoint that is put is new.     *)
LEMMA ReadAndWorkRecall ==
  ASSUME ThreadInv, Undisturbed, Recollection, NEW t \in Turns, ReadParent(t) \/ Work(t)
  PROVE  Recollection'
<1>1. UNCHANGED <<restore, messages, active, forgotten, effective, bundles>>
  BY DEF ReadParent, Work, pane, chat, registry, history
<1>2. Kept
  <2>1. CASE ReadParent(t)
    BY <1>1, <2>1, KeptSame DEF ReadParent, memory
  <2>2. CASE Work(t)
    <3>1. turn[t].memory \in SUBSET Turns /\ points' = Append(points, turn[t].memory)
      BY <2>2 DEF Work, ThreadInv, Typed, TurnStates
    <3> QED
      BY <1>1, <3>1, PointPut, ChatStays DEF Kept, ThreadInv
  <2> QED
    BY <2>1, <2>2
<1>3. SameAnswers
  <2>1. posts' = posts \/ posts' = posts \cup {[id |-> <<t, "user">>, parent |-> active]}
    BY DEF ReadParent, Work, chat
  <2>2. Branch' = Branch \/ Branch' = Branch \cup {<<t, "user">>}
    BY <1>1, <2>1, ChatStays DEF Branch
  <2> QED
    BY <2>2 DEF SameAnswers, Said
<1>4. ASSUME NEW u \in Turns PROVE turn'[u] = turn[u] \/ turn'[u].step \in {"setup", "running"}
  BY DEF ReadParent, Work, ThreadInv, Typed, TurnStates
<1> QED
  BY <1>1, <1>2, <1>3, <1>4, RecollectionStays

(* The registry takes the restore head; an answer that a failed turn leaves   *)
(* was in the checkpoint that the registry took.                              *)
LEMMA StopRecalls ==
  ASSUME ThreadInv, Undisturbed, Undisturbed', Recollection, NEW t \in Turns, Stop(t)
  PROVE  Recollection'
<1>1. turn[t].step = "running" /\ \A u \in Turns : turn'[u] = turn[u] \/ turn'[u].step = "saving"
  BY DEF Stop, ThreadInv, Typed, TurnStates
<1>2. turn'[t].step = "saving"
  BY DEF Stop, ThreadInv, Typed, TurnStates
<1>3. Recalls(effective, Branch)'
  BY <1>2, HeadRecalled DEF Undisturbed, TurnsSound, TurnMemory
<1>4. Kept /\ UNCHANGED bundles
  BY KeptSame DEF Stop
<1>5. \A u \in Turns : turn'[u].step \notin {"gathering", "sealing"}
  <2>1. \A u \in Turns : u # t => ~Ongoing(u)
    BY <1>1 DEF Undisturbed, Alone, Ongoing
  <2> QED
    BY <1>1, <1>2, <2>1 DEF Ongoing
<1> QED
  BY <1>3, <1>4, <1>5, BundlesStayRecalled DEF Recollection, CapturesRecall

LEMMA FailTurnRecalls ==
  ASSUME ThreadInv, Undisturbed, Undisturbed', Recollection, NEW t \in Turns, FailTurn(t)
  PROVE  Recollection'
<1>1. UNCHANGED <<restore, messages, active, points, forgotten, effective, head, bundles>>
  BY DEF FailTurn, registry, memory
<1>2. Kept
  BY <1>1, KeptSame
<1>3. \A u \in Turns : turn'[u] = turn[u] \/ turn'[u].step = "done"
  BY DEF FailTurn, NoTurn, ThreadInv, Typed
<1>4. CASE turn[t].step = "saving"
  <2>1. effective' = head'
    BY <1>1, <1>4 DEF Undisturbed, TurnsSound, TurnMemory
  <2>2. Recalls(effective, Branch)'
    BY <2>1, HeadRecalled DEF Undisturbed
  <2>3. \A u \in Turns : turn'[u].step \notin {"gathering", "sealing"}
    <3>1. \A u \in Turns : u # t => ~Ongoing(u)
      BY <1>4 DEF Undisturbed, Alone, Ongoing
    <3> QED
      BY <1>3, <1>4, <3>1 DEF Ongoing
  <2> QED
    BY <1>1, <1>2, <2>2, <2>3, BundlesStayRecalled DEF Recollection, CapturesRecall
<1>5. CASE turn[t].step # "saving"
  <2>1. posts' = posts \cup [id : {<<t, "notice">>}, parent : {NoId}]
    BY <1>5 DEF FailTurn
  <2>2. Branch' = Branch \cup {<<t, "notice">>}
    <3> DEFINE notice == [id |-> <<t, "notice">>, parent |-> NoId]
    <3>0. posts' = posts \cup {notice} /\ notice.id = <<t, "notice">>
      BY <2>1
    <3> HIDE DEF notice
    <3>1. {m.id : m \in posts'} = {m.id : m \in posts} \cup {<<t, "notice">>}
      BY <3>0
    <3> QED
      BY <1>1, <3>1, ChatStays DEF Branch
  <2>3. SameAnswers
    BY <2>2 DEF SameAnswers, Said
  <2> QED
    BY <1>1, <1>2, <1>3, <2>3, RecollectionStays
<1> QED
  BY <1>4, <1>5

(* A capture reads what the registry knows, and the bundle keeps it.          *)
LEMMA CapturesRecalled ==
  ASSUME ThreadInv, Undisturbed, Recollection, NEW t \in Turns,
         ReadEffective(t) \/ GatherWork(t) \/ Seal(t)
  PROVE  Recollection'
<1>1. UNCHANGED <<restore, messages, active, posts, points, forgotten, effective>>
  BY DEF ReadEffective, GatherWork, Seal, pane, memory, chat, registry, history
<1>2. Kept /\ SameAnswers
  BY <1>1, KeptSame, ChatStays DEF SameAnswers, Branch
<1>3. restore.step # "served"
  BY DEF ReadEffective, GatherWork, Seal, Undisturbed, Alone, Ongoing
<1>4. Recalls(effective, Branch) /\ Recalls(effective, Branch)'
  BY <1>1, <1>2, <1>3, EffectiveStaysRecalled DEF Recollection
<1>5. CASE ReadEffective(t)
  <2>1. /\ turn'[t].point = effective /\ UNCHANGED bundles
        /\ \A u \in Turns : u # t => turn'[u] = turn[u]
    BY <1>5 DEF ReadEffective, registry, ThreadInv, Typed, TurnStates
  <2>2. \A u \in Turns : u # t => turn'[u].step \notin {"gathering", "sealing"}
    BY <1>5, <2>1 DEF ReadEffective, Undisturbed, Alone, Ongoing
  <2>3. CapturesRecall'
    <3>1. PICK p : p = effective
      OBVIOUS
    <3>2. Recalls(p, Branch)' /\ turn'[t].point = p
      BY <1>1, <1>4, <2>1, <3>1
    <3> QED
      BY <2>2, <3>2 DEF CapturesRecall
  <2> QED
    BY <1>2, <1>4, <2>1, <2>3, BundlesStayRecalled DEF Recollection
<1>6. CASE GatherWork(t)
  <2>1. UNCHANGED bundles /\ turn[t].step = "gathering"
    BY <1>6 DEF GatherWork
  <2>2. ASSUME NEW u \in Turns
        PROVE  turn'[u] = turn[u] \/ (u = t /\ turn'[u].point = turn[u].point)
    BY <1>6 DEF GatherWork, ThreadInv, Typed, TurnStates
  <2> QED
    BY <1>1, <1>2, <2>1, <2>2, RecollectionStays
<1>7. CASE Seal(t)
  <2> DEFINE bundle == [point |-> turn[t].point, chat |-> active,
                        from |-> turn[t].from, work |-> turn[t].work]
  <2>1. bundle.point = turn[t].point /\ bundle.chat = active /\ bundles' = Append(bundles, bundle)
    BY <1>7 DEF Seal
  <2> HIDE DEF bundle
  <2>2. PICK new \in Nat : new = Len(bundles) + 1
    BY DEF ThreadInv, Typed
  <2>3. /\ DOMAIN bundles' = DOMAIN bundles \cup {new}
        /\ bundles'[new] = bundle /\ \A b \in DOMAIN bundles : bundles'[b] = bundles[b]
    <3>1. bundles \in Seq(Bundles)
      BY DEF ThreadInv, Typed
    <3> QED
      BY <2>2, <2>1, <3>1
  <2>4. turn[t].step = "sealing" /\ \A u \in Turns : turn'[u] = turn[u] \/ turn'[u].step = "done"
    BY <1>7 DEF Seal, NoTurn, ThreadInv, Typed
  <2>5. CapturesRecall'
    BY <1>2, <2>4, CapturesStayRecalled DEF Recollection
  <2>6. ASSUME NEW b \in DOMAIN bundles PROVE Recalls(bundles[b].point, WayTo(bundles[b].chat))'
    <3>1. PICK p, c, way : p = bundles[b].point /\ c = bundles[b].chat /\ way = WayTo(c)
      OBVIOUS
    <3>2. Recalls(p, way)
      BY <3>1 DEF Recollection, BundlesRecall
    <3>3. WayTo(c)' = way /\ Memory(p)' = Memory(p) /\ forgotten \subseteq forgotten'
      BY <1>1, <3>1, ChatStays, PointsStay
    <3>4. Recalls(p, way)'
      BY <3>2, <3>3, RecallsStays
    <3> QED
      BY <2>3, <3>1, <3>3, <3>4
  <2>7. Recalls(bundles[new].point, WayTo(bundles[new].chat))'
    <3>1. PICK p, c, way : p = turn[t].point /\ c = active /\ way = WayTo(active)
      OBVIOUS
    <3>2. Branch = way
      BY <2>4, <3>1, NothingPosted
    <3>3. Recalls(p, way)
      BY <2>4, <3>1, <3>2 DEF Recollection, CapturesRecall
    <3>4. WayTo(c)' = way /\ Memory(p)' = Memory(p) /\ forgotten \subseteq forgotten'
      BY <1>1, <3>1, ChatStays, PointsStay
    <3>5. Recalls(p, way)'
      BY <3>3, <3>4, RecallsStays
    <3>6. bundles'[new].point = p /\ bundles'[new].chat = c
      BY <2>3, <2>1, <3>1
    <3> QED
      BY <3>4, <3>5, <3>6
  <2>8. BundlesRecall'
    BY <2>3, <2>6, <2>7 DEF BundlesRecall
  <2> QED
    BY <1>4, <2>5, <2>8 DEF Recollection
<1> QED
  BY <1>5, <1>6, <1>7

(* The checkpoint of the bundle that is restored is the effective one.        *)
LEMMA ServeRestoreRecalls ==
  ASSUME ThreadInv, Undisturbed, Recollection, ServeRestore, ~disturbed'
  PROVE  Recollection'
<1>1. restore.step = "posted" /\ restore'.step = "served"
  BY DEF ServeRestore, ThreadInv, Typed
<1>2. UNCHANGED <<messages, points, forgotten, bundles, turn>>
  BY DEF ServeRestore, Disturb
<1>3. \A t \in Turns : ~Ongoing(t)
  BY <1>1, RestoreAlone
<1> QED
  BY <1>1, <1>2, <1>3, KeptSame, BundlesStayRecalled DEF Recollection, CapturesRecall, Ongoing

LEMMA FinishRestoreRecalls ==
  ASSUME ThreadInv, Undisturbed, Recollection, FinishRestore
  PROVE  Recollection'
<1>1. /\ restore.step = "served" /\ bundles[restore.bundle].point # None
      /\ effective' = bundles[restore.bundle].point /\ active = bundles[restore.bundle].chat
  BY DEF FinishRestore, Undisturbed, Served
<1>2. UNCHANGED <<messages, active, posts, points, forgotten, bundles, turn>>
  BY DEF FinishRestore, memory, chat
<1>3. /\ \A t \in Turns : ~Ongoing(t)
      /\ posts = {} /\ Branch = WayTo(active) /\ restore.bundle \in DOMAIN bundles
  BY <1>1, RestoreAlone
<1>4. Kept /\ Branch' = Branch
  BY <1>2, KeptSame, ChatStays DEF Branch
<1>5. Recalls(effective, Branch)'
  <2>1. PICK p, way : p = bundles[restore.bundle].point /\ way = Branch
    OBVIOUS
  <2>2. Recalls(p, way)
    BY <1>1, <1>3, <2>1 DEF Recollection, BundlesRecall
  <2>3. Memory(p)' = Memory(p) /\ forgotten \subseteq forgotten'
    BY <1>2, PointsStay
  <2>4. Recalls(p, way)'
    BY <2>2, <2>3, RecallsStays
  <2> QED
    BY <1>1, <1>4, <2>1, <2>4
<1> QED
  BY <1>2, <1>3, <1>4, <1>5, BundlesStayRecalled DEF Recollection, CapturesRecall, Ongoing

(* A restart forgets the answers of the chat.                                 *)
LEMMA RestartRecalls ==
  ASSUME ThreadInv, Undisturbed, Recollection, Restart, ~disturbed'
  PROVE  Recollection'
<1>1. /\ UNCHANGED <<messages, active, points, bundles>>
      /\ effective' = None /\ posts' = {}
      /\ forgotten' = forgotten \cup UNION {Said(messages[m], "assistant") : m \in Ids}
      /\ \A t \in Turns : turn'[t].step \in {"idle", "done"}
  BY DEF Restart, NoTurn
<1>2. Kept
  BY <1>1, ChatStays, PointsStay DEF Kept
<1>3. Said(Branch', "assistant") \subseteq forgotten'
  <2>1. active = NoId \/ active \in Ids
    BY DEF ThreadInv, Typed
  <2>2. Branch' = WayTo(active)
    BY <1>1, ChatStays DEF Branch
  <2>3. CASE active = NoId
    BY <2>2, <2>3 DEF WayTo, Said
  <2>4. CASE active # NoId
    <3>1. Said(Branch', "assistant") \in {Said(messages[m], "assistant") : m \in Ids}
      BY <2>1, <2>2, <2>4 DEF WayTo
    <3> QED
      BY <1>1, <3>1
  <2> QED
    BY <2>3, <2>4
<1>4. Recalls(effective, Branch)'
  BY <1>1, <1>3 DEF Recalls, Said
<1> QED
  BY <1>1, <1>2, <1>4, BundlesStayRecalled DEF Recollection, CapturesRecall

(* A message that arrives was on its way to the branch.                       *)
LEMMA AppendRecalls ==
  ASSUME ThreadInv, Undisturbed, Recollection, NEW m \in posts, AppendMessage(m), ~late'
  PROVE  Recollection'
<1>1. /\ UNCHANGED <<restore, turn, effective, points, bundles, forgotten>>
      /\ posts' = posts \ {m}
  BY DEF AppendMessage, pane, registry, memory
<1>2. Ignored(m) \/ Follows(m)
  BY ArrivalOf
<1>3. CASE Ignored(m)
  <2>1. UNCHANGED messages /\ active' = active /\ m.id \in WayTo(active)
    BY <1>3 DEF Ignored
  <2>2. Branch' = Branch
    BY <1>1, <2>1, ChatStays DEF Branch
  <2> QED
    BY <1>1, <2>1, <2>2, KeptSame, RecollectionStays DEF SameAnswers
<1>4. CASE Follows(m)
  <2>1. WayTo(active)' = WayTo(active) \cup {m.id} /\ \A c : There(c) => WayTo(c)' = WayTo(c)
    BY <1>4, FollowsKeeps
  <2>2. Branch' = Branch
    BY <1>1, <2>1 DEF Branch
  <2>3. Kept
    BY <1>1, <2>1, PointsStay DEF Kept
  <2> QED
    BY <1>1, <2>2, <2>3, RecollectionStays DEF SameAnswers
<1> QED
  BY <1>2, <1>3, <1>4

-----------------------------------------------------------------------------
(* What an undisturbed thread shows.                                          *)

(* A thread that was disturbed stays so.                                      *)
LEMMA FlagsStay ==
  ASSUME ThreadInv, Next
  PROVE  (disturbed => disturbed') /\ (late => late')
<1>0. disturbed \in BOOLEAN /\ late \in BOOLEAN
  BY DEF ThreadInv, Typed
<1>1. ASSUME NEW t \in Turns, Send(t) \/ Stop(t)
      PROVE  (disturbed => disturbed') /\ (late => late')
  BY <1>0, <1>1, Zenon DEF Send, Stop, Disturb
<1>2. ASSUME NEW t \in Turns, EndTurn(t) \/ FailTurn(t)
      PROVE  (disturbed => disturbed') /\ (late => late')
  <2>1. disturbed' = disturbed
    BY <1>2 DEF EndTurn, FailTurn
  <2>2. late' = (late \/ ~Saved(t))
    BY <1>2, Zenon DEF EndTurn, FailTurn
  <2> QED
    BY <2>1, <2>2, Zenon
<1>3. ASSUME NEW t \in Turns,
             \/ ReadParent(t) \/ Begin(t) \/ Work(t) \/ ReadEffective(t) \/ GatherWork(t) \/ Seal(t)
      PROVE  disturbed' = disturbed /\ late' = late
  BY <1>3 DEF ReadParent, Begin, Work, ReadEffective, GatherWork, Seal, history
<1>4. ASSUME NEW m \in posts, AppendMessage(m) PROVE (disturbed => disturbed') /\ (late => late')
  BY <1>4, Zenon DEF AppendMessage
<1>5. ASSUME StartRestore \/ ServeRestore \/ FailRestore \/ Restart
      PROVE  (disturbed => disturbed') /\ (late => late')
  <2>1. late' = late
    BY <1>5 DEF StartRestore, ServeRestore, FailRestore, Restart
  <2>2. disturbed => disturbed'
    BY <1>5, Zenon DEF StartRestore, ServeRestore, FailRestore, Restart, Disturb
  <2> QED
    BY <2>1, <2>2, Zenon
<1>6. ASSUME Cancel \/ PostRestore \/ FinishRestore PROVE disturbed' = disturbed /\ late' = late
  BY <1>6 DEF Cancel, PostRestore, FinishRestore, history
<1> QED
  BY <1>1, <1>2, <1>3, <1>4, <1>5, <1>6 DEF Next

LEMMA CalmStep == ThreadInv /\ CalmInv /\ [Next]_vars => CalmInv'
<1>1. SUFFICES ASSUME ThreadInv, CalmInv, [Next]_vars, ~disturbed', ~late'
               PROVE  Undisturbed' /\ Recollection'
  BY DEF CalmInv
<1>2. CASE UNCHANGED vars
  <2>1. Undisturbed /\ Recollection
    BY <1>1, <1>2 DEF CalmInv, vars, history
  <2>2. UNCHANGED <<restore, turn, registry, memory, messages, active, posts, work, bundles>>
    BY <1>2 DEF vars, pane, chat
  <2>3. Branch' = Branch /\ Origin' = Origin /\ (\A t \in Turns : Ongoing(t)' <=> Ongoing(t))
    BY <2>2, ChatStays DEF Branch, Origin, Ongoing, registry
  <2>4. Alone' /\ PostsSound' /\ Continues' /\ Served' /\ OriginSound' /\ BundlesSound'
    BY <1>1, <2>1, <2>2, <2>3, ChatStays, PointsStay, BundlesStay, OriginStays
       DEF Undisturbed, Alone, PostsSound, UserPost, AnswerPost, NoticePost, Continues, Served,
           registry, memory
  <2>5. TurnsSound'
    <3>1. SUFFICES ASSUME NEW t \in Turns PROVE TurnChat(t)' /\ TurnMemory(t)'
      BY DEF TurnsSound
    <3>2. TurnChat(t) /\ TurnMemory(t)
      BY <2>1 DEF Undisturbed, TurnsSound
    <3>3. TurnChat(t)'
      BY <2>2, <2>3, <3>2, ChatStays DEF TurnChat
    <3>4. TurnMemory(t)'
      BY <2>2, <2>3, <3>2, PointsStay DEF TurnMemory, registry, memory
    <3> QED
      BY <3>3, <3>4
  <2>6. AlignedNow' /\ ActiveThere'
    BY <2>1, <2>2, <2>3, ChatStays, PointsStay DEF Undisturbed, AlignedNow, ActiveThere, memory
  <2>7. Recollection'
    <3>1. Kept /\ SameAnswers
      BY <1>2, <2>2, <2>3, KeptSame DEF SameAnswers, vars, memory, history
    <3> QED
      BY <1>1, <2>1, <2>2, <3>1, RecollectionStays DEF registry
  <2> QED
    BY <2>4, <2>5, <2>6, <2>7 DEF Undisturbed
<1>3. ASSUME Next PROVE Undisturbed /\ Recollection
  BY <1>1, <1>3, FlagsStay DEF CalmInv
<1>4. ASSUME NEW t \in Turns,
             \/ Send(t) \/ ReadParent(t) \/ Begin(t) \/ Work(t) \/ Stop(t)
             \/ EndTurn(t) \/ FailTurn(t) \/ ReadEffective(t) \/ GatherWork(t) \/ Seal(t)
      PROVE  Undisturbed' /\ Recollection'
  <2>1. Undisturbed /\ Recollection
    BY <1>3, <1>4 DEF Next
  <2>2. Undisturbed'
    BY <1>1, <1>4, <2>1, SendCalm, ReadParentCalm, BeginCalm, WorkCalm, StopCalm, EndTurnCalm,
       FailTurnCalm, ReadEffectiveCalm, GatherWorkCalm, SealCalm
  <2> QED
    BY <1>1, <1>4, <2>1, <2>2, SomeStepsRecall, ReadAndWorkRecall, StopRecalls, FailTurnRecalls,
       CapturesRecalled
<1>5. ASSUME NEW m \in posts, AppendMessage(m) PROVE Undisturbed' /\ Recollection'
  BY <1>1, <1>3, <1>5, AppendCalm, AppendRecalls DEF Next
<1>6. CASE FailRestore
  BY <1>1, <1>6 DEF FailRestore, Disturb
<1>7. CASE Cancel \/ StartRestore \/ PostRestore \/ ServeRestore \/ FinishRestore \/ Restart
  BY <1>1, <1>3, <1>7, CancelCalm, StartRestoreCalm, PostRestoreCalm, ServeRestoreCalm,
     FinishRestoreCalm, RestartCalm, SomeStepsRecall, ServeRestoreRecalls, FinishRestoreRecalls,
     RestartRecalls DEF Next
<1> QED
  BY <1>1, <1>2, <1>4, <1>5, <1>6, <1>7 DEF Next

LEMMA CalmAlways == Spec => []CalmInv
BY CalmInit, CalmStep, ThreadAlways, PTL DEF Spec

(* Chat, agent and instances stay aligned through turns, cancelled or not,    *)
(* captures, restores to and fro and restarts, as long as no turn or restore  *)
(* begins before the last one ended and no step failed.                       *)
THEOREM ThreadStaysAligned == Spec => []AlignedUndisturbed
<1>1. ASSUME CalmInv PROVE AlignedUndisturbed
  <2>1. SUFFICES ASSUME Quiet, ~disturbed, ~late
                 PROVE  /\ Fits(NextMemory, WayTo(active))
                        /\ \A i \in Instances : work[i] \subseteq Said(WayTo(active), "user")
    BY DEF AlignedUndisturbed
  <2>2. Undisturbed /\ posts = {} /\ restore.step = "idle"
    BY <1>1, <2>1 DEF CalmInv, Quiet
  <2>3. Branch = WayTo(active) /\ NextMemory = Memory(head)
    BY <2>2 DEF Undisturbed, Continues, Branch, NextMemory
  <2> QED
    BY <2>2, <2>3 DEF Undisturbed, AlignedNow, Belongs
<1> QED
  BY <1>1, CalmAlways, PTL

(* A bundle holds one moment: its checkpoint and its instances belong to the  *)
(* branch of its message, although they are read one after the other, the     *)
(* effective checkpoint comes from the registry, and a turn aborted before    *)
(* its first chunk does not tell the registry of its own.                     *)
THEOREM BundlesAreCoherent == Spec => []BundlesCoherent
<1>1. ASSUME CalmInv PROVE BundlesCoherent
  <2>1. SUFFICES ASSUME ~disturbed, ~late, NEW b \in DOMAIN bundles
                 PROVE  /\ Recalls(bundles[b].point, WayTo(bundles[b].chat))
                        /\ \A i \in Instances :
                             bundles[b].work[i] \subseteq Said(WayTo(bundles[b].chat), "user")
    BY DEF BundlesCoherent
  <2>2. BundleSound(b) /\ Recalls(bundles[b].point, WayTo(bundles[b].chat))
    BY <1>1, <2>1 DEF CalmInv, Undisturbed, BundlesSound, Recollection, BundlesRecall
  <2> QED
    BY <2>2 DEF BundleSound
<1> QED
  BY <1>1, CalmAlways, PTL

(* A bundle's parent is a bundle of the branch it lies on.                    *)
THEOREM LineageIsOfBranch == Spec => []LineageFollowsBranch
<1>1. ASSUME CalmInv PROVE LineageFollowsBranch
  BY <1>1 DEF CalmInv, Undisturbed, BundlesSound, BundleSound, LineageFollowsBranch
<1> QED
  BY <1>1, CalmAlways, PTL
==============================================================================
