-------------------------- MODULE DurableRegister --------------------------
(***************************************************************************)
(* What a drain worker promises the rest of the workspace, without states, *)
(* retries or a registry: a register whose content lags behind the edits   *)
(* and catches up in order, and flush calls that are answered "resolved"   *)
(* only when the register has reached the edits that preceded the call.    *)
(* The promise is the one written above flush in types.ts:252-256.         *)
(***************************************************************************)
EXTENDS Naturals

CONSTANTS Workers, Callers, MaxVersion, Rejections

Versions == 1 .. MaxVersion

VARIABLES latest, durable, promise, goal

vars == <<latest, durable, promise, goal>>

Init ==
  /\ latest  = [o \in Workers |-> 0]
  /\ durable = [o \in Workers |-> 0]
  /\ promise = [o \in Workers |-> [c \in Callers |-> "uncalled"]]
  /\ goal    = [o \in Workers |-> [c \in Callers |-> 0]]

Edit(o) ==
  /\ \E v \in Versions : v > latest[o] /\ latest' = [latest EXCEPT ![o] = v]
  /\ UNCHANGED <<durable, promise, goal>>

(* Edits are coalesced: the register may skip content, never go back.      *)
Persist(o) ==
  /\ \E v \in Versions : /\ durable[o] < v /\ v <= latest[o]
                         /\ durable' = [durable EXCEPT ![o] = v]
  /\ UNCHANGED <<latest, promise, goal>>

Call(o, c) ==
  /\ promise[o][c] = "uncalled"
  /\ goal' = [goal EXCEPT ![o][c] = latest[o]]
  /\ \E outcome \in {"waiting", "resolved"} \cup Rejections :
       /\ outcome = "resolved" => durable[o] = latest[o]
       /\ promise' = [promise EXCEPT ![o][c] = outcome]
  /\ UNCHANGED <<latest, durable>>

(* Some of the waiting callers are answered, all alike; a resolved one     *)
(* finds what it waited for in the register.                               *)
Answer(o) ==
  /\ \E C \in SUBSET {c \in Callers : promise[o][c] = "waiting"},
        outcome \in {"resolved"} \cup Rejections :
       /\ outcome = "resolved" => \A c \in C : durable[o] >= goal[o][c]
       /\ promise' = [promise EXCEPT ![o] =
                        [c \in Callers |-> IF c \in C THEN outcome ELSE @[c]]]
  /\ UNCHANGED <<latest, durable, goal>>

Next == \E o \in Workers :
  \/ Edit(o)
  \/ Persist(o)
  \/ \E c \in Callers : Call(o, c)
  \/ Answer(o)

Spec == Init /\ [][Next]_vars
=============================================================================
