----------------------------- MODULE CommandLog -----------------------------
(***************************************************************************)
(* What SyncClient.send promises its caller (SyncClient.ts:283): "resolves *)
(* with the server's sequence number upon receiving a matching sync-ack".  *)
(* A command is applied at most once, under a number of its own; a send    *)
(* that resolved was applied under the number it resolved with; one that   *)
(* failed may have been applied, or may still be.                          *)
(***************************************************************************)
EXTENDS Naturals, Sequences

CONSTANTS Commands,
          Numbers    (* the server's sequence numbers *)

VARIABLES
  log,      (* commands in the order they were applied, with their numbers  *)
  calls,    (* what became of each send                                     *)
  answers   (* the number a send resolved with, 0 before                    *)

vars == <<log, calls, answers>>

Calls   == {"unsent", "waiting", "acked", "failed"}
Entries == [edit : Commands, number : Numbers]

Applied(k) == \E i \in DOMAIN log : log[i].edit = k

Init ==
  /\ log = <<>>
  /\ calls = [k \in Commands |-> "unsent"]
  /\ answers = [k \in Commands |-> 0]

Send(k) ==
  /\ calls[k] = "unsent"
  /\ calls' = [calls EXCEPT ![k] = "waiting"]
  /\ UNCHANGED <<log, answers>>

Apply(k) ==
  /\ calls[k] \in {"waiting", "failed"} /\ ~Applied(k)
  /\ \E n \in Numbers :
       /\ \A i \in DOMAIN log : log[i].number < n
       /\ log' = Append(log, [edit |-> k, number |-> n])
  /\ UNCHANGED <<calls, answers>>

Answer(k) ==
  /\ calls[k] = "waiting"
  /\ \E i \in DOMAIN log :
       /\ log[i].edit = k
       /\ answers' = [answers EXCEPT ![k] = log[i].number]
  /\ calls' = [calls EXCEPT ![k] = "acked"]
  /\ UNCHANGED log

(* One error reply or one closed socket fails every send that waits there, *)
(* and a closed socket every later one.                                    *)
Fail(K) ==
  /\ \A k \in K : calls[k] \in {"unsent", "waiting"}
  /\ calls' = [k \in Commands |-> IF k \in K THEN "failed" ELSE calls[k]]
  /\ UNCHANGED <<log, answers>>

Next ==
  \/ \E k \in Commands : Send(k) \/ Apply(k) \/ Answer(k)
  \/ \E K \in SUBSET Commands : Fail(K)

Spec == Init /\ [][Next]_vars
=============================================================================
