---------------------------- MODULE OneShotProof ----------------------------
(***************************************************************************)
(* What a one-shot gate promises of a proof (middleware/src/gate.ts:9-14   *)
(* and types.ts:50): one action at a time runs on it, an action that fails *)
(* gives it back, one that succeeds uses it up for TTL from the time it    *)
(* was taken.  Where clients may go away before they are answered, a failed*)
(* action may also be abandoned: its proof is then lost for as long.  A new*)
(* process has forgotten what was taken.                                   *)
(***************************************************************************)
EXTENDS Naturals

CONSTANTS
  Proof,
  TTL,
  MayAbandon  \* may a failed action be abandoned

VARIABLES
  status,  \* of each proof: "free", "running", "spent" or "lost"
  taken,   \* when a proof that is not free was taken
  now,     \* the time
  epoch    \* counts the processes there have been

vars == <<status, taken, now, epoch>>

Init ==
  /\ status = [p \in Proof |-> "free"]
  /\ taken = [p \in Proof |-> 0]
  /\ now = 0
  /\ epoch = 0

Take(p) ==
  /\ status[p] = "free"
  /\ status' = [status EXCEPT ![p] = "running"]
  /\ taken' = [taken EXCEPT ![p] = now]
  /\ UNCHANGED <<now, epoch>>

GiveBack(p) ==
  /\ status[p] = "running"
  /\ status' = [status EXCEPT ![p] = "free"]
  /\ taken' = [taken EXCEPT ![p] = 0]
  /\ UNCHANGED <<now, epoch>>

UseUp(p) ==
  /\ status[p] = "running"
  /\ status' = [status EXCEPT ![p] = "spent"]
  /\ UNCHANGED <<taken, now, epoch>>

Abandon(p) ==
  /\ MayAbandon
  /\ status[p] = "running"
  /\ status' = [status EXCEPT ![p] = "lost"]
  /\ UNCHANGED <<taken, now, epoch>>

(* Time passes; what was spent or lost longer ago than TTL is free again.  *)
Lapsed(p) == status[p] \in {"spent", "lost"} /\ now + 1 - taken[p] > TTL

Tick ==
  /\ now' = now + 1
  /\ status' = [p \in Proof |-> IF Lapsed(p) THEN "free" ELSE status[p]]
  /\ taken' = [p \in Proof |-> IF Lapsed(p) THEN 0 ELSE taken[p]]
  /\ UNCHANGED epoch

Restart ==
  /\ status' = [p \in Proof |-> "free"]
  /\ taken' = [p \in Proof |-> 0]
  /\ epoch' = epoch + 1
  /\ UNCHANGED now

Next ==
  \/ \E p \in Proof : Take(p) \/ GiveBack(p) \/ UseUp(p) \/ Abandon(p)
  \/ Tick \/ Restart

Spec == Init /\ [][Next]_vars
=============================================================================
