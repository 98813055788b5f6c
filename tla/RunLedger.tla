------------------------------ MODULE RunLedger ------------------------------
(***************************************************************************)
(* What the workflow_run and brief tables promise a reader, whoever writes *)
(* them: for each idempotency key (cadence, topic, interval) one run that  *)
(* only moves forward, and at most one publication, made while the run is  *)
(* running and present before the run may count as succeeded.              *)
(* WorkflowRunner.tla implements this module.                              *)
(***************************************************************************)

CONSTANT Keys          \* idempotency keys

VARIABLES
  status,              \* status[k]: state of the run row of key k
  published            \* keys whose narrative and brief are committed

vars == <<status, published>>

Status   == {"absent", "pending", "running", "succeeded", "failed", "resumable"}
Terminal == {"succeeded", "failed", "resumable"}

TypeOK ==
  /\ status \in [Keys -> Status]
  /\ published \in SUBSET Keys

Init ==
  /\ status = [k \in Keys |-> "absent"]
  /\ published = {}

Move(k, from, to) ==
  /\ status[k] = from
  /\ status' = [status EXCEPT ![k] = to]
  /\ UNCHANGED published

Create(k) == Move(k, "absent", "pending")
Begin(k)  == Move(k, "pending", "running")
Abort(k)  == Move(k, "running", "failed")

Publish(k) ==
  /\ status[k] = "running"
  /\ k \notin published
  /\ published' = published \cup {k}
  /\ UNCHANGED status

Succeed(k) ==
  /\ k \in published
  /\ Move(k, "running", "succeeded")

Next == \E k \in Keys :
          \/ Create(k)
          \/ Begin(k)
          \/ Publish(k)
          \/ Succeed(k)
          \/ Abort(k)

Spec == Init /\ [][Next]_vars
=============================================================================
