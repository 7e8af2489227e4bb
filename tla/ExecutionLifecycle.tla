------------------------- MODULE ExecutionLifecycle -------------------------
(***************************************************************************)
(* What the master promises about the executions of one run, whatever      *)
(* transactions it is made of: the phases an execution goes through, when  *)
(* its job message is sent, and when the run may call itself finished.     *)
(***************************************************************************)
EXTENDS Naturals

CONSTANTS
    Execution,       \* <<job, attempt>>
    NeedsApproval    \* executions of protected deployments

VARIABLES
    phase,    \* phase of each execution
    sent,     \* number of job messages of each execution
    closed    \* the run has a final status

Phase == {"absent", "waiting", "started", "stopping", "succeeded", "ended", "replaced"}
Open == {"waiting", "started", "stopping"}

Init ==
    /\ phase = [e \in Execution |-> "absent"]
    /\ sent = [e \in Execution |-> 0]
    /\ closed = FALSE

\* A retry replaces an execution that ended by a new attempt of its job.
Successor(e) ==
    \E f \in Execution :
        f[1] = e[1] /\ phase[f] = "absent" /\ phase'[f] \in {"waiting", "started"}

\* What one transaction may do to one execution.  Only a waiting execution is
\* ever started later, and a success is never undone; but a replaced execution
\* can still be canceled, end once more and be replaced again.
Move(e) ==
    CASE phase[e] = "absent" ->
            phase'[e] = IF e \in NeedsApproval THEN "waiting" ELSE "started"
      [] phase[e] = "waiting" -> phase'[e] \in {"started", "stopping", "ended"}
      [] phase[e] = "started" -> phase'[e] \in {"stopping", "succeeded", "ended"}
      [] phase[e] = "stopping" -> phase'[e] = "ended"
      [] phase[e] = "ended" -> phase'[e] = "replaced" /\ Successor(e)
      [] phase[e] = "replaced" -> phase'[e] = "stopping"
      [] OTHER -> FALSE

\* A transaction: some executions move, and a job message is sent for each of
\* those that start and for no other.  The run is closed only while none of
\* its executions is open.
Transaction ==
    /\ DOMAIN phase' = Execution
    /\ \A e \in Execution : phase'[e] # phase[e] => Move(e)
    /\ sent' = [e \in Execution |->
                  IF phase'[e] = "started" /\ phase[e] # "started"
                  THEN sent[e] + 1 ELSE sent[e]]
    /\ closed' => \A e \in Execution : phase'[e] \notin Open

Spec == Init /\ [][Transaction]_<<phase, sent, closed>>

=============================================================================
