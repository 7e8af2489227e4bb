--------------------------- MODULE MCConcurrentRun ---------------------------
(***************************************************************************)
(* A protected deployment waits for the build, which may be tried twice.   *)
(***************************************************************************)
EXTENDS ConcurrentRun

DeliveryJob == {"build", "deploy"}
DeliveryDeps == {Edge("deploy", "build", "on_success")}
DeliveryMaxAttempts == [build |-> 2, deploy |-> 1]

=============================================================================
