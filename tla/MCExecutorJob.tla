--------------------------- MODULE MCExecutorJob ---------------------------
(***************************************************************************)
(* Two executor processes for model checking ExecutorJob.                  *)
(***************************************************************************)
EXTENDS ExecutorJob

CONSTANTS w1, w2

Workers == {w1, w2}

=============================================================================
