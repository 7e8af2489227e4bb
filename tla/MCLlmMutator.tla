---------------------------- MODULE MCLlmMutator ----------------------------
(***************************************************************************)
(* A long and a short candidate for model checking LlmMutator.             *)
(***************************************************************************)
EXTENDS LlmMutator

LongShort == <<2, 1>>

=============================================================================
