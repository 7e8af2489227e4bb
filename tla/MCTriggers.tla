----------------------------- MODULE MCTriggers -----------------------------
(***************************************************************************)
(* One schedule trigger, whose interval is the scheduler's own and whose   *)
(* second fire time is crowded by the first, two masters, and clients that *)
(* deliver one event to the same trigger.                                  *)
(***************************************************************************)
EXTENDS Triggers, TLC

MCRequestOf == [c \in Client |-> [trigger |-> "nightly",
                                  keys |-> {<<"api", "hash", "payload", 1>>}]]

Symmetry == Permutations(Scheduler) \cup Permutations(Client)
=============================================================================
