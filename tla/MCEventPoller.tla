---------------------------- MODULE MCEventPoller ----------------------------
(***************************************************************************)
(* Four documents for model checking EventPoller: the second cannot be     *)
(* parsed, the fourth repeats the message of the first.                    *)
(***************************************************************************)
EXTENDS EventPoller

FourDocuments == <<"m1", "none", "m3", "m1">>

=============================================================================
