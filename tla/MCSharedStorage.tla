-------------------------- MODULE MCSharedStorage ---------------------------
(* Windows for the runs of SharedStorage. *)
EXTENDS SharedStorage

CONSTANTS first, second

Two == {first, second}
=============================================================================
