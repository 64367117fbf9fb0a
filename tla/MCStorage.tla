----------------------------- MODULE MCStorage ------------------------------
(* Keys for the runs of Storage. *)
EXTENDS Storage

CONSTANTS key, other

One == {key}
Two == {key, other}
=============================================================================
