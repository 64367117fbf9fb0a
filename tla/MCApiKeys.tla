----------------------------- MODULE MCApiKeys -----------------------------
(* Keys and invocations for the runs of ApiKeys. *)
EXTENDS ApiKeys

CONSTANTS call1, command, oldKey, newKey

OneCall == {call1}
OneCommand == {command}
NoCommand == {}
OneKey == {newKey}
TwoKeys == {oldKey, newKey}
Unset == {None}
OneOrUnset == {None, newKey}
=============================================================================
