--------------------------- MODULE MCCapabilities ---------------------------
(***************************************************************************)
(* Capabilities for TLC: general, object and context scopes, the empty     *)
(* list, and a candidate that names a context beside one that does not.    *)
(***************************************************************************)
EXTENDS Capabilities, TLC

CONSTANTS o1, o2, x

All == [kind |-> "all"]
OfObject == [kind |-> "object", of |-> o1]
OfContext == [kind |-> "context", of |-> x]

MCScopeLists == {{}, {All}, {OfContext, OfObject}}
MCCandidates == {[object |-> o1, context |-> None], [object |-> o2, context |-> x], [object |-> o2, context |-> None]}

Symmetry == Permutations(Admins) \cup Permutations(Secrets) \cup Permutations(Requests)
=============================================================================
