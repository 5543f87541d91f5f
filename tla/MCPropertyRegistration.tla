------------------------ MODULE MCPropertyRegistration ------------------------
(* Instances of PropertyRegistration for TLC. *)
EXTENDS PropertyRegistration, FiniteSets, TLC

CONSTANTS a1, s1, s2, s3, b1, k1, k2

(* No valid BIN, one, or the other after a renumbering. *)
NoneOrOne == {{}, {k1}, {k2}}

(* Bound: of the three single requests and the bulk one, three are made. *)
ThreeRequests == Cardinality({r \in Requests : pc[r] # "idle"}) <= 3

Symmetry == Permutations({s1, s2, s3}) \cup Permutations({k1, k2})
=============================================================================
