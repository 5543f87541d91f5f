------------------------------ MODULE MCRawStaging ------------------------------
(* Instances of RawStaging for TLC. *)
EXTENDS RawStaging, TLC

CONSTANTS w1, w2, s1, s2

Content(updatedAt, bin, issue) ==
  [identity |-> "OK", updatedAt |-> updatedAt, bin |-> bin, issue |-> issue]

(* Undated in one of its ways, refused by validation only, without a key. *)
MCContents ==
  {Content("OK", "OK", "ZERO_TEXT"), Content("OK", "OK", "ZERO_NUMBER"),
   Content("BAD", "OK", "OK")}

Symmetry == Permutations({w1, w2}) \cup Permutations({s1, s2})
=============================================================================
