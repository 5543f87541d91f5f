---------------------------- MODULE MCViolationPages ----------------------------
(* Instances of ViolationPages for TLC. *)
EXTENDS ViolationPages

CONSTANTS p1, p2, b1, b2

Content(bin, issue, active, unpaid) ==
  [bin |-> bin, issue |-> issue, active |-> active, unpaid |-> unpaid]

(* Undated and dated rows, of both BINs, caught by some filters only. *)
Undated == Content(b1, NoDate, TRUE, TRUE)
Old     == Content(b1, 1, TRUE, FALSE)
New     == Content(b2, 2, FALSE, TRUE)

MCContents == {Undated, Old, New}

(* A dated row before a tail of undated ones; updates bring other dates. *)
MCInitialSource == {<<Undated, Old, Undated>>}

Listing(kind, property, openOnly, unpaidOnly) ==
  [kind |-> kind, property |-> property, openOnly |-> openOnly, unpaidOnly |-> unpaidOnly]

MCListings ==
  {Listing("property", p1, TRUE, FALSE),
   Listing("portfolio", NoProperty, FALSE, TRUE), Listing("updates", NoProperty, FALSE, FALSE)}

(* One property without any BIN; it may come to share b1. *)
MCInitialBins == {[p \in Properties |-> IF p = p1 THEN {b1} ELSE {}]}
=============================================================================
