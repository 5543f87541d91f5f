--------------------------- MODULE PropertyIdentity ---------------------------
(***************************************************************************)
(* What the tables properties, property_bins and                           *)
(* property_resolution_inputs promise whoever reads them                   *)
(* (docs/architecture/resolver.md, section 5.4, and                        *)
(* property-identity.service.ts): an identifier version names one BIN set, *)
(* a property never loses its last BIN, and an input is mapped once, to a  *)
(* property that exists.  The status reason of the ECB coverage row is the *)
(* one that registration writes.                                           *)
(***************************************************************************)
EXTENDS Naturals

CONSTANTS
  Properties,   \* BBLs: bbl is unique and rows are never deleted
  Addresses,    \* normalised addresses
  Bins,         \* valid BINs
  NoProperty

VARIABLES
  bins,         \* bins[p]: rows of property_bins
  version,      \* version[p]: identifier_version, 0 before p is registered
  reason,       \* reason[p]: status_reason of its coverage row
  mapping       \* mapping[i]: property_id of the resolution input i

Inputs == Addresses \cup Properties
Registered(p) == version[p] > 0

PIInit ==
  /\ bins = [p \in Properties |-> {}]
  /\ version = [p \in Properties |-> 0]
  /\ reason = [p \in Properties |-> "NONE"]
  /\ mapping = [i \in Inputs |-> NoProperty]

Register(p, found) ==
  /\ ~Registered(p)
  /\ version' = [version EXCEPT ![p] = 1]
  /\ bins' = [bins EXCEPT ![p] = found]
  /\ reason' = [reason EXCEPT ![p] = IF found = {} THEN "NO_VALID_BIN" ELSE "NEVER_INGESTED"]
  /\ UNCHANGED mapping

ChangeBins(p, found) ==
  /\ Registered(p)
  /\ found # bins[p] /\ found # {}
  /\ version' = [version EXCEPT ![p] = @ + 1]
  /\ bins' = [bins EXCEPT ![p] = found]
  /\ reason' = [reason EXCEPT ![p] = "IDENTIFIERS_CHANGED"]
  /\ UNCHANGED mapping

(* A BBL is mapped to its own property. *)
MapInput(i, p) ==
  /\ mapping[i] = NoProperty
  /\ Registered(p)
  /\ i \in Properties => p = i
  /\ mapping' = [mapping EXCEPT ![i] = p]
  /\ UNCHANGED <<bins, version, reason>>

PINext ==
  \/ \E p \in Properties, found \in SUBSET Bins : Register(p, found) \/ ChangeBins(p, found)
  \/ \E i \in Inputs, p \in Properties : MapInput(i, p)

PISpec == PIInit /\ [][PINext]_<<bins, version, reason, mapping>>
=============================================================================
