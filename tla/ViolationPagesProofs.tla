-------------------------- MODULE ViolationPagesProofs --------------------------
(***************************************************************************)
(* Proofs about ViolationPages for any properties, BINs, source ids,       *)
(* contents, limits and bounds.                                            *)
(*                                                                         *)
(* The sort keys are in a strict total order, which the cursor predicates  *)
(* continue (CursorMatchesOrder), so that a page is a first part of what   *)
(* matches (PageSplit).  PageInv says where the cursor and the page being  *)
(* answered lie in that order; SettledInv, that a settled row that has not *)
(* been delivered lies beyond both.  FeedInv relates a feed of updates to  *)
(* what the runs saw of the source: Store(c, d), that the last accepted    *)
(* run saw it at c and the one in progress at d; Client(m), that what the  *)
(* listing in progress may still miss is newer than m, and so will be what *)
(* the next listing asks for.                                              *)
(***************************************************************************)
EXTENDS ViolationPages, FiniteSetTheorems, WellFoundedInduction, TLAPS

(* The keys a cursor may be compared with. *)
OrderKeys == [at : Nat, source : Nat]

LEMMA KeysAreOrderKeys == Keys \subseteq OrderKeys /\ NoCursor \notin Keys
  BY SourcesAssumption DEF Keys, OrderKeys, NoCursor

LEMMA PrecedesOrders ==
  ASSUME NEW k \in OrderKeys, NEW l \in OrderKeys, NEW m \in OrderKeys
  PROVE  /\ ~Precedes(k, k)
         /\ Precedes(k, l) /\ Precedes(l, m) => Precedes(k, m)
         /\ k = l \/ Precedes(k, l) \/ Precedes(l, k)
         /\ Precedes(k, l) => ~Precedes(l, k)
  <1>1. /\ k.at \in Nat /\ k.source \in Nat /\ l.at \in Nat /\ l.source \in Nat
        /\ m.at \in Nat /\ m.source \in Nat
    BY DEF OrderKeys
  <1>2. k.at = l.at /\ k.source = l.source => k = l
    BY DEF OrderKeys
  <1> QED BY <1>1, <1>2 DEF Precedes, NoDate

(* The predicate that continues a listing selects exactly the rows sorted  *)
(* after the cursor, NULL dates last, for every date and source id: the    *)
(* WHERE clause and the ORDER BY clause of the queries agree.              *)
THEOREM CursorMatchesOrder ==
  \A c, k \in OrderKeys : AfterCursor(c, k) <=> Precedes(c, k)
  <1> TAKE c, k \in OrderKeys
  <1>1. c.at \in Nat /\ c.source \in Nat /\ k.at \in Nat /\ k.source \in Nat
    BY DEF OrderKeys
  <1> QED BY <1>1 DEF AfterCursor, Precedes, NoDate

-----------------------------------------------------------------------------
(* Finite sets of keys *)

LEMMA MinimalNat ==
  ASSUME NEW T, T \subseteq Nat, T # {}
  PROVE  \E x \in T : \A y \in T : x <= y
  <1> DEFINE R == OpToRel(<, Nat)
  <1>1. IsWellFoundedOn(R, Nat)
    BY NatLessThanWellFounded
  <1> HIDE DEF R
  <1>2. PICK x \in T : \A y \in T : ~(<<y, x>> \in R)
    BY <1>1, WFMin
  <1>3. \A y \in T : y < x => <<y, x>> \in R
    BY DEF R, OpToRel
  <1>4. \A y \in T : y \in Nat
    OBVIOUS
  <1>5. ASSUME NEW y \in T PROVE x <= y
    <2>1. ~(y < x)
      BY <1>2, <1>3
    <2>2. x \in Nat /\ y \in Nat
      BY <1>4
    <2> QED BY <2>1, <2>2
  <1> QED BY <1>5

LEMMA LastExists ==
  ASSUME NEW S, S \subseteq OrderKeys, IsFiniteSet(S), S # {}
  PROVE  \E k \in S : \A l \in S : l = k \/ Precedes(l, k)
  <1> DEFINE after(k) == {l \in S : Precedes(k, l)}
             T == {Cardinality(after(k)) : k \in S}
  <1>1. \A k \in S : IsFiniteSet(after(k)) /\ Cardinality(after(k)) \in Nat
    BY FS_Subset, FS_CardinalityType
  <1>2. PICK n \in T : \A y \in T : n <= y
    <2>1. T \subseteq Nat /\ T # {}
      BY <1>1
    <2> HIDE DEF T
    <2> QED BY <2>1, MinimalNat
  <1>3. PICK k \in S : \A l \in S : Cardinality(after(k)) <= Cardinality(after(l))
    BY <1>2
  <1>4. ASSUME NEW l \in S, Precedes(k, l) PROVE FALSE
    <2>1. after(l) \subseteq after(k) /\ l \in after(k) /\ l \notin after(l)
      BY <1>4, PrecedesOrders
    <2>2. Cardinality(after(l)) <= Cardinality(after(k)) /\ Cardinality(after(l)) # Cardinality(after(k))
      BY <1>1, <2>1, FS_Subset
    <2> HIDE DEF after
    <2> QED BY <1>1, <1>3, <2>2
  <1>5. \A l \in S : l = k \/ Precedes(l, k)
    BY <1>4, PrecedesOrders
  <1> QED BY <1>5

LEMMA FirstExists ==
  ASSUME NEW S, S \subseteq OrderKeys, IsFiniteSet(S), S # {}
  PROVE  \E k \in S : \A l \in S : ~Precedes(l, k)
  <1> DEFINE before(k) == {l \in S : Precedes(l, k)}
             T == {Cardinality(before(k)) : k \in S}
  <1>1. \A k \in S : IsFiniteSet(before(k)) /\ Cardinality(before(k)) \in Nat
    BY FS_Subset, FS_CardinalityType
  <1>2. PICK n \in T : \A y \in T : n <= y
    <2>1. T \subseteq Nat /\ T # {}
      BY <1>1
    <2> HIDE DEF T
    <2> QED BY <2>1, MinimalNat
  <1>3. PICK k \in S : \A l \in S : Cardinality(before(k)) <= Cardinality(before(l))
    BY <1>2
  <1>4. ASSUME NEW l \in S, Precedes(l, k) PROVE FALSE
    <2>1. before(l) \subseteq before(k) /\ l \in before(k) /\ l \notin before(l)
      BY <1>4, PrecedesOrders
    <2>2. Cardinality(before(l)) <= Cardinality(before(k)) /\ Cardinality(before(l)) # Cardinality(before(k))
      BY <1>1, <2>1, FS_Subset
    <2> HIDE DEF before
    <2> QED BY <1>1, <1>3, <2>2
  <1> QED BY <1>4

LEMMA LastKeyIsLast ==
  ASSUME NEW S, \E k \in S : \A l \in S : l = k \/ Precedes(l, k)
  PROVE  LastKey(S) \in S /\ \A l \in S : l = LastKey(S) \/ Precedes(l, LastKey(S))
  BY DEF LastKey

-----------------------------------------------------------------------------
(* What a page is *)

MatchingKeys(q, c, rows, bins) == {SortKey(q, s, rows[s]) : s \in Matching(q, c, rows, bins)}

LEMMA RowTypes ==
  ASSUME NEW row \in Rows
  PROVE  row.updated \in Nat /\ row.content \in ContentRecords /\ row.content.issue \in Nat
  BY ContentsAssumption, ViolationBoundsAssumption DEF Rows, ContentRecords

LEMMA SortKeyType ==
  ASSUME NEW q, NEW s \in Sources, NEW row \in Rows
  PROVE  SortKey(q, s, row) \in Keys /\ SortKey(q, s, row).source = s
  BY RowTypes DEF SortKey, Keys

LEMMA MatchingKeysFinite ==
  ASSUME NEW q, NEW c, NEW bins, NEW rows \in [Sources -> Rows]
  PROVE  /\ MatchingKeys(q, c, rows, bins) \subseteq Keys
         /\ IsFiniteSet(MatchingKeys(q, c, rows, bins))
         /\ Cardinality(MatchingKeys(q, c, rows, bins)) \in Nat
         /\ Cardinality(Matching(q, c, rows, bins)) \in Nat
         /\ Cardinality(MatchingKeys(q, c, rows, bins)) <= Cardinality(Matching(q, c, rows, bins))
  <1> DEFINE S == Matching(q, c, rows, bins)
             M == MatchingKeys(q, c, rows, bins)
             f == [s \in S |-> SortKey(q, s, rows[s])]
  <1>1. S \subseteq Sources /\ IsFiniteSet(S)
    BY SourcesAssumption, FS_Subset DEF Matching
  <1>2. f \in Surjection(S, M)
    BY DEF Surjection, MatchingKeys
  <1> HIDE DEF f, S, M
  <1>3. IsFiniteSet(M) /\ Cardinality(M) <= Cardinality(S)
    BY <1>1, <1>2, FS_Surjection
  <1>4. Cardinality(M) \in Nat /\ Cardinality(S) \in Nat
    BY <1>1, <1>3, FS_CardinalityType
  <1>5. M \subseteq Keys
    BY <1>1, SortKeyType DEF M, MatchingKeys, S
  <1> QED BY <1>3, <1>4, <1>5 DEF M, S

LEMMA PageIsPart ==
  ASSUME NEW q, NEW c, NEW bins, NEW rows
  PROVE  PageKeys(q, c, rows, bins) = {k \in MatchingKeys(q, c, rows, bins) :
           Cardinality({l \in MatchingKeys(q, c, rows, bins) : Precedes(l, k)}) < q.limit}
  BY DEF PageKeys, MatchingKeys

(* A matching row is on the page, or there is more and it sorts after the  *)
(* whole page.                                                             *)
LEMMA PageSplit ==
  ASSUME NEW q, q.limit \in Nat, NEW c, NEW bins, NEW rows \in [Sources -> Rows],
         NEW k \in MatchingKeys(q, c, rows, bins), k \notin PageKeys(q, c, rows, bins)
  PROVE  HasMore(q, c, rows, bins) /\ \A l \in PageKeys(q, c, rows, bins) : Precedes(l, k)
  <1> DEFINE M == MatchingKeys(q, c, rows, bins)
             before(j) == {l \in M : Precedes(l, j)}
  <1>1. M \subseteq OrderKeys /\ IsFiniteSet(M)
    BY MatchingKeysFinite, KeysAreOrderKeys
  <1>2. \A j \in M : IsFiniteSet(before(j)) /\ Cardinality(before(j)) \in Nat
    BY <1>1, FS_Subset, FS_CardinalityType
  <1>3. ~(Cardinality(before(k)) < q.limit)
    BY PageIsPart
  <1>4. ASSUME NEW l \in PageKeys(q, c, rows, bins) PROVE Precedes(l, k)
    <2>1. l \in M /\ Cardinality(before(l)) < q.limit
      BY PageIsPart
    <2>2. CASE Precedes(k, l)
      <3>1. before(k) \subseteq before(l)
        BY <1>1, <2>1, <2>2, PrecedesOrders
      <3>2. Cardinality(before(k)) <= Cardinality(before(l))
        BY <1>2, <2>1, <3>1, FS_Subset
      <3> HIDE DEF before
      <3> QED BY <1>2, <1>3, <2>1, <3>2
    <2>3. l # k
      BY <1>3, <2>1
    <2> QED BY <1>1, <2>1, <2>2, <2>3, PrecedesOrders
  <1>5. Cardinality(before(k)) < Cardinality(M)
    <2>1. before(k) \subseteq M /\ k \notin before(k)
      BY <1>1, PrecedesOrders
    <2>2. Cardinality(before(k)) <= Cardinality(M) /\ Cardinality(before(k)) # Cardinality(M)
      BY <1>1, <2>1, FS_Subset
    <2>3. Cardinality(M) \in Nat
      BY MatchingKeysFinite
    <2> HIDE DEF before, M
    <2> QED BY <1>2, <2>2, <2>3 DEF M
  <1>6. Cardinality(Matching(q, c, rows, bins)) > q.limit
    <2>1. /\ Cardinality(M) <= Cardinality(Matching(q, c, rows, bins))
          /\ Cardinality(M) \in Nat /\ Cardinality(Matching(q, c, rows, bins)) \in Nat
      BY MatchingKeysFinite
    <2>2. Cardinality(before(k)) \in Nat
      BY <1>2
    <2> HIDE DEF before, M
    <2> QED BY <1>3, <1>5, <2>1, <2>2
  <1> QED BY <1>4, <1>6 DEF HasMore

LEMMA PageTypes ==
  ASSUME NEW q, NEW c, NEW bins, NEW rows \in [Sources -> Rows]
  PROVE  PageKeys(q, c, rows, bins) \subseteq Keys /\ IsFiniteSet(PageKeys(q, c, rows, bins))
  BY PageIsPart, MatchingKeysFinite, FS_Subset

LEMMA PageHasLast ==
  ASSUME NEW q, q.limit \in Nat \ {0}, NEW c, NEW bins, NEW rows \in [Sources -> Rows],
         HasMore(q, c, rows, bins)
  PROVE  \E k \in PageKeys(q, c, rows, bins) : \A l \in PageKeys(q, c, rows, bins) :
           l = k \/ Precedes(l, k)
  <1> DEFINE M == MatchingKeys(q, c, rows, bins)
  <1>1. M \subseteq OrderKeys /\ IsFiniteSet(M)
    BY MatchingKeysFinite, KeysAreOrderKeys
  <1>2. M # {}
    <2>1. Cardinality(Matching(q, c, rows, bins)) \in Nat /\ Cardinality(Matching(q, c, rows, bins)) # 0
      BY MatchingKeysFinite DEF HasMore
    <2>2. Matching(q, c, rows, bins) # {}
      BY <2>1, FS_EmptySet
    <2> QED BY <2>2 DEF MatchingKeys
  <1>3. PICK k \in M : \A l \in M : ~Precedes(l, k)
    BY <1>1, <1>2, FirstExists
  <1>4. {l \in M : Precedes(l, k)} = {}
    BY <1>3
  <1>5. k \in PageKeys(q, c, rows, bins)
    BY <1>4, FS_EmptySet, PageIsPart
  <1> QED BY <1>5, PageTypes, KeysAreOrderKeys, LastExists

LEMMA PageFits ==
  ASSUME NEW q, q.limit \in Nat \ {0}, NEW c, NEW bins, NEW rows \in [Sources -> Rows]
  PROVE  Cardinality(PageKeys(q, c, rows, bins)) <= q.limit
  <1> DEFINE M == MatchingKeys(q, c, rows, bins)
             P == PageKeys(q, c, rows, bins)
  <1>1. M \subseteq OrderKeys /\ IsFiniteSet(M) /\ P \subseteq M /\ IsFiniteSet(P)
    <2>1. M \subseteq OrderKeys /\ IsFiniteSet(M)
      BY MatchingKeysFinite, KeysAreOrderKeys
    <2>2. P \subseteq M
      BY PageIsPart
    <2>3. IsFiniteSet(P)
      BY PageTypes
    <2> QED BY <2>1, <2>2, <2>3
  <1>2. CASE P = {}
    <2>1. Cardinality(P) = 0
      BY <1>2, FS_EmptySet
    <2> HIDE DEF P
    <2> QED BY <2>1 DEF P
  <1>3. CASE P # {}
    <2>1. P \subseteq OrderKeys
      BY <1>1
    <2>2. PICK k \in P : \A l \in P : l = k \/ Precedes(l, k)
      <3> HIDE DEF P
      <3> QED BY <1>1, <1>3, <2>1, LastExists
    <2>3. P \ {k} \subseteq {l \in M : Precedes(l, k)}
      BY <1>1, <2>2
    <2>4. IsFiniteSet({l \in M : Precedes(l, k)})
      BY <1>1, FS_Subset
    <2>5. Cardinality(P \ {k}) <= Cardinality({l \in M : Precedes(l, k)})
      BY <2>3, <2>4, FS_Subset
    <2>6. Cardinality({l \in M : Precedes(l, k)}) < q.limit
      BY PageIsPart
    <2>7. Cardinality(P \ {k}) = Cardinality(P) - 1
      BY <1>1, FS_RemoveElement
    <2>8. Cardinality(P) \in Nat /\ Cardinality({l \in M : Precedes(l, k)}) \in Nat
      BY <1>1, <2>4, FS_CardinalityType
    <2> HIDE DEF P, M
    <2> QED BY <2>5, <2>6, <2>7, <2>8 DEF P
  <1> QED BY <1>2, <1>3
-----------------------------------------------------------------------------
(* Types *)

LEMMA NewestInSet ==
  ASSUME NEW seen, seen \subseteq 0..MaxClock, seen # {}
  PROVE  Newest(seen) \in seen /\ \A u \in seen : u <= Newest(seen)
  <1> DEFINE T == {MaxClock - t : t \in seen}
  <1>1. MaxClock \in Nat
    BY ViolationBoundsAssumption
  <1>2. T \subseteq Nat /\ T # {}
    <2>1. \A t \in seen : MaxClock - t \in Nat
      BY <1>1
    <2> QED BY <2>1
  <1>3. PICK x \in T : \A y \in T : x <= y
    <2> HIDE DEF T
    <2> QED BY <1>2, MinimalNat
  <1>4. PICK t \in seen : x = MaxClock - t
    BY <1>3
  <1>5. ASSUME NEW u \in seen PROVE u <= t
    <2>1. MaxClock - t <= MaxClock - u
      BY <1>3, <1>4
    <2> QED BY <1>1, <2>1
  <1>6. \E v \in seen : \A u \in seen : u <= v
    BY <1>5
  <1> QED BY <1>6 DEF Newest

LEMMA AnswerType ==
  ASSUME NEW q \in Queries, NEW c, NEW rows \in [Sources -> Rows], NEW bins,
         NEW cover \in [Properties -> Coverages]
  PROVE  /\ Answer(q, c, rows, bins, cover) \in Answers
         /\ Cardinality(Answer(q, c, rows, bins, cover).keys) <= q.limit
  <1> DEFINE P == PageKeys(q, c, rows, bins)
             V == {[source |-> k.source, updated |-> rows[k.source].updated] : k \in P}
  <1>1. q.limit \in Nat \ {0} /\ q.listing \in ListingRecords
    BY QueriesAssumption DEF Queries
  <1>2. P \subseteq Keys
    BY PageTypes
  <1>3. Cardinality(P) <= q.limit
    BY <1>1, PageFits
  <1>4. V \subseteq Versions
    <2> SUFFICES ASSUME NEW k \in P
                 PROVE  [source |-> k.source, updated |-> rows[k.source].updated] \in Versions
      OBVIOUS
    <2>1. k.source \in Sources
      BY <1>2 DEF Keys
    <2> QED BY <2>1 DEF Versions, Rows
  <1>5. CoverageFor(q, cover) \in Coverages
    <2>1. CASE q.listing.kind = "property"
      BY <1>1, <2>1 DEF CoverageFor, ListingRecords
    <2>2. CASE q.listing.kind # "property"
      BY <2>2, ViolationBoundsAssumption DEF CoverageFor, Coverages
    <2> QED BY <2>1, <2>2
  <1>6. HasMore(q, c, rows, bins) \in BOOLEAN
    BY DEF HasMore
  <1> HIDE DEF V
  <1>7. Answer(q, c, rows, bins, cover) =
          [keys |-> P, hasMore |-> HasMore(q, c, rows, bins), versions |-> V,
           coverage |-> CoverageFor(q, cover)]
    BY DEF Answer, V
  <1> HIDE DEF P
  <1> QED BY <1>2, <1>3, <1>4, <1>5, <1>6, <1>7 DEF Answers

LEMMA NoAnswerType == NoAnswer \in Answers /\ Cardinality(NoAnswer.keys) = 0
  BY FS_EmptySet, ViolationBoundsAssumption DEF NoAnswer, Answers, Coverages

(* A run is counted when it is published, a page when it is answered; a    *)
(* page that is not the last has a last row, which becomes the cursor.     *)
TypeInv ==
  /\ TypeOK
  /\ scan.open => runs < MaxRuns
  /\ phase = "answering" => pages < MaxPages
  /\ phase = "answering" /\ answer.hasMore =>
       \E k \in answer.keys : \A l \in answer.keys : l = k \/ Precedes(l, k)

LEMMA ObserveTypes ==
  ASSUME TypeInv, NEW rows \in [Sources -> Rows], NEW bins \in [Properties -> SUBSET Bins],
         NEW cover \in [Properties -> Coverages], Observe(rows, bins, cover)
  PROVE  settled' \subseteq Sources /\ moments' \subseteq Answers /\ watched' \subseteq Bins
  <1>1. Answer(query, cursor, rows, bins, cover) \in Answers
    BY AnswerType DEF TypeInv, TypeOK
  <1> QED BY <1>1 DEF TypeInv, TypeOK, Observe

LEMMA TypesInitially == Init => TypeInv
  <1> SUFFICES ASSUME Init PROVE TypeInv
    OBVIOUS
  <1>1. source \in [Sources -> Rows]
    <2>1. PICK f \in InitialSource : source = [s \in Sources |-> ListedRow(f[s], 1)]
      BY DEF Init
    <2>2. f \in [Sources -> Contents]
      BY InitialAssumption
    <2> QED BY <2>1, <2>2, ViolationBoundsAssumption DEF ListedRow, Rows
  <1>2. tracked \in [Properties -> SUBSET Bins]
    BY InitialAssumption DEF Init
  <1>3. live \in [Sources -> Rows]
    BY <1>1 DEF Init, Rows
  <1>4. coverage \in [Properties -> Coverages]
    BY ViolationBoundsAssumption DEF Init, Coverages
  <1>5. query \in Queries
    BY QueriesAssumption DEF Init, Queries
  <1>6. answer \in Answers /\ Cardinality(answer.keys) <= query.limit
    BY <1>5, NoAnswerType, QueriesAssumption DEF Init, Queries
  <1>7. watched \subseteq Bins
    BY <1>2 DEF Init, AllBins
  <1>8. scan \in [open : BOOLEAN, bins : [Properties -> SUBSET Bins],
                  staged : SUBSET [source : Sources, row : Rows], unchanged : SUBSET Properties]
    BY DEF Init, NoScan
  <1> QED BY <1>1, <1>2, <1>3, <1>4, <1>5, <1>6, <1>7, <1>8, ViolationBoundsAssumption
          DEF Init, TypeInv, TypeOK, NoScan

LEMMA PublishTypes ==
  ASSUME TypeInv, PublishScan PROVE TypeInv'
  <1> USE DEF TypeInv, TypeOK
  <1>1. runs + 1 \in 1..MaxRuns /\ runs' = runs + 1
    BY ViolationBoundsAssumption DEF PublishScan
  <1>2. live' \in [Sources -> Rows]
    <2>1. ASSUME NEW s \in Sources, \E e \in scan.staged : e.source = s
          PROVE  (CHOOSE e \in scan.staged : e.source = s).row \in Rows
      <3>1. (CHOOSE e \in scan.staged : e.source = s) \in scan.staged
        BY <2>1
      <3> QED BY <3>1
    <2>2. ASSUME NEW s \in Sources, NEW b \in BOOLEAN
          PROVE  [live[s] EXCEPT !.listed = b] \in Rows
      BY DEF Rows
    <2> DEFINE stays(s) == live[s].listed /\ live[s].content.bin \notin AllBins(scan.bins)
    <2>3. \A s \in Sources : [live[s] EXCEPT !.listed = stays(s)] \in Rows
      BY <2>2
    <2> QED BY <2>1, <2>3 DEF PublishScan
  <1>3. coverage' \in [Properties -> Coverages]
    <2>1. runs + 1 \in 0..MaxRuns
      BY <1>1, ViolationBoundsAssumption
    <2>2. \A p \in Properties : /\ [status |-> "CHECKED", run |-> runs + 1] \in Coverages
                                /\ [coverage[p] EXCEPT !.status = "NOT_CHECKED"] \in Coverages
      BY <2>1 DEF Coverages
    <2> QED BY <2>2 DEF PublishScan
  <1>4. scan' = NoScan /\ Observe(live', tracked, coverage')
    BY DEF PublishScan
  <1>5. settled' \subseteq Sources /\ moments' \subseteq Answers /\ watched' \subseteq Bins
    BY <1>2, <1>3, <1>4, ObserveTypes
  <1>6. /\ ~scan'.open
        /\ scan' \in [open : BOOLEAN, bins : [Properties -> SUBSET Bins],
                     staged : SUBSET [source : Sources, row : Rows], unchanged : SUBSET Properties]
    BY <1>4 DEF NoScan
  <1> QED BY <1>1, <1>2, <1>3, <1>5, <1>6
          DEF PublishScan, sourceVars, propertyVars, requestVars, clientVars

LEMMA AnswerPageTypes ==
  ASSUME TypeInv, AnswerPage PROVE TypeInv'
  <1> USE DEF TypeInv, TypeOK
  <1>1. /\ held \in [Sources -> 0..MaxClock] /\ high \in 0..MaxClock /\ answer \in Answers
        /\ query \in Queries /\ query.limit \in Nat
    BY QueriesAssumption DEF Queries
  <1>2. held' \in [Sources -> 0..MaxClock]
    <2>1. ASSUME NEW s \in Sources
          PROVE  Newest({held[s]} \cup {v.updated : v \in {w \in answer.versions : w.source = s}})
                   \in 0..MaxClock
      <3> DEFINE seen == {held[s]} \cup {v.updated : v \in {w \in answer.versions : w.source = s}}
      <3>1. seen \subseteq 0..MaxClock /\ seen # {}
        BY <1>1 DEF Answers, Versions
      <3> HIDE DEF seen
      <3> QED BY <3>1, NewestInSet DEF seen
    <2>2. CASE Following
      BY <2>1, <2>2 DEF AnswerPage
    <2>3. CASE ~Following
      BY <1>1, <2>3 DEF AnswerPage
    <2> QED BY <2>2, <2>3
  <1>3. high' \in 0..MaxClock
    <2> DEFINE seen == {high} \cup {held'[s] : s \in Sources}
    <2>1. seen \subseteq 0..MaxClock /\ seen # {}
      BY <1>1, <1>2
    <2>2. Newest(seen) \in 0..MaxClock
      <3> HIDE DEF seen
      <3> QED BY <2>1, NewestInSet
    <2> QED BY <1>1, <2>2 DEF AnswerPage
  <1>4. answer' \in Answers /\ answer'.keys = answer.keys
    BY <1>1 DEF AnswerPage, ReadCoverage, Answers
  <1>5. delivered' \subseteq [key : Keys, page : Nat] /\ pages' \in 0..MaxPages
    <2>1. answer.keys \subseteq Keys
      BY <1>1 DEF Answers
    <2>2. pages + 1 \in 0..MaxPages
      BY ViolationBoundsAssumption DEF AnswerPage
    <2>3. \A k \in answer.keys : [key |-> k, page |-> pages + 1] \in [key : Keys, page : Nat]
      BY <2>1, <2>2
    <2>4. pages' \in 0..MaxPages
      BY <2>2 DEF AnswerPage
    <2>5. delivered' = delivered \cup {[key |-> k, page |-> pages + 1] : k \in answer.keys}
      BY DEF AnswerPage
    <2>6. delivered \subseteq [key : Keys, page : Nat]
      OBVIOUS
    <2> QED BY ONLY <2>3, <2>4, <2>5, <2>6
  <1>6. cursor' \in Keys \cup {NoCursor}
    <2>1. CASE answer.hasMore
      <3>1. LastKey(answer.keys) \in answer.keys
        BY <2>1, LastKeyIsLast DEF AnswerPage
      <3>2. LastKey(answer.keys) \in Keys
        BY <1>1, <3>1 DEF Answers
      <3> QED BY <2>1, <3>2 DEF AnswerPage, NextCursor
    <2>2. CASE ~answer.hasMore
      BY <2>2 DEF AnswerPage
    <2> QED BY <2>1, <2>2
  <1>7. query' = query /\ phase' \in {"idle", "asking", "answering", "done", "refused"}
    BY DEF AnswerPage
  <1> QED BY <1>1, <1>2, <1>3, <1>4, <1>5, <1>6, <1>7
          DEF AnswerPage, sourceVars, propertyVars, storeVars, ghostVars

LEMMA TypesNext ==
  ASSUME TypeInv, [Next]_vars PROVE TypeInv'
  <1> USE DEF TypeInv, TypeOK
  <1>1. ASSUME NEW s \in Sources, NEW content \in Contents, SourceUpdate(s, content)
        PROVE  TypeInv'
    <2>1. clock + 1 \in 1..MaxClock /\ clock + 1 \in 0..MaxClock
      BY <1>1, ViolationBoundsAssumption DEF SourceUpdate
    <2>2. ListedRow(content, clock + 1) \in Rows
      BY <2>1 DEF ListedRow, Rows
    <2>3. source' \in [Sources -> Rows] /\ clock' \in 1..MaxClock
      BY <1>1, <2>1, <2>2 DEF SourceUpdate
    <2> QED BY <1>1, <2>3 DEF SourceUpdate, propertyVars, storeVars, requestVars, clientVars, ghostVars
  <1>2. ASSUME NEW s \in Sources, SourceDelete(s)
        PROVE  TypeInv'
    <2>1. clock' \in 1..MaxClock
      BY <1>2, ViolationBoundsAssumption DEF SourceDelete
    <2>2. source' \in [Sources -> Rows]
      BY <1>2 DEF SourceDelete, Rows
    <2> QED BY <1>2, <2>1, <2>2 DEF SourceDelete, propertyVars, storeVars, requestVars, clientVars, ghostVars
  <1>3. ASSUME NEW p \in Properties, NEW bins \in SUBSET Bins, ChangeBins(p, bins)
        PROVE  TypeInv'
    <2>1. tracked' \in [Properties -> SUBSET Bins]
      BY <1>3 DEF ChangeBins
    <2>2. coverage' \in [Properties -> Coverages]
      BY <1>3 DEF ChangeBins, Coverages
    <2>3. settled' \subseteq Sources /\ moments' \subseteq Answers /\ watched' \subseteq Bins
      BY <1>3, <2>1, <2>2, ObserveTypes DEF ChangeBins
    <2>4. moves' \in 0..MaxMoves
      BY <1>3, ViolationBoundsAssumption DEF ChangeBins
    <2> QED BY <1>3, <2>1, <2>2, <2>3, <2>4
            DEF ChangeBins, sourceVars, requestVars, clientVars
  <1>4. ASSUME StartScan
        PROVE  TypeInv'
    BY <1>4 DEF StartScan, sourceVars, propertyVars, requestVars, clientVars, ghostVars
  <1>5. ASSUME PublishScan
        PROVE  TypeInv'
    BY <1>5, PublishTypes
  <1>6. ASSUME RejectScan
        PROVE  TypeInv'
    <2>1. coverage' \in [Properties -> Coverages]
      BY <1>6 DEF RejectScan, Coverages
    <2>2. settled' \subseteq Sources /\ moments' \subseteq Answers /\ watched' \subseteq Bins
      BY <1>6, <2>1, ObserveTypes DEF RejectScan
    <2> QED BY <1>6, <2>1, <2>2 DEF RejectScan, NoScan, sourceVars, propertyVars, requestVars, clientVars
  <1>7. ASSUME NEW l \in Listings, NEW n \in Limits, NEW t \in {0, high},
               OpenListing([listing |-> l, limit |-> n, since |-> t])
        PROVE  TypeInv'
    <2>1. query' \in Queries /\ query'.limit \in Nat
      BY <1>7, QueriesAssumption, ViolationBoundsAssumption DEF OpenListing, Queries
    <2>2. answer' \in Answers /\ Cardinality(answer'.keys) <= query'.limit
      BY <1>7, <2>1, NoAnswerType DEF OpenListing
    <2>3. listings' \in 0..MaxListings /\ pages' \in 0..MaxPages
      BY <1>7, ViolationBoundsAssumption DEF OpenListing
    <2> QED BY <1>7, <2>1, <2>2, <2>3
            DEF OpenListing, sourceVars, propertyVars, storeVars, clientVars
  <1>8. ASSUME RefuseCursor
        PROVE  TypeInv'
    BY <1>8 DEF RefuseCursor, sourceVars, propertyVars, storeVars, clientVars, ghostVars
  <1>9. ASSUME ReadPage
        PROVE  TypeInv'
    <2>1. answer' \in Answers /\ Cardinality(answer'.keys) <= query.limit
      BY <1>9, AnswerType DEF ReadPage
    <2>2. moments' \subseteq Answers /\ settled' \subseteq Sources
      BY <1>9, <2>1 DEF ReadPage
    <2>3. ASSUME answer'.hasMore
          PROVE  \E k \in answer'.keys : \A l \in answer'.keys : l = k \/ Precedes(l, k)
      <3>1. /\ answer'.keys = PageKeys(query, cursor, live, tracked)
            /\ answer'.hasMore = HasMore(query, cursor, live, tracked)
        BY <1>9 DEF ReadPage, Answer
      <3>2. query.limit \in Nat \ {0}
        BY QueriesAssumption DEF Queries
      <3> QED BY <2>3, <3>1, <3>2, PageHasLast
    <2> QED BY <1>9, <2>1, <2>2, <2>3
            DEF ReadPage, sourceVars, propertyVars, storeVars, clientVars
  <1>10. ASSUME AnswerPage
         PROVE  TypeInv'
    BY <1>10, AnswerPageTypes
  <1>11. ASSUME UNCHANGED vars
         PROVE  TypeInv'
    BY <1>11 DEF vars
  <1> QED BY <1>1, <1>2, <1>3, <1>4, <1>5, <1>6, <1>7, <1>8, <1>9, <1>10, <1>11 DEF Next

(* Every variable keeps its type; no page holds more than limit rows.      *)
THEOREM TypeCorrect == Spec => []TypeOK
  <1>1. TypeInv => TypeOK
    BY DEF TypeInv
  <1> QED BY <1>1, TypesInitially, TypesNext, PTL DEF Spec

-----------------------------------------------------------------------------
(* One answer, one moment *)

(* The answer being made, and the answer last made, are what the page's    *)
(* statement read.                                                         *)
MomentInv ==
  phase = "answering" \/ (phase \in {"asking", "done", "refused"} /\ pages > 0) => answer \in moments

LEMMA MomentNext ==
  ASSUME TypeInv, MomentInv, [Next]_vars PROVE MomentInv'
  <1>1. ASSUME NEW rows, NEW bins, NEW cover, Observe(rows, bins, cover), UNCHANGED requestVars
        PROVE  MomentInv'
    BY <1>1 DEF Observe, MomentInv, requestVars
  <1>2. ASSUME NEW p \in Properties, NEW bins \in SUBSET Bins, ChangeBins(p, bins)
        PROVE  MomentInv'
    BY <1>1, <1>2 DEF ChangeBins
  <1>3. ASSUME PublishScan
        PROVE  MomentInv'
    BY <1>1, <1>3 DEF PublishScan
  <1>4. ASSUME RejectScan
        PROVE  MomentInv'
    BY <1>1, <1>4 DEF RejectScan
  <1>5. ASSUME NEW q, OpenListing(q)
        PROVE  MomentInv'
    BY <1>5 DEF OpenListing, MomentInv
  <1>6. ASSUME RefuseCursor
        PROVE  MomentInv'
    BY <1>6 DEF RefuseCursor, MomentInv, ghostVars
  <1>7. ASSUME ReadPage
        PROVE  MomentInv'
    BY <1>7 DEF ReadPage, MomentInv
  <1>8. ASSUME AnswerPage
        PROVE  MomentInv'
    <2>1. answer' = answer
      BY <1>8 DEF AnswerPage, ReadCoverage, TypeInv, TypeOK, Answers
    <2> QED BY <1>8, <2>1 DEF AnswerPage, MomentInv, ghostVars
  <1>9. ASSUME UNCHANGED requestVars, UNCHANGED ghostVars
        PROVE  MomentInv'
    BY <1>9 DEF MomentInv, requestVars, ghostVars
  <1>10. CASE UNCHANGED vars
    BY <1>9, <1>10 DEF vars, requestVars, ghostVars
  <1> QED BY <1>2, <1>3, <1>4, <1>5, <1>6, <1>7, <1>8, <1>9, <1>10
          DEF Next, SourceUpdate, SourceDelete, StartScan

(* The rows and the coverage of one answer held together at one moment of  *)
(* the request, for every schedule of publications and identifier changes. *)
THEOREM AnswersAreConsistent == Spec => []AnswerIsOneMoment
  <1>1. Init => MomentInv
    BY DEF Init, MomentInv
  <1>2. MomentInv => AnswerIsOneMoment
    BY DEF MomentInv, AnswerIsOneMoment
  <1> QED BY <1>1, <1>2, TypesInitially, TypesNext, MomentNext, PTL DEF Spec

-----------------------------------------------------------------------------
(* The order of the pages *)

(* The cursor is the last row delivered, and the page being answered lies  *)
(* beyond it.                                                              *)
PageInv ==
  /\ pages = 0 => delivered = {} /\ cursor = NoCursor
  /\ \A d \in delivered : d.page <= pages
  /\ PagesAreOrdered
  /\ phase \in {"asking", "answering"} /\ pages > 0 =>
       cursor \in Keys /\ \A d \in delivered : d.key = cursor \/ Precedes(d.key, cursor)
  /\ phase = "answering" /\ pages > 0 => \A k \in answer.keys : Precedes(cursor, k)

LEMMA MatchingIsBeyond ==
  ASSUME NEW q, NEW c \in Keys, NEW bins, NEW rows \in [Sources -> Rows],
         NEW k \in PageKeys(q, c, rows, bins)
  PROVE  Precedes(c, k)
  <1>1. PICK s \in Matching(q, c, rows, bins) : k = SortKey(q, s, rows[s])
    BY PageIsPart DEF MatchingKeys
  <1>2. c # NoCursor /\ c \in OrderKeys
    BY KeysAreOrderKeys
  <1>3. AfterCursor(c, k)
    BY <1>1, <1>2 DEF Matching
  <1>4. k \in OrderKeys
    BY PageTypes, KeysAreOrderKeys
  <1> QED BY <1>2, <1>3, <1>4, CursorMatchesOrder

LEMMA PageNext ==
  ASSUME TypeInv, PageInv, [Next]_vars PROVE PageInv'
  <1> USE ViolationBoundsAssumption
  <1>1. pages \in Nat /\ delivered \subseteq [key : Keys, page : Nat]
    BY DEF TypeInv, TypeOK
  <1>2. ASSUME UNCHANGED requestVars
        PROVE  PageInv'
    BY <1>2 DEF PageInv, PagesAreOrdered, requestVars
  <1>3. ASSUME NEW q, OpenListing(q)
        PROVE  PageInv'
    BY <1>3 DEF OpenListing, PageInv, PagesAreOrdered
  <1>4. ASSUME RefuseCursor
        PROVE  PageInv'
    BY <1>4 DEF RefuseCursor, PageInv, PagesAreOrdered
  <1>5. ASSUME ReadPage
        PROVE  PageInv'
    <2>1. ASSUME pages > 0, NEW k \in answer'.keys
          PROVE  Precedes(cursor, k)
      <3>1. cursor \in Keys /\ answer'.keys = PageKeys(query, cursor, live, tracked)
        BY <1>5, <2>1 DEF ReadPage, Answer, PageInv
      <3>2. live \in [Sources -> Rows]
        BY DEF TypeInv, TypeOK
      <3> QED BY <2>1, <3>1, <3>2, MatchingIsBeyond
    <2> QED BY <1>5, <2>1 DEF ReadPage, PageInv, PagesAreOrdered
  <1>6. ASSUME AnswerPage
        PROVE  PageInv'
    <2> DEFINE new == {[key |-> k, page |-> pages + 1] : k \in answer.keys}
    <2>1. /\ delivered' = delivered \cup new
          /\ pages' = pages + 1 /\ pages' > 0 /\ pages' # 0
      BY <1>1, <1>6 DEF AnswerPage
    <2>2. answer.keys \subseteq Keys /\ Keys \subseteq OrderKeys
      BY KeysAreOrderKeys DEF TypeInv, TypeOK, Answers
    <2>3. \A e \in new : e.key \in answer.keys /\ e.page = pages + 1
      OBVIOUS
    <2>4. \A d \in delivered' : d.page <= pages'
      BY <1>1, <2>1, <2>3 DEF PageInv
    <2>5. ASSUME NEW d \in delivered, NEW k \in answer.keys
          PROVE  Precedes(d.key, k)
      <3>1. pages > 0
        BY <1>1, <2>5 DEF PageInv
      <3>2. cursor \in Keys /\ (d.key = cursor \/ Precedes(d.key, cursor)) /\ Precedes(cursor, k)
        BY <1>6, <2>5, <3>1 DEF AnswerPage, PageInv
      <3>3. d.key \in OrderKeys /\ cursor \in OrderKeys /\ k \in OrderKeys
        BY <1>1, <2>2, <2>5, <3>2
      <3> QED BY <3>2, <3>3, PrecedesOrders
    <2>6. ASSUME NEW d \in delivered', NEW e \in delivered', d.page < e.page
          PROVE  Precedes(d.key, e.key)
      <3>1. CASE d \in new
        <4>1. d.page = pages + 1 /\ (e.page <= pages \/ e.page = pages + 1)
          BY <2>1, <2>3, <3>1 DEF PageInv
        <4>2. e.page \in Nat
          BY <1>1, <2>1, <2>3
        <4> QED BY <1>1, <2>6, <4>1, <4>2
      <3>2. CASE d \in delivered /\ e \in delivered
        BY <2>6, <3>2 DEF PageInv, PagesAreOrdered
      <3>3. CASE d \in delivered /\ e \in new
        BY <2>3, <2>5, <3>3
      <3> QED BY <2>1, <3>1, <3>2, <3>3
    <2>7. ASSUME answer.hasMore
          PROVE  /\ cursor' = LastKey(answer.keys) /\ LastKey(answer.keys) \in answer.keys
                 /\ \A l \in answer.keys : l = LastKey(answer.keys) \/ Precedes(l, LastKey(answer.keys))
      BY <1>6, <2>7, LastKeyIsLast DEF AnswerPage, NextCursor, TypeInv
    <2>8. ASSUME phase' \in {"asking", "answering"}
          PROVE  cursor' \in Keys /\ \A d \in delivered' : d.key = cursor' \/ Precedes(d.key, cursor')
      <3>1. answer.hasMore
        BY <1>6, <2>8 DEF AnswerPage
      <3> QED BY <2>1, <2>2, <2>3, <2>5, <2>7, <3>1
    <2>9. phase' # "answering"
      BY <1>6 DEF AnswerPage
    <2> HIDE DEF new
    <2> QED BY <2>1, <2>4, <2>6, <2>8, <2>9 DEF PageInv, PagesAreOrdered
  <1>7. CASE UNCHANGED vars
    BY <1>2, <1>7 DEF vars, requestVars
  <1> QED BY <1>2, <1>3, <1>4, <1>5, <1>6, <1>7
          DEF Next, SourceUpdate, SourceDelete, ChangeBins, StartScan, PublishScan, RejectScan

(* Whatever is published or changed while a client pages, a row of a later *)
(* page sorts strictly after every row of an earlier one.                  *)
THEOREM PagesFollowTheOrder == Spec => []PagesAreOrdered
  <1>1. Init => PageInv
    BY DEF Init, PageInv, PagesAreOrdered
  <1>2. PageInv => PagesAreOrdered
    BY DEF PageInv
  <1> QED BY <1>1, <1>2, TypesInitially, TypesNext, PageNext, PTL DEF Spec

-----------------------------------------------------------------------------
(* Settled rows *)

KeyOf(s) == SortKey(query, s, live[s])

Delivered(k) == \E d \in delivered : d.key = k

(* A settled row that the filters select has been delivered, is on the     *)
(* page being answered, or lies beyond; and it never has another key.      *)
SettledInv ==
  /\ phase = "asking" /\ pages = 0 => settled = {}
  /\ \A s \in settled : InScope(query, live[s], tracked)
  /\ \A s \in settled, d \in delivered : d.key.source = s => d.key = KeyOf(s)
  /\ phase = "answering" => \A s \in settled, k \in answer.keys : k.source = s => k = KeyOf(s)
  /\ \A s \in settled : Selected(query, live[s]) =>
       /\ phase = "asking" => Delivered(KeyOf(s)) \/ Precedes(cursor, KeyOf(s))
       /\ phase = "answering" =>
            \/ Delivered(KeyOf(s))
            \/ KeyOf(s) \in answer.keys
            \/ answer.hasMore /\ \A k \in answer.keys : Precedes(k, KeyOf(s))
       /\ phase = "done" => Delivered(KeyOf(s))

LEMMA ObserveSettled ==
  ASSUME SettledInv, NEW cover, Observe(live', tracked', cover), UNCHANGED requestVars
  PROVE  SettledInv'
  <1>1. ASSUME NEW s \in settled' PROVE s \in settled /\ InScope(query', live'[s], tracked') /\ live'[s] = live[s]
    BY DEF Observe, requestVars
  <1>2. \A s \in settled' : KeyOf(s)' = KeyOf(s)
    BY <1>1 DEF KeyOf, requestVars
  <1>3. \A k : Delivered(k)' <=> Delivered(k)
    BY DEF Delivered, requestVars
  <1>4. \A s \in settled' : Selected(query', live'[s]) <=> Selected(query, live[s])
    BY <1>1 DEF requestVars
  <1>5. /\ phase' = phase /\ pages' = pages /\ answer' = answer /\ cursor' = cursor
        /\ delivered' = delivered
    BY DEF requestVars
  <1>6. settled' \subseteq settled
    BY <1>1
  <1>7. phase' = "asking" /\ pages' = 0 => settled' = {}
    BY <1>5, <1>6 DEF SettledInv
  <1>8. \A s \in settled', d \in delivered' : d.key.source = s => d.key = KeyOf(s)'
    BY <1>2, <1>5, <1>6 DEF SettledInv
  <1>9. phase' = "answering" => \A s \in settled', k \in answer'.keys : k.source = s => k = KeyOf(s)'
    BY <1>2, <1>5, <1>6 DEF SettledInv
  <1>10. ASSUME NEW s \in settled', Selected(query', live'[s])
         PROVE  /\ phase' = "asking" => Delivered(KeyOf(s))' \/ Precedes(cursor', KeyOf(s)')
                /\ phase' = "answering" =>
                     \/ Delivered(KeyOf(s))'
                     \/ KeyOf(s)' \in answer'.keys
                     \/ answer'.hasMore /\ \A k \in answer'.keys : Precedes(k, KeyOf(s)')
                /\ phase' = "done" => Delivered(KeyOf(s))'
    <2>1. s \in settled /\ Selected(query, live[s]) /\ KeyOf(s)' = KeyOf(s)
      BY <1>2, <1>4, <1>6, <1>10
    <2>2. Delivered(KeyOf(s))' <=> Delivered(KeyOf(s))
      BY <1>5, <2>1 DEF Delivered
    <2> QED BY <1>5, <2>1, <2>2 DEF SettledInv
  <1> QED BY <1>1, <1>7, <1>8, <1>9, <1>10 DEF SettledInv

LEMMA ReadSettled ==
  ASSUME TypeInv, PageInv, SettledInv, ReadPage PROVE SettledInv'
  <1> USE ViolationBoundsAssumption
  <1>1. /\ phase' = "answering" /\ UNCHANGED <<query, cursor, delivered, pages, live, tracked>>
        /\ answer'.keys = PageKeys(query, cursor, live, tracked)
        /\ answer'.hasMore = HasMore(query, cursor, live, tracked)
    BY DEF ReadPage, Answer, storeVars, propertyVars
  <1>2. /\ live \in [Sources -> Rows] /\ query.limit \in Nat \ {0} /\ settled \subseteq Sources
        /\ pages \in Nat
    <2>1. live \in [Sources -> Rows] /\ settled \subseteq Sources /\ pages \in Nat
      BY DEF TypeInv, TypeOK
    <2>2. query.limit \in Nat \ {0}
      BY QueriesAssumption DEF TypeInv, TypeOK, Queries
    <2> QED BY <2>1, <2>2
  <1>3. \A s \in settled' : s \in Sources /\ InScope(query, live[s], tracked)
    BY <1>2 DEF ReadPage, SettledInv
  <1>4. \A s : KeyOf(s)' = KeyOf(s)
    BY <1>1 DEF KeyOf
  <1>5. ASSUME NEW k \in answer'.keys
        PROVE  k = KeyOf(k.source)
    <2>1. PICK s \in Sources : k = SortKey(query, s, live[s])
      BY <1>1, PageIsPart DEF MatchingKeys, Matching
    <2>2. k.source = s
      BY <1>2, <2>1, SortKeyType
    <2> QED BY <2>1, <2>2 DEF KeyOf
  <1>6. ASSUME NEW s \in settled', NEW d \in delivered, d.key.source = s
        PROVE  d.key = KeyOf(s)
    <2>1. pages # 0
      BY <1>6 DEF PageInv
    <2>2. s \in settled
      BY <1>6, <2>1 DEF ReadPage
    <2> QED BY <1>6, <2>2 DEF SettledInv
  <1>7. ASSUME NEW s \in settled', Selected(query, live[s]), ~Delivered(KeyOf(s))
        PROVE  KeyOf(s) \in MatchingKeys(query, cursor, live, tracked)
    <2>1. cursor # NoCursor => AfterCursor(cursor, KeyOf(s))
      <3>1. CASE pages = 0
        BY <3>1 DEF PageInv
      <3>2. CASE pages # 0
        <4>1. s \in settled
          BY <1>7, <3>2 DEF ReadPage
        <4>2. Precedes(cursor, KeyOf(s))
          BY <1>7, <4>1 DEF SettledInv, ReadPage
        <4>3. cursor \in OrderKeys
          BY <1>2, <3>2, KeysAreOrderKeys DEF PageInv, ReadPage
        <4>4. KeyOf(s) \in OrderKeys
          BY <1>2, <1>3, SortKeyType, KeysAreOrderKeys DEF KeyOf
        <4> QED BY <4>2, <4>3, <4>4, CursorMatchesOrder
      <3> QED BY <3>1, <3>2
    <2>2. s \in Matching(query, cursor, live, tracked)
      BY <1>3, <1>7, <2>1 DEF Matching, KeyOf
    <2> QED BY <2>2 DEF MatchingKeys, KeyOf
  <1>8. ASSUME NEW s \in settled', Selected(query, live[s]), ~Delivered(KeyOf(s)),
               KeyOf(s) \notin answer'.keys
        PROVE  answer'.hasMore /\ \A k \in answer'.keys : Precedes(k, KeyOf(s))
    BY <1>1, <1>2, <1>7, <1>8, PageSplit
  <1>9. \A k : Delivered(k)' <=> Delivered(k)
    BY <1>1 DEF Delivered
  <1>10. ASSUME NEW s \in settled', Selected(query', live'[s])
         PROVE  \/ Delivered(KeyOf(s))'
                \/ KeyOf(s)' \in answer'.keys
                \/ answer'.hasMore /\ \A k \in answer'.keys : Precedes(k, KeyOf(s)')
    <2>1. Delivered(KeyOf(s))' <=> Delivered(KeyOf(s))
      BY <1>1, <1>4 DEF Delivered
    <2> QED BY <1>1, <1>4, <1>8, <1>10, <2>1
  <1>11. \A s \in settled', d \in delivered' : d.key.source = s => d.key = KeyOf(s)'
    BY <1>1, <1>4, <1>6
  <1>12. \A s \in settled', k \in answer'.keys : k.source = s => k = KeyOf(s)'
    BY <1>4, <1>5
  <1>13. \A s \in settled' : InScope(query', live'[s], tracked')
    BY <1>1, <1>3
  <1> QED BY <1>1, <1>10, <1>11, <1>12, <1>13 DEF SettledInv

LEMMA AnswerSettled ==
  ASSUME TypeInv, PageInv, SettledInv, AnswerPage PROVE SettledInv'
  <1> DEFINE new == {[key |-> k, page |-> pages + 1] : k \in answer.keys}
  <1>1. /\ phase = "answering" /\ UNCHANGED <<query, live, tracked, settled>>
        /\ delivered' = delivered \cup new
        /\ phase' = IF answer.hasMore THEN "asking" ELSE "done"
        /\ pages' = pages + 1
    BY DEF AnswerPage, storeVars, propertyVars, ghostVars
  <1>2. pages' # 0
    BY <1>1, ViolationBoundsAssumption DEF TypeInv, TypeOK
  <1>3. \A s : KeyOf(s)' = KeyOf(s)
    BY <1>1 DEF KeyOf
  <1>4. \A s \in settled', d \in delivered' : d.key.source = s => d.key = KeyOf(s)'
    BY <1>1, <1>3 DEF SettledInv
  <1>5. \A k : Delivered(k) \/ k \in answer.keys => \E d \in delivered' : d.key = k
    <2> SUFFICES ASSUME NEW k, Delivered(k) \/ k \in answer.keys PROVE \E d \in delivered' : d.key = k
      OBVIOUS
    <2>1. CASE Delivered(k)
      BY <1>1, <2>1 DEF Delivered
    <2>2. CASE k \in answer.keys
      <3>1. [key |-> k, page |-> pages + 1] \in delivered'
        BY <1>1, <2>2
      <3> QED BY <3>1
    <2> QED BY <2>1, <2>2
  <1>6. ASSUME NEW s \in settled', Selected(query', live'[s])
        PROVE  /\ phase' = "asking" => Delivered(KeyOf(s))' \/ Precedes(cursor', KeyOf(s)')
               /\ phase' = "done" => Delivered(KeyOf(s))'
    <2>1. \/ Delivered(KeyOf(s)) \/ KeyOf(s) \in answer.keys
          \/ answer.hasMore /\ \A k \in answer.keys : Precedes(k, KeyOf(s))
      BY <1>1, <1>6 DEF SettledInv
    <2>2. CASE Delivered(KeyOf(s)) \/ KeyOf(s) \in answer.keys
      BY <1>3, <1>5, <2>2 DEF Delivered
    <2>3. CASE answer.hasMore /\ \A k \in answer.keys : Precedes(k, KeyOf(s))
      <3>1. cursor' = LastKey(answer.keys) /\ LastKey(answer.keys) \in answer.keys
        BY <1>1, <2>3, LastKeyIsLast DEF AnswerPage, NextCursor, TypeInv
      <3> QED BY <1>1, <1>3, <2>3, <3>1
    <2> QED BY <2>1, <2>2, <2>3
  <1>7. \A s \in settled' : InScope(query', live'[s], tracked')
    BY <1>1 DEF SettledInv
  <1>8. phase' \in {"asking", "done"}
    BY <1>1
  <1> QED BY <1>2, <1>4, <1>6, <1>7, <1>8 DEF SettledInv

LEMMA SettledNext ==
  ASSUME TypeInv, PageInv, SettledInv, [Next]_vars PROVE SettledInv'
  <1>1. ASSUME NEW p \in Properties, NEW bins \in SUBSET Bins, ChangeBins(p, bins)
        PROVE  SettledInv'
    <2>1. Observe(live', tracked', coverage')
      BY <1>1 DEF ChangeBins
    <2> QED BY <1>1, <2>1, ObserveSettled DEF ChangeBins
  <1>2. ASSUME PublishScan
        PROVE  SettledInv'
    <2>1. Observe(live', tracked', coverage')
      BY <1>2 DEF PublishScan, propertyVars
    <2> QED BY <1>2, <2>1, ObserveSettled DEF PublishScan
  <1>3. ASSUME RejectScan
        PROVE  SettledInv'
    <2>1. Observe(live', tracked', coverage')
      BY <1>3 DEF RejectScan, propertyVars
    <2> QED BY <1>3, <2>1, ObserveSettled DEF RejectScan
  <1>4. ASSUME NEW q, OpenListing(q)
        PROVE  SettledInv'
    BY <1>4 DEF OpenListing, SettledInv
  <1>5. ASSUME RefuseCursor
        PROVE  SettledInv'
    <2>1. \A s : KeyOf(s)' = KeyOf(s)
      BY <1>5 DEF RefuseCursor, storeVars, KeyOf
    <2> QED BY <1>5, <2>1 DEF RefuseCursor, SettledInv, storeVars, propertyVars, ghostVars
  <1>6. ASSUME UNCHANGED <<live, tracked, settled>>, UNCHANGED requestVars
        PROVE  SettledInv'
    BY <1>6 DEF SettledInv, requestVars, KeyOf, Delivered
  <1>7. CASE UNCHANGED vars
    BY <1>6, <1>7 DEF vars, requestVars
  <1>8. ASSUME ReadPage
        PROVE  SettledInv'
    BY <1>8, ReadSettled
  <1>9. ASSUME AnswerPage
        PROVE  SettledInv'
    BY <1>9, AnswerSettled
  <1>10. ASSUME NEW s \in Sources, SourceDelete(s) \/ \E content \in Contents : SourceUpdate(s, content)
         PROVE  SettledInv'
    BY <1>6, <1>10 DEF SourceUpdate, SourceDelete, propertyVars, storeVars, ghostVars
  <1>11. ASSUME StartScan
         PROVE  SettledInv'
    BY <1>6, <1>11 DEF StartScan, propertyVars, ghostVars
  <1> QED BY <1>1, <1>2, <1>3, <1>4, <1>5, <1>7, <1>8, <1>9, <1>10, <1>11 DEF Next

(* A listing read to its end has delivered exactly once each row that was  *)
(* in scope, selected and unchanged throughout, for any number of rows and *)
(* any page size, whatever else was published meanwhile.                   *)
THEOREM ListingsAreComplete == Spec => []SettledRowsOnce
  <1>1. Init => PageInv /\ SettledInv
    BY DEF Init, PageInv, PagesAreOrdered, SettledInv
  <1>2. TypeInv /\ PageInv /\ SettledInv => SettledRowsOnce
    <2> SUFFICES ASSUME TypeInv, PageInv, SettledInv, phase = "done",
                        NEW s \in settled, Selected(query, live[s])
                 PROVE  \E d \in delivered : \A e \in delivered : (e.key.source = s) <=> (e = d)
      BY DEF SettledRowsOnce
    <2>1. PICK d \in delivered : d.key = KeyOf(s)
      BY DEF SettledInv, Delivered
    <2>2. /\ delivered \subseteq [key : Keys, page : Nat] /\ live \in [Sources -> Rows] /\ s \in Sources
      BY DEF TypeInv, TypeOK
    <2>3. d.key.source = s
      BY <2>1, <2>2, SortKeyType DEF KeyOf
    <2>4. ASSUME NEW e \in delivered, e.key.source = s
          PROVE  e = d
      <3>1. e.key = d.key
        BY <2>1, <2>4 DEF SettledInv
      <3>2. ~Precedes(d.key, d.key)
        BY <2>2, KeysAreOrderKeys, PrecedesOrders
      <3>3. ~(d.page < e.page) /\ ~(e.page < d.page)
        BY <3>1, <3>2 DEF PageInv, PagesAreOrdered
      <3>4. d.page \in Nat /\ e.page \in Nat
        BY <2>2
      <3>5. d.page = e.page
        BY <3>3, <3>4
      <3> QED BY <2>2, <3>1, <3>5
    <2> QED BY <2>3, <2>4
  <1> QED BY <1>1, <1>2, TypesInitially, TypesNext, PageNext, SettledNext, PTL DEF Spec

-----------------------------------------------------------------------------
(* The feed of updates *)

(* A listed row whose BIN has been tracked all along: no run misses it. *)
Watched(row) == row.listed /\ row.content.bin \in watched

(* The last accepted run saw the source at c: nothing stored is newer, and *)
(* what the source has not changed since then is stored as it is.          *)
PublishedAt(c) ==
  /\ c <= clock /\ high <= c
  /\ watched \subseteq AllBins(tracked)
  /\ \A s \in Sources :
       /\ live[s].updated <= c
       /\ live[s].updated <= source[s].updated /\ source[s].updated <= clock
       /\ Watched(source[s]) /\ source[s].updated <= c => live[s] = source[s]

(* The run in progress saw the source at d. *)
ScannedAt(c, d) ==
  /\ c <= d /\ d <= clock
  /\ \A e \in scan.staged :
       /\ e.row.updated <= d
       /\ live[e.source].updated <= e.row.updated /\ e.row.updated <= source[e.source].updated
       /\ Watched(e.row) /\ e.row.updated <= c => live[e.source] = e.row
  /\ \A e, f \in scan.staged : e.source = f.source => e = f
  /\ \A s \in Sources :
       Watched(source[s]) /\ source[s].updated <= d => [source |-> s, row |-> source[s]] \in scan.staged

Store(c, d) == PublishedAt(c) /\ (scan.open => ScannedAt(c, d))

(* What the client holds is stored or older, and current below the newest  *)
(* update of its last complete listing.                                    *)
HeldInv ==
  \A s \in Sources :
    /\ held[s] <= live[s].updated
    /\ Watched(live[s]) /\ live[s].updated <= high => held[s] = live[s].updated

(* The page being answered has the version of each of its rows. *)
VersionInv ==
  phase = "answering" =>
    /\ \A v \in answer.versions :
         /\ v.updated <= live[v.source].updated
         /\ v.source \in settled => v.updated = live[v.source].updated
    /\ \A k \in answer.keys : \E v \in answer.versions : v.source = k.source

Listing == phase \in {"asking", "answering"}

(* Once the first page of a feed is read, all it may deliver is at most m, *)
(* and what it may miss is newer.                                          *)
MarkInv(m) ==
  Following /\ (phase = "answering" \/ (phase = "asking" /\ pages > 0)) =>
    /\ high <= m /\ \A s \in Sources : held[s] <= m
    /\ pages > 0 => cursor.at <= m
    /\ phase = "answering" => /\ \A v \in answer.versions : v.updated <= m
                              /\ \A k \in answer.keys : k.at <= m
    /\ \A s \in Sources \ settled : Watched(live[s]) => m < live[s].updated

DeliveredInv ==
  /\ Following /\ Listing => query.since = high
  /\ Following => \A s \in settled, d \in delivered : d.key.source = s => held[s] = live[s].updated

Client(m) ==
  HeldInv /\ VersionInv /\ MarkInv(m) /\ DeliveredInv /\ FeedMissesNoUpdate

FeedInv == \E c, d, m \in Nat : m <= c /\ Store(c, d) /\ Client(m)

LEMMA FeedNumbers ==
  ASSUME TypeInv
  PROVE  /\ clock \in Nat /\ high \in Nat /\ pages \in Nat /\ cursor.at \in Nat /\ query.since \in Nat
         /\ \A s \in Sources : /\ live[s] \in Rows /\ live[s].updated \in Nat
                               /\ source[s] \in Rows /\ source[s].updated \in Nat /\ held[s] \in Nat
         /\ \A e \in scan.staged : e.source \in Sources /\ e.row \in Rows /\ e.row.updated \in Nat
         /\ \A v \in answer.versions : v.source \in Sources /\ v.updated \in Nat
         /\ \A k \in answer.keys : k.at \in Nat /\ k.source \in Sources
         /\ settled \subseteq Sources
         /\ \A d \in delivered : d.key \in Keys /\ d.page \in Nat
  <1> USE ViolationBoundsAssumption DEF TypeInv, TypeOK
  <1>1. clock \in Nat /\ high \in Nat /\ pages \in Nat
    OBVIOUS
  <1>2. cursor.at \in Nat /\ query.since \in Nat
    BY DEF Keys, NoCursor, Queries
  <1>3. \A s \in Sources : /\ live[s] \in Rows /\ live[s].updated \in Nat
                           /\ source[s] \in Rows /\ source[s].updated \in Nat /\ held[s] \in Nat
    BY RowTypes
  <1>4. \A e \in scan.staged : e.source \in Sources /\ e.row \in Rows /\ e.row.updated \in Nat
    BY RowTypes
  <1>5. /\ \A v \in answer.versions : v.source \in Sources /\ v.updated \in Nat
        /\ \A k \in answer.keys : k.at \in Nat /\ k.source \in Sources
    BY DEF Answers, Versions, Keys
  <1> QED BY <1>1, <1>2, <1>3, <1>4, <1>5

(* A commit that replaces only what is older than c. *)
LEMMA CommitFeed ==
  ASSUME TypeInv, TypeInv', NEW c \in Nat, NEW m \in Nat, m <= c, high <= c, Client(m), NEW cover,
         Observe(live', tracked', cover), UNCHANGED requestVars, UNCHANGED clientVars,
         watched \subseteq AllBins(tracked),
         \A s \in Sources : /\ live[s].updated <= live'[s].updated
                            /\ Watched(live[s])' => live'[s] = live[s] \/ c < live'[s].updated
  PROVE  Client(m)'
  <1>1. /\ settled' \subseteq settled /\ watched' \subseteq watched
        /\ \A s \in settled' : live'[s] = live[s]
        /\ watched' \subseteq AllBins(tracked')
        /\ \A s \in settled : s \in settled' \/ ~InScope(query, live'[s], tracked') \/ live'[s] # live[s]
    BY DEF Observe
  <1>2. /\ phase' = phase /\ query' = query /\ cursor' = cursor /\ answer' = answer
        /\ delivered' = delivered /\ pages' = pages /\ held' = held /\ high' = high
    BY DEF requestVars, clientVars
  <1>3. (Following' <=> Following) /\ (Listing' <=> Listing)
    BY <1>2 DEF Following, Listing
  <1>4. \A s \in Sources : Watched(live[s])' /\ live'[s] = live[s] => Watched(live[s])
    BY <1>1 DEF Watched
  <1>5. \A s \in Sources : live'[s] \in Rows /\ live'[s].updated \in Nat
    <2>1. live' \in [Sources -> Rows]
      BY DEF TypeInv, TypeOK
    <2> QED BY <2>1, RowTypes
  <1>6. HeldInv'
    <2> SUFFICES ASSUME NEW s \in Sources
                 PROVE  /\ held'[s] <= live'[s].updated
                        /\ Watched(live[s])' /\ live'[s].updated <= high' => held'[s] = live'[s].updated
      BY DEF HeldInv
    <2>1. held[s] \in Nat /\ live[s].updated \in Nat /\ live'[s].updated \in Nat /\ high \in Nat
      BY <1>5, FeedNumbers
    <2>2. held[s] <= live[s].updated /\ (Watched(live[s]) /\ live[s].updated <= high => held[s] = live[s].updated)
      BY DEF Client, HeldInv
    <2>3. live[s].updated <= live'[s].updated /\ held'[s] <= live'[s].updated
      BY <1>2, <2>1, <2>2
    <2>4. ASSUME Watched(live[s])', live'[s].updated <= high' PROVE held'[s] = live'[s].updated
      <3>1. ~(c < live'[s].updated)
        BY <1>2, <2>1, <2>4
      <3>2. live'[s] = live[s] /\ Watched(live[s])
        BY <1>4, <2>4, <3>1
      <3> QED BY <1>2, <2>2, <2>4, <3>2
    <2> QED BY <2>3, <2>4
  <1>7. VersionInv'
    <2>1. ASSUME NEW v \in answer.versions, v.updated <= live[v.source].updated
          PROVE  v.updated <= live'[v.source].updated
      <3>1. /\ v.source \in Sources /\ v.updated \in Nat
            /\ live[v.source].updated \in Nat /\ live'[v.source].updated \in Nat
        BY <1>5, FeedNumbers
      <3>2. live[v.source].updated <= live'[v.source].updated
        BY <3>1
      <3> QED BY <2>1, <3>1, <3>2
    <2>2. ASSUME phase = "answering"
          PROVE  /\ \A v \in answer.versions : v.updated <= live[v.source].updated
                 /\ \A v \in answer.versions : v.source \in settled => v.updated = live[v.source].updated
                 /\ \A k \in answer.keys : \E v \in answer.versions : v.source = k.source
      BY <2>2 DEF Client, VersionInv
    <2> QED BY <1>1, <1>2, <2>1, <2>2 DEF VersionInv
  <1>8. MarkInv(m)'
    <2>1. ASSUME Following, phase = "answering" \/ (phase = "asking" /\ pages > 0),
                 NEW s \in Sources \ settled', Watched(live[s])'
          PROVE  m < live'[s].updated
      <3>1. CASE live'[s] = live[s]
        <4>1. InScope(query, live'[s], tracked')
          BY <1>1, <2>1 DEF InScope, Following, Watched
        <4>2. s \notin settled
          BY <1>1, <2>1, <3>1, <4>1
        <4>3. Watched(live[s])
          BY <1>4, <2>1, <3>1
        <4> QED BY <2>1, <3>1, <4>2, <4>3 DEF Client, MarkInv
      <3>2. CASE live'[s] # live[s]
        <4>1. c < live'[s].updated /\ live'[s].updated \in Nat
          BY <1>5, <2>1, <3>2
        <4> QED BY <4>1
      <3> QED BY <3>1, <3>2
    <2>2. ASSUME Following, phase = "answering" \/ (phase = "asking" /\ pages > 0)
          PROVE  /\ high <= m /\ \A s \in Sources : held[s] <= m
                 /\ pages > 0 => cursor.at <= m
                 /\ phase = "answering" => /\ \A v \in answer.versions : v.updated <= m
                                           /\ \A k \in answer.keys : k.at <= m
      BY <2>2 DEF Client, MarkInv
    <2> QED BY <1>2, <1>3, <2>1, <2>2 DEF MarkInv
  <1>9. DeliveredInv'
    <2>1. settled' \subseteq Sources /\ settled \subseteq Sources
      BY DEF TypeInv, TypeOK
    <2>2. \A s \in settled, d \in delivered : Following /\ d.key.source = s => held[s] = live[s].updated
      BY DEF Client, DeliveredInv
    <2>3. Following /\ Listing => query.since = high
      BY DEF Client, DeliveredInv
    <2> QED BY <1>1, <1>2, <1>3, <2>2, <2>3 DEF DeliveredInv
  <1>10. FeedMissesNoUpdate'
    BY <1>1, <1>2, <1>3 DEF Client, FeedMissesNoUpdate
  <1> QED BY <1>6, <1>7, <1>8, <1>9, <1>10 DEF Client

(* The store alone: the source moves on, runs start and publish. *)
LEMMA SourceStore ==
  ASSUME TypeInv, TypeInv', NEW c \in Nat, NEW d \in Nat, Store(c, d),
         NEW s \in Sources, SourceDelete(s) \/ \E content \in Contents : SourceUpdate(s, content)
  PROVE  Store(c, d)'
  <1>1. UNCHANGED <<live, tracked, scan, high, watched>>
    BY DEF SourceUpdate, SourceDelete, storeVars, propertyVars, clientVars, ghostVars
  <1>2. clock' = clock + 1 /\ clock \in Nat
    BY FeedNumbers DEF SourceUpdate, SourceDelete
  <1>3. \A r \in Sources : r # s => source'[r] = source[r]
    BY DEF SourceUpdate, SourceDelete, TypeInv, TypeOK
  <1>4. \/ source'[s].updated = source[s].updated /\ ~source'[s].listed
        \/ source'[s].updated = clock + 1
    BY DEF SourceUpdate, SourceDelete, ListedRow, TypeInv, TypeOK, Rows
  <1>5. \A r \in Sources : source[r].updated \in Nat /\ live[r].updated \in Nat /\ source[r].updated <= clock
                            /\ live[r].updated <= source[r].updated
    BY FeedNumbers DEF Store, PublishedAt
  <1>6. c <= clock
    BY DEF Store, PublishedAt
  <1>7. \A r \in Sources : source[r].updated <= source'[r].updated /\ source'[r].updated <= clock'
    <2> TAKE r \in Sources
    <2>1. CASE r # s
      BY <1>2, <1>3, <1>5, <2>1
    <2>2. CASE r = s
      BY <1>2, <1>4, <1>5, <2>2
    <2> QED BY <2>1, <2>2
  <1>8. \A r \in Sources, n \in Nat : n <= clock /\ Watched(source[r])' /\ source'[r].updated <= n => source'[r] = source[r]
    <2> SUFFICES ASSUME NEW r \in Sources, NEW n \in Nat, n <= clock, Watched(source[r])', source'[r].updated <= n
                 PROVE  source'[r] = source[r]
      OBVIOUS
    <2>1. source'[r].listed /\ source'[r].updated # clock + 1
      BY <1>2 DEF Watched
    <2> QED BY <1>3, <1>4, <2>1
  <1>10. PublishedAt(c)'
    <2>1. c <= clock'
      BY <1>2, <1>6
    <2>2. ASSUME NEW r \in Sources
          PROVE  /\ live'[r].updated <= c
                 /\ live'[r].updated <= source'[r].updated /\ source'[r].updated <= clock'
      <3>1. live[r].updated <= c
        BY DEF Store, PublishedAt
      <3>2. source'[r].updated \in Nat
        BY <1>2, <1>4, <1>3, <1>5
      <3> QED BY <1>1, <1>5, <1>7, <3>1, <3>2
    <2>3. ASSUME NEW r \in Sources, Watched(source[r])', source'[r].updated <= c
          PROVE  live'[r] = source'[r]
      <3>1. source'[r] = source[r]
        BY <1>6, <1>8, <2>3
      <3>2. Watched(source[r])
        BY <1>1, <2>3, <3>1 DEF Watched
      <3> QED BY <1>1, <2>3, <3>1, <3>2 DEF Store, PublishedAt
    <2> QED BY <1>1, <2>1, <2>2, <2>3 DEF Store, PublishedAt
  <1>11. ASSUME scan.open
         PROVE  ScannedAt(c, d)'
    <2>1. ScannedAt(c, d)
      BY <1>11 DEF Store
    <2>2. c <= d /\ d <= clock' /\ d <= clock
      BY <1>2, <2>1 DEF ScannedAt
    <2>3. ASSUME NEW e \in scan.staged
          PROVE  /\ e.row.updated <= source'[e.source].updated
                 /\ Watched(e.row)' => Watched(e.row)
      <3>1. e.source \in Sources /\ e.row.updated \in Nat /\ e.row.updated <= source[e.source].updated
        BY <2>1, FeedNumbers DEF ScannedAt
      <3>2. source[e.source].updated <= source'[e.source].updated
        BY <1>7, <3>1
      <3>3. source'[e.source].updated \in Nat /\ source[e.source].updated \in Nat
        BY <1>2, <1>3, <1>4, <1>5, <3>1
      <3>4. Watched(e.row)' => Watched(e.row)
        BY <1>1 DEF Watched
      <3> QED BY <3>1, <3>2, <3>3, <3>4
    <2>4. ASSUME NEW r \in Sources, Watched(source[r])', source'[r].updated <= d
          PROVE  [source |-> r, row |-> source'[r]] \in scan.staged
      <3>1. source'[r] = source[r]
        BY <1>8, <2>2, <2>4
      <3>2. Watched(source[r])
        BY <1>1, <2>4, <3>1 DEF Watched
      <3> QED BY <2>1, <2>4, <3>1, <3>2 DEF ScannedAt
    <2> QED BY <1>1, <2>1, <2>2, <2>3, <2>4 DEF ScannedAt
  <1> QED BY <1>1, <1>10, <1>11 DEF Store

(* A run takes the source as it stands. *)
LEMMA ScanStore ==
  ASSUME TypeInv, NEW c \in Nat, NEW d \in Nat, Store(c, d), StartScan,
         NEW b \in Nat, b = clock
  PROVE  Store(c, b)'
  <1>1. UNCHANGED <<source, clock, live, tracked, high, watched>>
    BY DEF StartScan, sourceVars, storeVars, propertyVars, clientVars, ghostVars
  <1>2. scan'.staged = {[source |-> s, row |-> source[s]] : s \in {t \in Sources : Scanned(source[t], tracked)}}
    BY DEF StartScan
  <1>3. PublishedAt(c)
    BY DEF Store
  <1>4. PublishedAt(c)'
    BY <1>1, <1>3 DEF PublishedAt, Watched
  <1>5. \A e \in scan'.staged : \E s \in Sources : e = [source |-> s, row |-> source[s]]
    BY <1>2
  <1>6. \A s \in Sources : Watched(source[s]) => [source |-> s, row |-> source[s]] \in scan'.staged
    BY <1>2, <1>3 DEF Watched, Scanned, PublishedAt
  <1>7. c <= b /\ b <= clock
    BY <1>3, FeedNumbers DEF PublishedAt
  <1>8. ASSUME NEW e \in scan'.staged
        PROVE  /\ e.row.updated <= b
               /\ live[e.source].updated <= e.row.updated /\ e.row.updated <= source[e.source].updated
               /\ Watched(e.row) /\ e.row.updated <= c => live[e.source] = e.row
    <2>1. PICK s \in Sources : e = [source |-> s, row |-> source[s]]
      BY <1>5
    <2>2. source[s].updated \in Nat
      BY FeedNumbers
    <2>3. e.source = s /\ e.row = source[s]
      BY <2>1
    <2> QED BY <1>3, <2>2, <2>3 DEF PublishedAt
  <1>9. ScannedAt(c, b)'
    BY <1>1, <1>5, <1>6, <1>7, <1>8 DEF ScannedAt, Watched
  <1> QED BY <1>4, <1>9 DEF Store

(* A publication brings the store to what the run saw. *)
LEMMA PublishStore ==
  ASSUME TypeInv, TypeInv', NEW c \in Nat, NEW d \in Nat, Store(c, d), PublishScan
  PROVE  /\ c <= d /\ Store(d, d)'
         /\ \A s \in Sources : /\ live[s].updated <= live'[s].updated
                               /\ Watched(live[s])' => live'[s] = live[s] \/ c < live'[s].updated
  <1>1. /\ UNCHANGED <<source, clock, tracked, high>>
        /\ scan.open /\ ~scan'.open
        /\ live' = [s \in Sources |->
             IF \E e \in scan.staged : e.source = s
             THEN (CHOOSE e \in scan.staged : e.source = s).row
             ELSE [live[s] EXCEPT !.listed = @ /\ live[s].content.bin \notin AllBins(scan.bins)]]
        /\ Observe(live', tracked, coverage')
    BY DEF PublishScan, sourceVars, propertyVars, clientVars, NoScan
  <1>2. PublishedAt(c) /\ ScannedAt(c, d)
    BY <1>1 DEF Store
  <1>3. watched' \subseteq watched /\ watched' \subseteq AllBins(tracked)
    BY <1>1 DEF Observe
  <1>4. c <= d /\ d <= clock
    BY <1>2 DEF ScannedAt
  <1>5. ASSUME NEW s \in Sources, NEW e \in scan.staged, e.source = s
        PROVE  live'[s] = e.row
    <2>1. \A f \in scan.staged : f.source = s => f = e
      BY <1>2, <1>5 DEF ScannedAt
    <2>2. (CHOOSE f \in scan.staged : f.source = s) = e
      BY <1>5, <2>1
    <2> QED BY <1>1, <1>5, <2>2
  <1>6. ASSUME NEW s \in Sources, ~\E e \in scan.staged : e.source = s
        PROVE  live'[s].updated = live[s].updated /\ (live'[s].listed => live'[s] = live[s])
    <2>1. live'[s] = [live[s] EXCEPT !.listed = @ /\ live[s].content.bin \notin AllBins(scan.bins)]
      BY <1>1, <1>6
    <2>2. live[s] \in Rows
      BY FeedNumbers
    <2> QED BY <2>1, <2>2 DEF Rows
  <1>7. ASSUME NEW s \in Sources
        PROVE  /\ live[s].updated <= live'[s].updated /\ live'[s].updated <= d
               /\ live'[s].updated <= source[s].updated
               /\ Watched(live[s])' => live'[s] = live[s] \/ c < live'[s].updated
               /\ Watched(source[s])' /\ source[s].updated <= d => live'[s] = source[s]
    <2>1. live[s].updated \in Nat /\ source[s].updated \in Nat /\ live[s].updated <= c
      BY <1>2, FeedNumbers DEF PublishedAt
    <2>2. CASE \E e \in scan.staged : e.source = s
      <3>1. PICK e \in scan.staged : e.source = s
        BY <2>2
      <3>2. live'[s] = e.row
        BY <1>5, <3>1
      <3>3. /\ e.row.updated <= d
            /\ live[s].updated <= e.row.updated /\ e.row.updated <= source[s].updated
            /\ Watched(e.row) /\ e.row.updated <= c => live[s] = e.row
        BY <1>2, <3>1 DEF ScannedAt
      <3>4. e.row.updated \in Nat
        BY FeedNumbers
      <3>5. Watched(live[s])' => Watched(e.row)
        BY <1>3, <3>2 DEF Watched
      <3>6. Watched(source[s])' /\ source[s].updated <= d => live'[s] = source[s]
        <4> SUFFICES ASSUME Watched(source[s])', source[s].updated <= d PROVE live'[s] = source[s]
          OBVIOUS
        <4>1. Watched(source[s])
          BY <1>1, <1>3 DEF Watched
        <4>2. [source |-> s, row |-> source[s]] \in scan.staged
          BY <1>2, <4>1 DEF ScannedAt
        <4> QED BY <1>5, <4>2
      <3> QED BY <3>2, <3>3, <3>4, <3>5, <3>6
    <2>3. CASE ~\E e \in scan.staged : e.source = s
      <3>1. live'[s].updated = live[s].updated /\ (live'[s].listed => live'[s] = live[s])
        BY <1>6, <2>3
      <3>2. live[s].updated <= source[s].updated
        BY <1>2 DEF PublishedAt
      <3>3. ~(Watched(source[s])' /\ source[s].updated <= d)
        <4> SUFFICES ASSUME Watched(source[s])', source[s].updated <= d PROVE FALSE
          OBVIOUS
        <4>1. Watched(source[s])
          BY <1>1, <1>3 DEF Watched
        <4>2. [source |-> s, row |-> source[s]] \in scan.staged
          BY <1>2, <4>1 DEF ScannedAt
        <4> QED BY <2>3, <4>2
      <3> QED BY <1>4, <2>1, <3>1, <3>2, <3>3 DEF Watched
    <2> QED BY <2>2, <2>3
  <1>8. PublishedAt(d)'
    <2>1. high \in Nat /\ high <= c /\ clock \in Nat
      BY <1>2, FeedNumbers DEF PublishedAt
    <2>2. high' <= d
      BY <1>1, <1>4, <2>1
    <2>3. \A s \in Sources : source'[s].updated <= clock'
      BY <1>1, <1>2 DEF PublishedAt
    <2> QED BY <1>1, <1>3, <1>4, <1>7, <2>2, <2>3 DEF PublishedAt
  <1> QED BY <1>1, <1>4, <1>7, <1>8 DEF Store

(* Nothing else touches the store, but the BINs that are tracked.          *)
LEMMA OtherStore ==
  ASSUME TypeInv, NEW c \in Nat, NEW d \in Nat, Store(c, d),
         UNCHANGED <<sourceVars, live>>, high' <= c,
         watched' \subseteq watched \cap AllBins(tracked'),
         scan'.open => scan.open /\ scan'.staged = scan.staged
  PROVE  Store(c, d)'
  <1>1. source' = source /\ clock' = clock /\ live' = live
    BY DEF sourceVars
  <1>2. \A s \in Sources : Watched(source[s])' => Watched(source[s])
    BY <1>1 DEF Watched
  <1>3. PublishedAt(c)'
    BY <1>1, <1>2 DEF Store, PublishedAt
  <1>4. ASSUME scan'.open
        PROVE  ScannedAt(c, d)'
    <2>1. ScannedAt(c, d) /\ scan'.staged = scan.staged
      BY <1>4 DEF Store
    <2>2. \A e \in scan.staged : Watched(e.row)' => Watched(e.row)
      BY <2>1 DEF Watched
    <2> QED BY <1>1, <1>2, <2>1, <2>2 DEF ScannedAt
  <1> QED BY <1>3, <1>4 DEF Store

(* The first page of a feed sets the mark where the store stands; later    *)
(* pages are older.                                                        *)
LEMMA ReadFeed ==
  ASSUME TypeInv, PageInv, NEW c \in Nat, NEW m \in Nat, m <= c, PublishedAt(c), Client(m), ReadPage
  PROVE  \E n \in Nat : n <= c /\ Client(n)'
  <1>1. PICK n \in Nat : n <= c /\ (pages = 0 => n = c) /\ (pages # 0 => n = m)
    OBVIOUS
  <1>2. /\ phase = "asking" /\ phase' = "answering"
        /\ UNCHANGED <<query, cursor, delivered, pages, live, tracked, held, high, watched>>
        /\ answer'.keys = PageKeys(query, cursor, live, tracked)
        /\ answer'.versions = {[source |-> k.source, updated |-> live[k.source].updated] :
                                 k \in PageKeys(query, cursor, live, tracked)}
        /\ settled' = IF pages = 0 THEN {s \in Sources : InScope(query, live[s], tracked)} ELSE settled
    BY DEF ReadPage, Answer, storeVars, propertyVars, clientVars
  <1>3. (Following' <=> Following) /\ \A s : Watched(live[s])' <=> Watched(live[s])
    BY <1>2 DEF Following, Watched
  <1>4. \A s \in Sources : /\ live[s] \in Rows /\ live[s].updated \in Nat /\ held[s] \in Nat
                           /\ live[s].updated <= c /\ held[s] <= live[s].updated
    BY FeedNumbers DEF PublishedAt, Client, HeldInv
  <1>5. ASSUME NEW k \in answer'.keys
        PROVE  /\ k.source \in Sources /\ k.at \in Nat
               /\ \E v \in answer'.versions : v.source = k.source
               /\ Following => k.at = live[k.source].updated
               /\ pages > 0 => k.at <= cursor.at
    <2>1. PICK s \in Sources : k = SortKey(query, s, live[s]) /\ s \in Matching(query, cursor, live, tracked)
      BY <1>2, PageIsPart DEF MatchingKeys, Matching
    <2>2. k \in Keys /\ k.source = s
      BY <1>4, <2>1, SortKeyType
    <2>3. Following => k.at = live[k.source].updated
      BY <2>1, <2>2 DEF Following, SortKey
    <2>4. ASSUME pages > 0 PROVE k.at <= cursor.at
      <3>1. cursor \in Keys /\ cursor # NoCursor
        BY <1>2, <2>4, KeysAreOrderKeys DEF PageInv
      <3>2. AfterCursor(cursor, k)
        BY <2>1, <3>1 DEF Matching
      <3>3. k.at \in Nat /\ cursor.at \in Nat
        BY <2>2, <3>1 DEF Keys
      <3> QED BY <3>2, <3>3 DEF AfterCursor, NoDate
    <2>5. [source |-> k.source, updated |-> live[k.source].updated] \in answer'.versions
      BY <1>2
    <2> QED BY <2>2, <2>3, <2>4, <2>5 DEF Keys
  <1>6. ASSUME NEW v \in answer'.versions
        PROVE  v.source \in Sources /\ v.updated = live[v.source].updated /\ \E k \in answer'.keys : k.source = v.source
    <2>1. PICK k \in answer'.keys : v = [source |-> k.source, updated |-> live[k.source].updated]
      BY <1>2
    <2>2. v.source = k.source /\ v.updated = live[k.source].updated
      BY <2>1
    <2> QED BY <1>5, <2>2
  <1>7. HeldInv'
    BY <1>2, <1>3 DEF Client, HeldInv
  <1>8. VersionInv'
    BY <1>2, <1>4, <1>5, <1>6 DEF VersionInv
  <1>9. MarkInv(n)'
    <2> USE <1>1
    <2>1. high \in Nat /\ cursor.at \in Nat /\ high <= c /\ pages \in Nat
      BY FeedNumbers DEF PublishedAt
    <2>2. ASSUME Following
          PROVE  high <= n /\ \A s \in Sources : held[s] <= n
      <3>1. CASE pages = 0
        BY <1>4, <2>1, <3>1
      <3>2. CASE pages # 0
        BY <1>2, <2>1, <2>2, <3>2 DEF Client, MarkInv
      <3> QED BY <3>1, <3>2
    <2>3. ASSUME Following, pages > 0
          PROVE  cursor.at <= n
      BY <1>2, <2>1, <2>3 DEF Client, MarkInv
    <2>4. ASSUME Following, NEW k \in answer'.keys
          PROVE  k.at <= n
      <3>1. CASE pages = 0
        BY <1>4, <1>5, <2>4, <3>1
      <3>2. CASE pages # 0
        <4>1. pages > 0 /\ n = m
          BY <2>1, <3>2
        <4>2. k.at \in Nat /\ k.at <= cursor.at /\ cursor.at <= n
          BY <1>5, <2>3, <2>4, <4>1
        <4> QED BY <1>1, <2>1, <4>2
      <3> QED BY <3>1, <3>2
    <2>5. ASSUME Following, NEW v \in answer'.versions
          PROVE  v.updated <= n
      <3>1. PICK k \in answer'.keys : k.source = v.source
        BY <1>6
      <3>2. k.at = live[v.source].updated
        BY <1>5, <2>5, <3>1
      <3> QED BY <1>6, <2>4, <2>5, <3>2
    <2>6. ASSUME Following, NEW s \in Sources \ settled', Watched(live[s])
          PROVE  n < live[s].updated
      <3>1. CASE pages = 0
        <4>1. ~InScope(query, live[s], tracked)
          BY <1>2, <2>6, <3>1
        <4> QED BY <2>6, <4>1 DEF InScope, Following, Watched, PublishedAt
      <3>2. CASE pages # 0
        <4>1. s \notin settled /\ pages > 0 /\ n = m
          BY <1>2, <2>1, <2>6, <3>2
        <4> QED BY <1>2, <2>6, <4>1 DEF Client, MarkInv
      <3> QED BY <3>1, <3>2
    <2> QED BY <1>2, <1>3, <2>2, <2>3, <2>4, <2>5, <2>6 DEF MarkInv
  <1>10. DeliveredInv'
    <2>1. Following /\ Listing' => query.since = high
      BY <1>2 DEF Client, DeliveredInv, Listing
    <2>2. ASSUME Following, NEW s \in settled', NEW d \in delivered, d.key.source = s
          PROVE  held[s] = live[s].updated
      <3>1. pages # 0
        BY <2>2 DEF PageInv
      <3>2. s \in settled
        BY <1>2, <2>2, <3>1
      <3> QED BY <2>2, <3>2 DEF Client, DeliveredInv
    <2> QED BY <1>2, <1>3, <2>1, <2>2 DEF DeliveredInv
  <1>11. FeedMissesNoUpdate'
    BY <1>2 DEF FeedMissesNoUpdate
  <1>12. Client(n)'
    BY <1>7, <1>8, <1>9, <1>10, <1>11 DEF Client
  <1> QED BY <1>1, <1>12

(* What the client holds after a page: its rows at the versions read. *)
LEMMA AnswerHeld ==
  ASSUME TypeInv, NEW m \in Nat, Client(m), AnswerPage, Following
  PROVE  /\ \A s \in Sources :
              /\ held[s] <= held'[s] /\ held'[s] <= live[s].updated /\ held'[s] <= m
              /\ \A v \in answer.versions : v.source = s => v.updated <= held'[s]
         /\ high' = IF answer.hasMore THEN high ELSE Newest({high} \cup {held'[s] : s \in Sources})
         /\ high' \in Nat /\ high <= high' /\ high' <= m /\ \A s \in Sources : ~answer.hasMore => held'[s] <= high'
  <1>1. phase = "answering"
    BY DEF AnswerPage
  <1>2. /\ high <= m /\ \A s \in Sources : held[s] <= m
        /\ \A v \in answer.versions : v.updated <= m
    BY <1>1 DEF Client, MarkInv
  <1>3. \A s \in Sources : held[s] <= live[s].updated /\ held[s] \in 0..MaxClock
    BY DEF Client, HeldInv, TypeInv, TypeOK
  <1>4. \A v \in answer.versions : v.updated <= live[v.source].updated /\ v.updated \in 0..MaxClock
    BY <1>1 DEF Client, VersionInv, TypeInv, TypeOK, Answers, Versions
  <1>5. ASSUME NEW s \in Sources
        PROVE  /\ held[s] <= held'[s] /\ held'[s] <= live[s].updated /\ held'[s] <= m
               /\ \A v \in answer.versions : v.source = s => v.updated <= held'[s]
               /\ held'[s] \in 0..MaxClock
    <2> DEFINE seen == {held[s]} \cup {v.updated : v \in {w \in answer.versions : w.source = s}}
    <2>1. held'[s] = Newest(seen)
      BY DEF AnswerPage
    <2>2. seen \subseteq 0..MaxClock /\ seen # {}
      BY <1>3, <1>4
    <2>3. \A u \in seen : u <= live[s].updated /\ u <= m
      BY <1>2, <1>3, <1>4
    <2>4. held[s] \in seen /\ \A v \in answer.versions : v.source = s => v.updated \in seen
      OBVIOUS
    <2> HIDE DEF seen
    <2>5. held'[s] \in seen /\ \A u \in seen : u <= held'[s]
      BY <2>1, <2>2, NewestInSet
    <2> QED BY <2>2, <2>3, <2>4, <2>5
  <1>6. high' = IF answer.hasMore THEN high ELSE Newest({high} \cup {held'[s] : s \in Sources})
    BY DEF AnswerPage
  <1>7. high' \in Nat /\ high <= high' /\ high' <= m /\ \A s \in Sources : ~answer.hasMore => held'[s] <= high'
    <2> DEFINE seen == {high} \cup {held'[s] : s \in Sources}
    <2>1. high \in 0..MaxClock /\ seen \subseteq 0..MaxClock /\ seen # {}
      BY <1>5 DEF TypeInv, TypeOK
    <2>2. \A u \in seen : u <= m
      BY <1>2, <1>5
    <2>3. high \in seen /\ \A s \in Sources : held'[s] \in seen
      OBVIOUS
    <2>4. ~answer.hasMore => high' = Newest(seen)
      BY <1>6
    <2> HIDE DEF seen
    <2>5. Newest(seen) \in seen /\ \A u \in seen : u <= Newest(seen)
      BY <2>1, NewestInSet
    <2>6. CASE answer.hasMore
      BY <1>2, <1>6, <2>1, <2>6
    <2>7. CASE ~answer.hasMore
      <3>1. high' = Newest(seen)
        BY <2>7, <2>4
      <3>2. high' \in seen /\ \A u \in seen : u <= high'
        BY <2>5, <3>1
      <3>3. high' \in Nat /\ high <= high' /\ high' <= m
        BY <2>1, <2>2, <2>3, <3>2
      <3>4. \A s \in Sources : held'[s] <= high'
        BY <2>3, <3>2
      <3> QED BY <3>3, <3>4
    <2> QED BY <2>6, <2>7
  <1> QED BY <1>5, <1>6, <1>7

LEMMA AnswerFeed ==
  ASSUME TypeInv, TypeInv', PageInv, SettledInv, SettledInv', NEW m \in Nat, Client(m), AnswerPage
  PROVE  Client(m)'
  <1>1. /\ phase = "answering" /\ UNCHANGED <<query, live, tracked, settled, watched>>
        /\ pages' = pages + 1
        /\ delivered' = delivered \cup {[key |-> k, page |-> pages + 1] : k \in answer.keys}
        /\ phase' = IF answer.hasMore THEN "asking" ELSE "done"
        /\ cursor' = IF answer.hasMore THEN LastKey(answer.keys) ELSE cursor
    BY DEF AnswerPage, NextCursor, storeVars, propertyVars, ghostVars
  <1>2. (Following' <=> Following) /\ \A s : Watched(live[s])' <=> Watched(live[s])
    BY <1>1 DEF Following, Watched
  <1>3. VersionInv'
    BY <1>1 DEF VersionInv
  <1>4. CASE ~Following
    <2>1. held' = held /\ high' = high
      BY <1>4 DEF AnswerPage
    <2>2. HeldInv'
      BY <1>1, <1>2, <2>1 DEF Client, HeldInv
    <2> QED BY <1>2, <1>3, <1>4, <2>2 DEF Client, MarkInv, DeliveredInv, FeedMissesNoUpdate
  <1>5. CASE Following
    <2>1. \A s \in Sources :
            /\ held[s] \in Nat /\ held'[s] \in Nat /\ live[s].updated \in Nat
            /\ held[s] <= held'[s] /\ held'[s] <= live[s].updated /\ held'[s] <= m
            /\ \A v \in answer.versions : v.source = s => v.updated <= held'[s]
      <3>1. \A s \in Sources : held'[s] \in Nat
        BY ViolationBoundsAssumption DEF TypeInv, TypeOK
      <3> QED BY <1>5, <3>1, AnswerHeld, FeedNumbers
    <2>2. /\ high' \in Nat /\ high' <= m /\ high <= m /\ high \in Nat
          /\ answer.hasMore => high' = high
      BY <1>1, <1>5, AnswerHeld, FeedNumbers DEF Client, MarkInv
    <2>3. ASSUME NEW s \in Sources, held[s] = live[s].updated
          PROVE  held'[s] = live[s].updated
      BY <2>1, <2>3
    <2>4. ASSUME NEW s \in settled, NEW k \in answer.keys, k.source = s
          PROVE  held'[s] = live[s].updated
      <3>1. PICK v \in answer.versions : v.source = s
        BY <1>1, <2>4 DEF Client, VersionInv
      <3>2. v.updated = live[s].updated /\ s \in Sources
        BY <1>1, <3>1, FeedNumbers DEF Client, VersionInv
      <3> QED BY <2>1, <3>1, <3>2
    <2>5. ASSUME NEW s \in settled, NEW d \in delivered', d.key.source = s
          PROVE  held'[s] = live[s].updated
      <3>1. CASE d \in delivered
        BY <1>5, <2>3, <2>5, <3>1, FeedNumbers DEF Client, DeliveredInv
      <3>2. CASE d \notin delivered
        <4>1. d.key \in answer.keys
          BY <1>1, <3>2
        <4> QED BY <2>4, <2>5, <4>1
      <3> QED BY <3>1, <3>2
    <2>6. ASSUME NEW s \in settled, Watched(live[s]), ~answer.hasMore
          PROVE  held'[s] = live[s].updated
      <3>1. s \in Sources /\ live[s] \in Rows
        BY FeedNumbers
      <3>2. CASE Selected(query, live[s])
        <4>1. phase' = "done"
          BY <1>1, <2>6
        <4>2. \E d \in delivered' : d.key = KeyOf(s)'
          BY <1>1, <3>2, <4>1 DEF SettledInv, Delivered
        <4>3. KeyOf(s)' = KeyOf(s) /\ KeyOf(s).source = s
          BY <1>1, <3>1, SortKeyType DEF KeyOf
        <4> QED BY <2>5, <4>2, <4>3
      <3>3. CASE ~Selected(query, live[s])
        <4>1. query.listing \in ListingRecords
          BY QueriesAssumption DEF TypeInv, TypeOK, Queries
        <4>2. ~(live[s].updated > query.since)
          BY <1>5, <3>3, <4>1 DEF Selected, Following, ListingRecords
        <4>3. query.since = high
          BY <1>1, <1>5 DEF Client, DeliveredInv, Listing
        <4>4. held[s] = live[s].updated
          BY <2>1, <2>2, <2>6, <3>1, <4>2, <4>3 DEF Client, HeldInv
        <4> QED BY <2>3, <3>1, <4>4
      <3> QED BY <3>2, <3>3
    <2>7. HeldInv'
      <3>1. ASSUME NEW s \in Sources, Watched(live[s]), live[s].updated <= high'
            PROVE  held'[s] = live[s].updated
        <4>1. CASE answer.hasMore
          BY <2>2, <2>3, <3>1, <4>1 DEF Client, HeldInv
        <4>2. CASE ~answer.hasMore
          <5>1. ~(m < live[s].updated)
            BY <2>1, <2>2, <3>1
          <5>2. s \in settled
            BY <1>1, <1>5, <3>1, <5>1 DEF Client, MarkInv
          <5> QED BY <2>6, <3>1, <4>2, <5>2
        <4> QED BY <4>1, <4>2
      <3> QED BY <1>1, <1>2, <2>1, <3>1 DEF HeldInv
    <2>8. MarkInv(m)'
      <3>1. ASSUME answer.hasMore
            PROVE  cursor'.at <= m
        <4>1. cursor' \in answer.keys
          BY <1>1, <3>1, LastKeyIsLast DEF TypeInv
        <4> QED BY <1>1, <1>5, <4>1 DEF Client, MarkInv
      <3>2. \A s \in Sources \ settled : Watched(live[s]) => m < live[s].updated
        BY <1>1, <1>5 DEF Client, MarkInv
      <3> QED BY <1>1, <1>2, <2>1, <2>2, <3>1, <3>2 DEF MarkInv
    <2>9. DeliveredInv'
      <3>1. Listing' => query'.since = high'
        BY <1>1, <1>5, <2>2 DEF Client, DeliveredInv, Listing
      <3> QED BY <1>1, <1>2, <2>5, <3>1 DEF DeliveredInv
    <2>10. FeedMissesNoUpdate'
      <3>1. \A s \in settled : live[s].content.bin \in watched => Watched(live[s])
        BY DEF SettledInv, InScope, Watched
      <3> QED BY <1>1, <1>2, <2>6, <3>1 DEF FeedMissesNoUpdate
    <2> QED BY <1>3, <2>7, <2>8, <2>9, <2>10 DEF Client
  <1> QED BY <1>4, <1>5

LEMMA FeedNext ==
  ASSUME TypeInv, TypeInv', PageInv, SettledInv, SettledInv', FeedInv, [Next]_vars
  PROVE  FeedInv'
  <1>1. PICK c, d, m \in Nat : m <= c /\ Store(c, d) /\ Client(m)
    BY DEF FeedInv
  <1>2. high <= c /\ high \in Nat /\ watched \subseteq AllBins(tracked) /\ PublishedAt(c)
    BY <1>1, FeedNumbers DEF Store, PublishedAt
  <1>3. ASSUME NEW a \in Nat, NEW b \in Nat, NEW n \in Nat, n <= a, Store(a, b)', Client(n)'
        PROVE  FeedInv'
    BY <1>3 DEF FeedInv
  <1>4. ASSUME UNCHANGED <<live, requestVars, clientVars, ghostVars>>
        PROVE  Client(m)'
    BY <1>1, <1>4 DEF requestVars, clientVars, ghostVars, Client, HeldInv, VersionInv, MarkInv, DeliveredInv,
                      FeedMissesNoUpdate, Following, Listing, Watched
  <1>5. ASSUME NEW s \in Sources, SourceDelete(s) \/ \E content \in Contents : SourceUpdate(s, content)
        PROVE  FeedInv'
    <2>1. Store(c, d)'
      BY <1>1, <1>5, SourceStore
    <2>2. Client(m)'
      BY <1>4, <1>5 DEF SourceUpdate, SourceDelete, storeVars
    <2> QED BY <1>1, <1>3, <2>1, <2>2
  <1>6. ASSUME NEW p \in Properties, NEW bins \in SUBSET Bins, ChangeBins(p, bins)
        PROVE  FeedInv'
    <2>1. /\ Observe(live', tracked', coverage') /\ UNCHANGED <<sourceVars, live, requestVars, clientVars>>
          /\ scan'.open = scan.open /\ scan'.staged = scan.staged
      BY <1>6 DEF ChangeBins, TypeInv, TypeOK
    <2>2. Store(c, d)'
      BY <1>1, <1>2, <2>1, OtherStore DEF Observe, clientVars
    <2>3. Client(m)'
      <3>1. \A s \in Sources : live[s].updated <= live'[s].updated
        BY <2>1, FeedNumbers
      <3> QED BY <1>1, <1>2, <2>1, <3>1, CommitFeed
    <2> QED BY <1>1, <1>3, <2>2, <2>3
  <1>7. ASSUME StartScan
        PROVE  FeedInv'
    <2>1. PICK b \in Nat : b = clock
      BY FeedNumbers
    <2>2. Store(c, b)'
      BY <1>1, <1>7, <2>1, ScanStore
    <2>3. Client(m)'
      BY <1>4, <1>7 DEF StartScan
    <2> QED BY <1>1, <1>3, <2>2, <2>3
  <1>8. ASSUME PublishScan
        PROVE  FeedInv'
    <2>1. /\ c <= d /\ Store(d, d)'
          /\ \A s \in Sources : /\ live[s].updated <= live'[s].updated
                                /\ Watched(live[s])' => live'[s] = live[s] \/ c < live'[s].updated
      BY <1>1, <1>8, PublishStore
    <2>2. Observe(live', tracked', coverage') /\ UNCHANGED requestVars /\ UNCHANGED clientVars
      BY <1>8 DEF PublishScan, propertyVars
    <2>3. Client(m)'
      BY <1>1, <1>2, <2>1, <2>2, CommitFeed
    <2>4. m <= d
      BY <1>1, <2>1
    <2> QED BY <1>1, <1>3, <2>1, <2>3, <2>4
  <1>9. ASSUME RejectScan
        PROVE  FeedInv'
    <2>1. /\ Observe(live', tracked', coverage') /\ UNCHANGED <<sourceVars, live, requestVars, clientVars>>
          /\ ~scan'.open
      BY <1>9 DEF RejectScan, propertyVars, NoScan
    <2>2. Store(c, d)'
      BY <1>1, <1>2, <2>1, OtherStore DEF Observe, clientVars
    <2>3. Client(m)'
      <3>1. \A s \in Sources : live[s].updated <= live'[s].updated
        BY <2>1, FeedNumbers
      <3> QED BY <1>1, <1>2, <2>1, <3>1, CommitFeed
    <2> QED BY <1>1, <1>3, <2>2, <2>3
  <1>10. ASSUME UNCHANGED <<sourceVars, propertyVars, storeVars, watched>>, high' <= c
         PROVE  Store(c, d)'
    <2>1. watched' \subseteq watched \cap AllBins(tracked')
      BY <1>2, <1>10 DEF propertyVars
    <2> QED BY <1>1, <1>10, <2>1, OtherStore DEF storeVars
  <1>11. ASSUME NEW l \in Listings, NEW n \in Limits,
                OpenListing([listing |-> l, limit |-> n, since |-> IF l.kind = "updates" THEN high ELSE 0])
         PROVE  FeedInv'
    <2>1. Store(c, d)'
      BY <1>2, <1>10, <1>11 DEF OpenListing, clientVars
    <2>2. Client(m)'
      <3>1. /\ phase' = "asking" /\ pages' = 0 /\ settled' = {}
            /\ UNCHANGED <<live, held, high, watched>>
            /\ query' = [listing |-> l, limit |-> n, since |-> IF l.kind = "updates" THEN high ELSE 0]
        BY <1>11 DEF OpenListing, storeVars, clientVars
      <3>2. HeldInv'
        BY <1>1, <3>1 DEF Client, HeldInv, Watched
      <3>3. Following' => query'.since = high'
        BY <3>1 DEF Following
      <3>4. VersionInv' /\ MarkInv(m)' /\ FeedMissesNoUpdate'
        BY <3>1 DEF VersionInv, MarkInv, FeedMissesNoUpdate
      <3> QED BY <3>1, <3>2, <3>3, <3>4 DEF Client, DeliveredInv
    <2> QED BY <1>1, <1>3, <2>1, <2>2
  <1>12. ASSUME RefuseCursor
         PROVE  FeedInv'
    <2>1. /\ phase' = "refused"
          /\ UNCHANGED <<query, delivered, pages, live, held, high, watched, settled>>
      BY <1>12 DEF RefuseCursor, storeVars, clientVars, ghostVars
    <2>2. Store(c, d)'
      BY <1>2, <1>10, <1>12, <2>1 DEF RefuseCursor, ghostVars
    <2>3. Client(m)'
      BY <1>1, <2>1 DEF Client, HeldInv, VersionInv, MarkInv, DeliveredInv, FeedMissesNoUpdate, Following,
                        Listing, Watched
    <2> QED BY <1>1, <1>3, <2>2, <2>3
  <1>13. ASSUME ReadPage
         PROVE  FeedInv'
    <2>1. PICK n \in Nat : n <= c /\ Client(n)'
      BY <1>1, <1>2, <1>13, ReadFeed
    <2>2. Store(c, d)'
      BY <1>2, <1>10, <1>13 DEF ReadPage, clientVars
    <2> QED BY <1>1, <1>3, <2>1, <2>2
  <1>14. ASSUME AnswerPage
         PROVE  FeedInv'
    <2>1. Client(m)'
      BY <1>1, <1>14, AnswerFeed
    <2>2. high' <= c
      <3>1. CASE Following
        <4>1. high' \in Nat /\ high' <= m
          BY <1>1, <1>14, <3>1, AnswerHeld
        <4> QED BY <1>1, <4>1
      <3>2. CASE ~Following
        BY <1>2, <1>14, <3>2 DEF AnswerPage
      <3> QED BY <3>1, <3>2
    <2>3. Store(c, d)'
      BY <1>10, <1>14, <2>2 DEF AnswerPage, ghostVars
    <2> QED BY <1>1, <1>3, <2>1, <2>3
  <1>15. CASE UNCHANGED vars
    <2>1. Client(m)'
      BY <1>4, <1>15 DEF vars, requestVars, clientVars, ghostVars
    <2>2. Store(c, d)'
      BY <1>2, <1>10, <1>15 DEF vars, sourceVars, propertyVars, storeVars
    <2> QED BY <1>1, <1>3, <2>1, <2>2
  <1> QED BY <1>5, <1>6, <1>7, <1>8, <1>9, <1>11, <1>12, <1>13, <1>14, <1>15 DEF Next

LEMMA FeedInitially ==
  ASSUME TypeInv, Init PROVE FeedInv
  <1>1. /\ clock = 1 /\ high = 0 /\ ~scan.open /\ phase = "idle" /\ settled = {} /\ watched = AllBins(tracked)
        /\ \A s \in Sources : held[s] = 0
    BY DEF Init, NoScan
  <1>2. \A s \in Sources : /\ live[s] = [source[s] EXCEPT !.listed = @ /\ source[s].content.bin \in AllBins(tracked)]
                           /\ source[s].updated = 1 /\ source[s] \in Rows
    <2>1. \A s \in Sources : source[s].updated = 1
      BY DEF Init, ListedRow
    <2> QED BY <2>1, FeedNumbers DEF Init
  <1>3. \A s \in Sources : live[s].updated = 1 /\ (Watched(source[s]) => live[s] = source[s])
    <2> SUFFICES ASSUME NEW s \in Sources
                 PROVE  live[s].updated = 1 /\ (Watched(source[s]) => live[s] = source[s])
      OBVIOUS
    <2> DEFINE stays == source[s].listed /\ source[s].content.bin \in AllBins(tracked)
    <2>1. live[s] = [source[s] EXCEPT !.listed = stays] /\ source[s] \in Rows /\ source[s].updated = 1
      BY <1>2
    <2>2. Watched(source[s]) => stays = TRUE /\ source[s].listed = TRUE
      BY <1>1, <2>1 DEF Watched, Rows
    <2> HIDE DEF stays
    <2> QED BY <2>1, <2>2 DEF Rows
  <1>4. Store(1, 1)
    <2>1. high <= 1 /\ 1 <= clock /\ clock = 1
      BY <1>1
    <2>2. \A s \in Sources : /\ live[s].updated <= 1 /\ live[s].updated <= source[s].updated
                             /\ source[s].updated <= clock
                             /\ Watched(source[s]) => live[s] = source[s]
      <3> TAKE s \in Sources
      <3>1. live[s].updated = 1 /\ source[s].updated = 1
        BY <1>2, <1>3
      <3> QED BY <1>3, <2>1, <3>1
    <2> QED BY <1>1, <2>1, <2>2 DEF Store, PublishedAt
  <1>5. Client(0)
    BY <1>1, <1>3 DEF Client, HeldInv, VersionInv, MarkInv, DeliveredInv, FeedMissesNoUpdate, Listing
  <1> QED BY <1>4, <1>5 DEF FeedInv

(* Whoever follows the feed of updates holds, after each complete listing, *)
(* the stored version of every row whose BIN has been tracked all along    *)
(* and that was not republished meanwhile: no update is missed, for any    *)
(* number of rows, pages, publications and changes of BINs.                *)
THEOREM FeedIsComplete == Spec => []FeedMissesNoUpdate
  <1>1. Init => PageInv /\ SettledInv
    BY DEF Init, PageInv, PagesAreOrdered, SettledInv
  <1>2. FeedInv => FeedMissesNoUpdate
    BY DEF FeedInv, Client
  <1> QED BY <1>1, <1>2, TypesInitially, FeedInitially, TypesNext, PageNext, SettledNext, FeedNext, PTL DEF Spec
=============================================================================
