----------------------------- MODULE ViolationPages -----------------------------
(***************************************************************************)
(* Reading the stored violations page by page while runs publish new live  *)
(* state and properties change their BINs.                                 *)
(*                                                                         *)
(* Three listings are served: the violations of one property with its      *)
(* coverage (GET /properties/:id/ecb-violations) and the violations of the *)
(* whole portfolio, newest first or by source update (GET /ecb-violations, *)
(* with updatedSince).  Nothing is kept between two requests: a page       *)
(* resumes from the cursor, the sort key of the last row of the page       *)
(* before.  The client is external; it follows nextCursor to the end and,  *)
(* when it lists by source update, asks next time for what is newer than   *)
(* the newest row it has seen.                                             *)
(*                                                                         *)
(* Runs are reduced to what a reader can tell: the snapshot of BINs and of *)
(* source rows they start with, and the transaction that publishes them.   *)
(***************************************************************************)
EXTENDS Naturals, FiniteSets

CONSTANTS
  Properties,    \* registered properties
  NoProperty,    \* the property of a portfolio listing
  Bins,          \* valid BINs
  Sources,       \* source ids, numbered in the order of their text
  Contents,      \* what the source may say of a violation
  Listings,      \* the listings the client asks for
  Limits,        \* values of the limit parameter
  InitialBins,   \* BIN sets at the first accepted run
  InitialSource, \* what the source said then
  MaxRuns,       \* bound: accepted runs
  MaxClock,      \* bound: source update times (:updated_at)
  MaxMoves,      \* bound: changes of BIN sets
  MaxListings,   \* bound: listings
  MaxPages       \* bound: pages of a listing

NoDate == 0      \* issue_date IS NULL

ContentRecords ==
  [bin : Bins, issue : Nat, active : BOOLEAN, unpaid : BOOLEAN]

ListingRecords ==
  [kind : {"property"}, property : Properties, openOnly : BOOLEAN, unpaidOnly : BOOLEAN]
  \cup
  [kind : {"portfolio", "updates"}, property : {NoProperty}, openOnly : {FALSE},
   unpaidOnly : BOOLEAN]

ASSUME SourcesAssumption == Sources \subseteq Nat \ {0} /\ IsFiniteSet(Sources)
ASSUME ContentsAssumption == Contents \subseteq ContentRecords
ASSUME QueriesAssumption ==
  /\ Listings \subseteq ListingRecords /\ Listings # {}
  /\ Limits \subseteq Nat \ {0} /\ Limits # {}
ASSUME InitialAssumption ==
  /\ InitialBins \subseteq [Properties -> SUBSET Bins]
  /\ InitialSource \subseteq [Sources -> Contents]
ASSUME ViolationBoundsAssumption ==
  {MaxRuns, MaxClock} \subseteq Nat \ {0} /\ {MaxMoves, MaxListings, MaxPages} \subseteq Nat

VARIABLES
  source,      \* source[s]: what the source says of s
  clock,       \* the latest :updated_at given out by the source
  tracked,     \* tracked[p]: rows of property_bins
  moves,       \* changes of BIN sets so far
  live,        \* live[s]: row of ecb_violations, listed when is_current
  coverage,    \* coverage[p]: status and last accepted run
  runs,        \* accepted runs so far
  scan,        \* the run in progress: its snapshot and its staged rows
  listings,    \* listings asked for so far
  phase,       \* where the client and its request stand
  query,       \* the listing the client asks for
  cursor,      \* the cursor it sends with the next page
  answer,      \* what the page's statement has read
  delivered,   \* rows delivered by this listing, with the page they came on
  pages,       \* pages delivered by this listing
  settled,     \* in scope and unchanged since the first page was read
  moments,     \* answers the request could have given at one moment
  held,        \* held[s]: version of s the client got from the update feed
  high,        \* newest source update the client has seen
  watched      \* BINs tracked at all times so far

sourceVars   == <<source, clock>>
propertyVars == <<tracked, moves>>
storeVars    == <<live, coverage, runs, scan>>
requestVars  == <<listings, phase, query, cursor, answer, delivered, pages>>
clientVars   == <<held, high>>
ghostVars    == <<settled, moments, watched>>
vars == <<source, clock, tracked, moves, live, coverage, runs, scan, listings,
          phase, query, cursor, answer, delivered, pages, settled, moments, held, high, watched>>

Rows == [listed : BOOLEAN, content : Contents, updated : 0..MaxClock]

ListedRow(content, at) == [listed |-> TRUE, content |-> content, updated |-> at]

Keys == [at : Nat, source : Sources]
NoCursor == [at |-> 0, source |-> 0]

Queries == [listing : Listings, limit : Limits, since : Nat]

AllBins(bins) == UNION {bins[p] : p \in Properties}

-----------------------------------------------------------------------------
(* The statements of the query repositories. *)

(* WHERE is_current and the BIN belongs to the property, or to any one. *)
InScope(q, row, bins) ==
  /\ row.listed
  /\ row.content.bin \in IF q.listing.kind = "property" THEN bins[q.listing.property] ELSE AllBins(bins)

(* openOnly, unpaidOnly and updatedSince. *)
Selected(q, row) ==
  /\ q.listing.openOnly => row.content.active
  /\ q.listing.unpaidOnly => row.content.unpaid
  /\ q.listing.kind = "updates" => row.updated > q.since

SortKey(q, s, row) ==
  [at |-> IF q.listing.kind = "updates" THEN row.updated ELSE row.content.issue, source |-> s]

(* ORDER BY issue_date DESC NULLS LAST, source_id DESC, or                 *)
(* source_row_updated_at DESC, source_id DESC (never NULL).                *)
Precedes(k, l) ==
  \/ k.at # NoDate /\ l.at = NoDate
  \/ k.at # NoDate /\ l.at # NoDate /\ k.at > l.at
  \/ k.at = l.at /\ k.source > l.source

(* The cursor predicates.  A comparison with a NULL issue_date is never    *)
(* true in SQL, hence the explicit NULL branches.                          *)
AfterCursor_strictDate(c, k) ==
  IF c.at = NoDate
  THEN k.at = NoDate /\ k.source < c.source
  ELSE \/ k.at # NoDate /\ k.at < c.at
       \/ k.at = c.at /\ k.source < c.source
AfterCursor_inclusive(c, k) ==
  IF c.at = NoDate
  THEN k.at = NoDate /\ k.source <= c.source
  ELSE \/ k.at # NoDate /\ k.at < c.at
       \/ k.at = c.at /\ k.source <= c.source
       \/ k.at = NoDate
AfterCursor(c, k) ==
  IF c.at = NoDate
  THEN k.at = NoDate /\ k.source < c.source
  ELSE \/ k.at # NoDate /\ k.at < c.at
       \/ k.at = c.at /\ k.source < c.source
       \/ k.at = NoDate

(* Rows the statement finds before LIMIT; the listing starts without a     *)
(* cursor.                                                                 *)
Matching(q, c, rows, bins) ==
  {s \in Sources :
     /\ InScope(q, rows[s], bins)
     /\ Selected(q, rows[s])
     /\ c # NoCursor => AfterCursor(c, SortKey(q, s, rows[s]))}

(* The first q.limit of the limit + 1 rows asked for. *)
PageKeys(q, c, rows, bins) ==
  LET matching == {SortKey(q, s, rows[s]) : s \in Matching(q, c, rows, bins)}
  IN  {k \in matching : Cardinality({l \in matching : Precedes(l, k)}) < q.limit}

HasMore_noLookahead(q, c, rows, bins) == FALSE
HasMore(q, c, rows, bins) == Cardinality(Matching(q, c, rows, bins)) > q.limit

(* Coverage is served with the property's listing only. *)
CoverageFor(q, cover) ==
  IF q.listing.kind = "property" THEN cover[q.listing.property] ELSE [status |-> "NONE", run |-> 0]

Answer(q, c, rows, bins, cover) ==
  [keys     |-> PageKeys(q, c, rows, bins),
   hasMore  |-> HasMore(q, c, rows, bins),
   versions |-> {[source |-> k.source, updated |-> rows[k.source].updated] :
                   k \in PageKeys(q, c, rows, bins)},
   coverage |-> CoverageFor(q, cover)]

(* The last row of a page, which no other row of it follows. *)
LastKey(keys) == CHOOSE k \in keys : \A l \in keys : l = k \/ Precedes(l, k)

-----------------------------------------------------------------------------
NoAnswer == [keys |-> {}, hasMore |-> FALSE, versions |-> {},
             coverage |-> [status |-> "NONE", run |-> 0]]

NoScan == [open |-> FALSE, bins |-> [p \in Properties |-> {}], staged |-> {}, unchanged |-> {}]

(* The store as the first accepted run left it. *)
Init ==
  /\ clock = 1
  /\ source \in {[s \in Sources |-> ListedRow(f[s], 1)] : f \in InitialSource}
  /\ tracked \in InitialBins
  /\ moves = 0
  /\ runs = 1
  /\ live = [s \in Sources |-> [source[s] EXCEPT !.listed = @ /\ source[s].content.bin \in AllBins(tracked)]]
  /\ coverage = [p \in Properties |->
       IF tracked[p] = {} THEN [status |-> "NOT_CHECKED", run |-> 0]
                          ELSE [status |-> "CHECKED", run |-> 1]]
  /\ scan = NoScan
  /\ listings = 0
  /\ phase = "idle"
  /\ query \in [listing : {CHOOSE l \in Listings : TRUE}, limit : {CHOOSE n \in Limits : TRUE}, since : {0}]
  /\ cursor = NoCursor
  /\ answer = NoAnswer
  /\ delivered = {}
  /\ pages = 0
  /\ settled = {}
  /\ moments = {}
  /\ held = [s \in Sources |-> 0]
  /\ high = 0
  /\ watched = AllBins(tracked)

-----------------------------------------------------------------------------
(* The source, the resolver and the runs. *)

SourceUpdate(s, content) ==
  /\ clock < MaxClock
  /\ clock' = clock + 1
  /\ source' = [source EXCEPT ![s] = ListedRow(content, clock + 1)]
  /\ UNCHANGED <<propertyVars, storeVars, requestVars, clientVars, ghostVars>>

SourceDelete(s) ==
  /\ clock < MaxClock
  /\ source[s].listed
  /\ clock' = clock + 1
  /\ source' = [source EXCEPT ![s].listed = FALSE]
  /\ UNCHANGED <<propertyVars, storeVars, requestVars, clientVars, ghostVars>>

(* What a commit means for the request in progress and for the histories. *)
Observe(rows, bins, cover) ==
  /\ settled' = {s \in settled : InScope(query, rows[s], bins) /\ rows[s] = live[s]}
  /\ moments' = IF phase = "answering"
                THEN moments \cup {Answer(query, cursor, rows, bins, cover)}
                ELSE moments
  /\ watched' = watched \cap AllBins(bins)

(* applyEffectiveBinSet *)
ChangeBins(p, bins) ==
  /\ moves < MaxMoves
  /\ bins # tracked[p]
  /\ moves' = moves + 1
  /\ tracked' = [tracked EXCEPT ![p] = bins]
  /\ coverage' = [coverage EXCEPT ![p].status = "NOT_CHECKED"]
  /\ scan' = [scan EXCEPT !.unchanged = @ \ {p}]
  /\ Observe(live, tracked', coverage')
  /\ UNCHANGED <<sourceVars, live, runs, requestVars, clientVars>>

Scanned(row, bins) == row.listed /\ row.content.bin \in AllBins(bins)

(* A run snapshots the BINs and scans the source.  Its scan is taken as    *)
(* one source state, which an accepted run's is as long as no ingestion    *)
(* loses its lock session (EcbIngestion, AcceptedIsSourceSnapshot); after  *)
(* a loss it may mix two.                                                  *)
StartScan ==
  /\ ~scan.open
  /\ runs < MaxRuns
  /\ scan' = [open |-> TRUE, bins |-> tracked,
              staged |-> {[source |-> s, row |-> source[s]] : s \in
                            {t \in Sources : Scanned(source[t], tracked)}},
              unchanged |-> {p \in Properties : tracked[p] # {}}]
  /\ UNCHANGED <<sourceVars, propertyVars, live, coverage, runs, requestVars,
                 clientVars, ghostVars>>

(* One transaction: promote, reconcile the scanned BINs, publish coverage. *)
PublishScan ==
  /\ scan.open
  /\ runs' = runs + 1
  /\ live' = [s \in Sources |->
       IF \E e \in scan.staged : e.source = s
       THEN (CHOOSE e \in scan.staged : e.source = s).row
       ELSE [live[s] EXCEPT !.listed = @ /\ live[s].content.bin \notin AllBins(scan.bins)]]
  /\ coverage' = [p \in Properties |->
       IF scan.bins[p] = {} THEN coverage[p]
       ELSE IF p \in scan.unchanged THEN [status |-> "CHECKED", run |-> runs + 1]
       ELSE [coverage[p] EXCEPT !.status = "NOT_CHECKED"]]
  /\ scan' = NoScan
  /\ Observe(live', tracked, coverage')
  /\ UNCHANGED <<sourceVars, propertyVars, requestVars, clientVars>>

(* A rejected run touches the coverage of the properties it still matches. *)
RejectScan ==
  /\ scan.open
  /\ coverage' = [p \in Properties |->
       IF p \in scan.unchanged THEN [coverage[p] EXCEPT !.status = "FAILED"] ELSE coverage[p]]
  /\ scan' = NoScan
  /\ Observe(live, tracked, coverage')
  /\ UNCHANGED <<sourceVars, propertyVars, live, runs, requestVars, clientVars>>

-----------------------------------------------------------------------------
(* Requests *)

(* The client starts a listing; the updates feed resumes from what it has  *)
(* seen.                                                                   *)
OpenListing(q) ==
  /\ phase \in {"idle", "done", "refused"}
  /\ listings < MaxListings
  /\ listings' = listings + 1
  /\ phase' = "asking"
  /\ query' = q
  /\ cursor' = NoCursor
  /\ answer' = NoAnswer
  /\ delivered' = {}
  /\ pages' = 0
  /\ settled' = {}
  /\ moments' = {}
  /\ UNCHANGED <<sourceVars, propertyVars, storeVars, clientVars, watched>>

(* A cursor of the other sort key is refused before any statement runs:    *)
(* the two cursor schemas are strict.                                      *)
RefuseCursor ==
  /\ phase = "asking"
  /\ cursor # NoCursor
  /\ phase' = "refused"
  /\ UNCHANGED <<sourceVars, propertyVars, storeVars, listings, query, cursor, answer, delivered,
                 pages, clientVars, ghostVars>>

(* The page's statement.  For a property it opens the transaction whose    *)
(* snapshot the coverage is read from too (RepeatableRead).                *)
ReadPage ==
  /\ phase = "asking"
  /\ pages < MaxPages
  /\ phase' = "answering"
  /\ answer' = Answer(query, cursor, live, tracked, coverage)
  /\ moments' = {answer'}
  /\ settled' = IF pages = 0 THEN {s \in Sources : InScope(query, live[s], tracked)} ELSE settled
  /\ UNCHANGED <<sourceVars, propertyVars, storeVars, listings, query, cursor, delivered, pages,
                 clientVars, watched>>

(* nextCursor is the key of the page's last row, if there is more. *)
NextCursor(keys) == LastKey(keys)

(* Coverage the answer carries, read by the second statement. *)
ReadCoverage_committed == CoverageFor(query, coverage)
ReadCoverage == answer.coverage

Newest(seen) == CHOOSE t \in seen : \A u \in seen : u <= t

(* The updates feed is only a full one when nothing is filtered out. *)
Following == query.listing.kind = "updates" /\ ~query.listing.unpaidOnly

(* The coverage statement, the answer, and what the client does with it. *)
AnswerPage ==
  /\ phase = "answering"
  /\ answer' = [answer EXCEPT !.coverage = ReadCoverage]
  /\ pages' = pages + 1
  /\ delivered' = delivered \cup {[key |-> k, page |-> pages + 1] : k \in answer.keys}
  /\ phase' = IF answer.hasMore THEN "asking" ELSE "done"
  /\ cursor' = IF answer.hasMore THEN NextCursor(answer.keys) ELSE cursor
  /\ held' = IF ~Following THEN held
             ELSE [s \in Sources |->
                     Newest({held[s]} \cup {v.updated : v \in {w \in answer.versions : w.source = s}})]
  /\ high' = IF Following /\ ~answer.hasMore
             THEN Newest({high} \cup {held'[s] : s \in Sources}) ELSE high
  /\ UNCHANGED <<sourceVars, propertyVars, storeVars, listings, query, ghostVars>>

Next ==
  \/ \E s \in Sources, content \in Contents : SourceUpdate(s, content)
  \/ \E s \in Sources : SourceDelete(s)
  \/ \E p \in Properties, bins \in SUBSET Bins : ChangeBins(p, bins)
  \/ StartScan
  \/ PublishScan
  \/ RejectScan
  \/ \E l \in Listings, n \in Limits :
       OpenListing([listing |-> l, limit |-> n, since |-> IF l.kind = "updates" THEN high ELSE 0])
  \/ RefuseCursor
  \/ ReadPage
  \/ AnswerPage

Spec == Init /\ [][Next]_vars

(* The client asks for the next page while there is one, and the server    *)
(* answers.                                                                *)
Fairness == WF_vars(ReadPage) /\ WF_vars(AnswerPage)

FairSpec == Spec /\ Fairness

-----------------------------------------------------------------------------
Coverages == [status : {"NONE", "NOT_CHECKED", "CHECKED", "FAILED"}, run : 0..MaxRuns]
Versions  == [source : Sources, updated : 0..MaxClock]
Answers   == [keys : SUBSET Keys, hasMore : BOOLEAN, versions : SUBSET Versions,
              coverage : Coverages]

TypeOK ==
  /\ source \in [Sources -> Rows]
  /\ clock \in 1..MaxClock
  /\ tracked \in [Properties -> SUBSET Bins]
  /\ moves \in 0..MaxMoves
  /\ live \in [Sources -> Rows]
  /\ coverage \in [Properties -> Coverages]
  /\ runs \in 1..MaxRuns
  /\ scan \in [open : BOOLEAN, bins : [Properties -> SUBSET Bins],
               staged : SUBSET [source : Sources, row : Rows], unchanged : SUBSET Properties]
  /\ listings \in 0..MaxListings
  /\ phase \in {"idle", "asking", "answering", "done", "refused"}
  /\ query \in Queries
  /\ cursor \in Keys \cup {NoCursor}
  /\ answer \in Answers
  /\ Cardinality(answer.keys) <= query.limit
  /\ delivered \subseteq [key : Keys, page : Nat]
  /\ pages \in 0..MaxPages
  /\ settled \subseteq Sources
  /\ moments \subseteq Answers
  /\ held \in [Sources -> 0..MaxClock]
  /\ high \in 0..MaxClock
  /\ watched \subseteq Bins

(* Whatever is published while a client pages, a row of a later page sorts *)
(* strictly after every row of an earlier one: nothing comes out of order, *)
(* and no row is repeated with the key it had.  (Order of the listing and  *)
(* both cursor predicates.)                                                *)
PagesAreOrdered ==
  \A d, e \in delivered : d.page < e.page => Precedes(d.key, e.key)

(* A listing read to its end has delivered exactly once each row that was  *)
(* in scope, selected by the filters and unchanged from the first page to  *)
(* the last, across the boundary to the rows without an issue date too.    *)
SettledRowsOnce ==
  phase = "done" =>
    \A s \in settled : Selected(query, live[s]) =>
      \E d \in delivered : \A e \in delivered : (e.key.source = s) <=> (e = d)

(* The rows and the coverage of one answer held together at one moment of  *)
(* the request, whatever was committed between its two statements.         *)
(* (findSnapshot: "publication or identifier changes cannot produce a      *)
(* hybrid response".)                                                      *)
AnswerIsOneMoment ==
  phase \in {"asking", "done", "refused"} /\ pages > 0 => answer \in moments

(* A client that asks for what was updated since the newest row it has     *)
(* seen holds, after each complete listing, the stored version of every    *)
(* row whose BIN has been tracked all along and that was not republished   *)
(* meanwhile: publications between two pages are made up for by the next   *)
(* listing.  (updatedSince with ORDER BY source_row_updated_at DESC.)      *)
(* It rests on a scan being one source state (see StartScan): a run that   *)
(* mixes two may publish a new row beside an older one that it has not     *)
(* seen updated, and the client's updatedSince then passes that update by. *)
FeedMissesNoUpdate ==
  phase = "done" /\ Following =>
    \A s \in settled : live[s].content.bin \in watched => held[s] = live[s].updated

(* A client that keeps asking reaches the end of the listing, within       *)
(* MaxPages pages, although runs publish and BINs change meanwhile.        *)
ListingEnds == phase = "asking" ~> phase \in {"done", "refused"}
=============================================================================
