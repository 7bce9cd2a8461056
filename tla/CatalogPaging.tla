--------------------------- MODULE CatalogPaging ---------------------------
(***************************************************************************)
(* Reading the public catalog page by page (listings.service.ts findPublic *)
(* and hooks/use-listings.ts) while listings enter it and leave it.  Sorted*)
(* by age, a page starts after the last listing of the page before         *)
(* (a keyset); in the other sorts it starts at the number of rows already  *)
(* handed out (an offset), up to a limit.  Every page is one query.        *)
(***************************************************************************)
EXTENDS Naturals, FiniteSets

CONSTANTS
    Listing,        \* the listings that match the filter, as numbers: their ids
    CreatedAt,      \* the creation time of each; some are created together
    Price,          \* the price of each; some cost the same
    Limit,          \* rows per page
    MaxOffset,      \* MAX_CATALOG_OFFSET
    MaxMoves        \* bound: listings that enter or leave in the life of the catalog

ASSUME PagingAssumption ==
    /\ Listing \subseteq Nat
    /\ IsFiniteSet(Listing)
    /\ CreatedAt \in [Listing -> Nat]
    /\ Price \in [Listing -> Nat]
    /\ Limit \in Nat \ {0}
    /\ MaxOffset \in Nat
    /\ MaxMoves \in Nat

VARIABLES
    public,         \* the listings whose publicationStatus is approved
    moves,          \* bounded
    scan,           \* what the browser has of the catalog
    history         \* what moved since the scan began; no action looks at it

catalog == <<public, moves, scan, history>>

----------------------------------------------------------------------------

\* `last` is in a set that is empty for the first page; `shown` counts how often each
\* listing is on the pages loaded so far.
Scans == [ sort   : {"newest", "price_asc"},
           phase  : {"off", "more", "end", "refused"},
           last   : SUBSET Listing,
           offset : Nat,
           shown  : [Listing -> Nat] ]

Histories == [stayed : SUBSET Listing, entered : Nat, left : Nat]

CatalogTypeOK ==
    /\ public \subseteq Listing
    /\ moves \in 0..MaxMoves
    /\ scan \in Scans
    /\ history \in Histories

NoScan == [ sort |-> "newest", phase |-> "off", last |-> {}, offset |-> 0,
            shown |-> [l \in Listing |-> 0] ]

NoHistory == [stayed |-> {}, entered |-> 0, left |-> 0]

CatalogInit ==
    /\ public \in SUBSET Listing
    /\ moves = 0
    /\ scan = NoScan
    /\ history = NoHistory

----------------------------------------------------------------------------

\* Mutant: the cursor is the time alone.
NewerByTime(a, b) == CreatedAt[a] > CreatedAt[b]

\* createdAt desc, _id desc.  The filter for the rows after a cursor is the same order.
Newer(a, b) ==
    \/ CreatedAt[a] > CreatedAt[b]
    \/ CreatedAt[a] = CreatedAt[b] /\ a > b

AfterCursor(last, l) == \A k \in last : Newer(k, l)

\* pricing.amountBdt asc, _id asc; the other offset sorts differ in the key alone.
Cheaper(a, b) ==
    \/ Price[a] < Price[b]
    \/ Price[a] = Price[b] /\ a < b

Precedes(sort, a, b) == IF sort = "newest" THEN Newer(a, b) ELSE Cheaper(a, b)

\* sort(...).limit(n) on a set of rows.
FirstOf(sort, rows, n) ==
    { l \in rows : Cardinality({ k \in rows : Precedes(sort, k, l) }) < n }

\* The rows from where the page starts.
Rest(s) ==
    IF s.sort = "newest" THEN { l \in public : AfterCursor(s.last, l) }
                         ELSE public \ FirstOf(s.sort, public, s.offset)

LastOf(sort, rows) == { l \in rows : \A k \in rows \ {l} : Precedes(sort, k, l) }

\* Mutant: the last row of a page is the first of the next.
NextOffsetOneShort(offset) == offset + Limit - 1

NextOffset(offset) == offset + Limit

\* A cursor past the limit is answered with an error, also when the API handed it out.
Page(s) ==
    LET rest  == Rest(s)
        items == FirstOf(s.sort, rest, Limit)
    IN  IF s.sort # "newest" /\ s.offset > MaxOffset
        THEN [s EXCEPT !.phase = "refused"]
        ELSE [s EXCEPT !.phase  = IF Cardinality(rest) > Limit THEN "more" ELSE "end",
                       !.last   = IF s.sort = "newest" THEN LastOf(s.sort, items) ELSE {},
                       !.offset = IF s.sort = "newest" THEN 0 ELSE NextOffset(s.offset),
                       !.shown  = [l \in Listing |->
                                      IF l \in items THEN s.shown[l] + 1 ELSE s.shown[l]]]

----------------------------------------------------------------------------

\* The catalog is opened, another sort is chosen, or the query is fetched anew.
Browse(sort) ==
    /\ scan' = Page([NoScan EXCEPT !.sort = sort])
    /\ history' = [NoHistory EXCEPT !.stayed = public]
    /\ UNCHANGED <<public, moves>>

LoadMore ==
    /\ scan.phase = "more"
    /\ scan' = Page(scan)
    /\ UNCHANGED <<public, moves, history>>

\* An approval, a reinstatement.
Enters(l) ==
    /\ moves < MaxMoves
    /\ l \notin public
    /\ public' = public \cup {l}
    /\ moves' = moves + 1
    /\ history' = [history EXCEPT !.entered = @ + 1]
    /\ UNCHANGED scan

\* A withdrawal, a takedown, and with it the restored draft's deletion.
Leaves(l) ==
    /\ moves < MaxMoves
    /\ l \in public
    /\ public' = public \ {l}
    /\ moves' = moves + 1
    /\ history' = [history EXCEPT !.stayed = @ \ {l}, !.left = @ + 1]
    /\ UNCHANGED scan

----------------------------------------------------------------------------

Skipped == { l \in history.stayed : scan.shown[l] = 0 }

Repeated == { l \in Listing : scan.shown[l] > 1 }

\* By age, no listing is shown twice, and one that stayed public is missing only while
\* there are pages to come, whatever enters and leaves (listings.service.ts 243-264,
\* 872-873).
KeysetScanIsExact ==
    scan.sort = "newest" =>
        /\ Repeated = {}
        /\ scan.phase = "end" => Skipped = {}

\* By offset, a listing that left may hide one that stayed, and one that entered may
\* show one twice, but no more than one each (listings.service.ts 223-241).
OffsetScanDrifts ==
    scan.sort # "newest" =>
        /\ Cardinality({ l \in history.stayed : scan.shown[l] > 1 }) <= history.entered
        /\ scan.phase = "end" => Cardinality(Skipped) <= history.left
===========================================================================
