------------------------ MODULE ListingFieldsProofs ------------------------
(***************************************************************************)
(* Proofs about ListingFields, for any geography, any number of seeds and  *)
(* requests, any bodies and secrets.  Three arguments of their own: what a *)
(* seed has reached, what a request has resolved, and what a request that  *)
(* nothing overtook still knows of the two fields of a part.               *)
(*                                                                         *)
(* The last section is about LocationEditor, which chooses the places an   *)
(* update sends.                                                           *)
(***************************************************************************)
EXTENDS ListingFields, TLAPS

Served(s) == request[s] # NoRequest

WellFormed == TypeOK /\ \A s \in Slot : Served(s) => listing # NoListing

\* A seed has written the levels above its own, and of its own all but what is left.
SeedsAdvance ==
    /\ \A s \in Seeder :
           /\ seeder[s].level = 1 => Division \subseteq rows \cup seeder[s].left
           /\ seeder[s].level > 1 => Division \subseteq rows
           /\ seeder[s].level = 2 => District \subseteq rows \cup seeder[s].left
           /\ seeder[s].level > 2 => District \subseteq rows
           /\ seeder[s].level = 3 => Upazila \subseteq rows \cup seeder[s].left
           /\ seeder[s].level > 3 => Upazila \subseteq rows
           /\ seeder[s].level = 4 => Area \subseteq rows \cup seeder[s].left
    /\ seeded => rows = Place

Located(c) == IsNested(c) /\ PlacesOf(c) \cup {Parent[c.district]} \subseteq rows

LocationsResolved ==
    /\ listing # NoListing /\ listing.location # NoPlace => Located(listing.location)
    /\ \A s \in Slot :
           Served(s) /\ request[s].resolved /\ request[s].body.location # Omitted
               => Located(request[s].body.location)

FlagOf(doc) == doc.isGroupPurchase = (doc.transactionType = Shared)

KindAsRead(s) ==
    Served(s) /\ "kind" \notin request[s].overtaken =>
        /\ listing # NoListing
        /\ listing.transactionType = request[s].read.transactionType
        /\ listing.isGroupPurchase = request[s].read.isGroupPurchase

KindsDated ==
    /\ \A s \in Slot : KindAsRead(s)
    /\ listing # NoListing /\ "kind" \notin mixed => FlagOf(listing)

PointOf(doc) ==
    IF doc.exactPoint = NoPin THEN doc.displayPoint = NoPin
    ELSE \E x \in Secret : doc.displayPoint = Fuzz(x, doc.exactPoint)

PinAsRead(s) ==
    Served(s) /\ "pin" \notin request[s].overtaken =>
        /\ listing # NoListing
        /\ listing.exactPoint = request[s].read.exactPoint
        /\ listing.displayPoint = request[s].read.displayPoint

PinsDated ==
    /\ \A s \in Slot : PinAsRead(s)
    /\ listing # NoListing /\ "pin" \notin mixed => PointOf(listing)

----------------------------------------------------------------------------

LEMMA Parts ==
    ASSUME NEW body
    PROVE  /\ PartsOf(body) \subseteq Part
           /\ "kind" \in PartsOf(body) <=> body.kind # Omitted
           /\ "pin" \in PartsOf(body) <=> body.pin # Omitted
BY DEF PartsOf, Part

LEMMA ChangedType ==
    ASSUME NEW doc \in Document, NEW body \in Body, NEW x \in Secret
    PROVE  Changed(doc, body, x) \in Document
<1>1. body.kind \in Kind \cup {Omitted} /\ body.location \in Chain \cup {Omitted}
      /\ body.pin \in Pin \cup {NoPin, Omitted}
  BY FieldsAssumption
<1>2. GroupFlag(body.kind, doc) \in BOOLEAN
  BY FieldsAssumption DEF GroupFlag, Document
<1>3. body.pin # Omitted => Display(x, body.pin, doc.displayPoint) \in PublicPoint \cup {NoPin}
  BY <1>1 DEF Display, Fuzz, PublicPoint
<1> QED
  BY <1>1, <1>2, <1>3 DEF Changed, Document

\* A save writes the fields that differ from what was read, and no other.
LEMMA Merged ==
    ASSUME TypeOK, NEW s \in Slot, Save(s), listing # NoListing
    PROVE  LET r   == request[s]
               new == Changed(r.read, r.body, r.secret)
           IN  /\ listing' \in Document
               /\ \A f \in {"transactionType", "isGroupPurchase", "location", "exactPoint",
                            "displayPoint"} :
                      listing'[f] = IF new[f] = r.read[f] THEN listing[f] ELSE new[f]
<1> DEFINE r   == request[s]
           new == Changed(r.read, r.body, r.secret)
           fields == {"transactionType", "isGroupPurchase", "location", "exactPoint",
                      "displayPoint"}
<1>1. r \in Request /\ listing \in Document
  BY DEF TypeOK, Save
<1>2. new \in Document /\ r.read \in Document
  BY <1>1, ChangedType DEF Request
<1>3. DOMAIN listing = fields
  BY <1>1 DEF Document
<1>4. listing' = [f \in fields |-> IF new[f] = r.read[f] THEN listing[f] ELSE new[f]]
  BY <1>3 DEF Save
<1>5. \A f \in fields : listing'[f] = IF new[f] = r.read[f] THEN listing[f] ELSE new[f]
  BY <1>4
<1>6. listing' \in Document
  <2> HIDE DEF new, r
  <2>1. listing' = [ transactionType |-> listing'["transactionType"],
                     isGroupPurchase |-> listing'["isGroupPurchase"],
                     location        |-> listing'["location"],
                     exactPoint      |-> listing'["exactPoint"],
                     displayPoint    |-> listing'["displayPoint"] ]
    BY <1>4
  <2>2. /\ listing'["transactionType"] \in Kind
        /\ listing'["isGroupPurchase"] \in BOOLEAN
        /\ listing'["location"] \in Chain \cup {NoPlace}
        /\ listing'["exactPoint"] \in Pin \cup {NoPin}
        /\ listing'["displayPoint"] \in PublicPoint \cup {NoPin}
    BY <1>1, <1>2, <1>5 DEF Document
  <2> QED
    BY <2>1, <2>2 DEF Document
<1> QED
  BY <1>5, <1>6

LEMMA SeedTypes ==
    ASSUME GeoTypeOK, GeoNext
    PROVE  GeoTypeOK'
<1> SUFFICES ASSUME NEW s \in Seeder,
                    \/ SeedStarts(s) \/ UpsertRow(s) \/ NextLevel(s) \/ SeedEnds(s) \/ SeedDies(s)
             PROVE  GeoTypeOK'
  BY DEF GeoNext
<1>1. CASE SeedStarts(s)
  BY <1>1 DEF SeedStarts, GeoTypeOK, Place
<1>2. CASE UpsertRow(s)
  <2>1. PICK p \in NextRows(s) :
            /\ rows' = rows \cup {p}
            /\ seeder' = [seeder EXCEPT ![s].left = @ \ {p}]
            /\ UNCHANGED seeded
    BY <1>2 DEF UpsertRow
  <2>2. p \in seeder[s].left
    BY <2>1 DEF NextRows
  <2> QED
    BY <2>1, <2>2 DEF GeoTypeOK
<1>3. CASE NextLevel(s)
  <2>1. Levels[seeder[s].level + 1] \in SUBSET Place /\ seeder[s].level + 1 \in 0..4
    BY <1>3 DEF NextLevel, Levels, Place, GeoTypeOK
  <2> QED
    BY <1>3, <2>1 DEF NextLevel, GeoTypeOK
<1>4. CASE SeedEnds(s)
  BY <1>4 DEF SeedEnds, GeoTypeOK, Off
<1>5. CASE SeedDies(s)
  BY <1>5 DEF SeedDies, GeoTypeOK, Off
<1> QED
  BY <1>1, <1>2, <1>3, <1>4, <1>5

LEMMA WellFormedAlways == Spec => []WellFormed
<1>1. Init => WellFormed
  <2> SUFFICES ASSUME Init PROVE WellFormed
    OBVIOUS
  <2>1. GeoTypeOK
    <3>1. Off \in [level : 0..4, left : SUBSET Place]
      BY DEF Off
    <3> QED
      BY <3>1 DEF Init, GeoInit, GeoTypeOK
  <2>2. updates \in 0..MaxUpdates
    BY FieldsAssumption DEF Init
  <2> QED
    BY <2>1, <2>2 DEF Init, TypeOK, WellFormed, Served
<1>2. WellFormed /\ [Next]_vars => WellFormed'
  <2> SUFFICES ASSUME WellFormed, [Next]_vars PROVE WellFormed'
    OBVIOUS
  <2>0. TypeOK
    BY DEF WellFormed
  <2>1. CASE UNCHANGED vars
    BY <2>1 DEF vars, geo, TypeOK, GeoTypeOK, WellFormed, Served
  <2>2. CASE GeoNext /\ UNCHANGED <<listing, request, updates, secret, mixed>>
    BY <2>2, SeedTypes DEF TypeOK, WellFormed, Served
  <2>3. ASSUME NEW b \in Body, CreateDraft(b) PROVE WellFormed'
    <3>1. b.kind \in Kind /\ b.location \in Chain \cup {Omitted} /\ b.pin \in Pin \cup {NoPin, Omitted}
      BY <2>3, FieldsAssumption DEF CreateDraft
    <3>2. listing' \in Document
      <4> DEFINE pin == IF b.pin = Omitted THEN NoPin ELSE b.pin
      <4>1. pin \in Pin \cup {NoPin}
        BY <3>1
      <4> HIDE DEF pin
      <4>2. Display(secret, pin, NoPin) \in PublicPoint \cup {NoPin}
        BY <2>0, <4>1 DEF Display, Fuzz, PublicPoint, TypeOK
      <4>3. listing' = [ transactionType |-> b.kind,
                         isGroupPurchase |-> b.kind = Shared,
                         location        |-> IF b.location = Omitted THEN NoPlace ELSE b.location,
                         exactPoint      |-> pin,
                         displayPoint    |-> Display(secret, pin, NoPin) ]
        BY <2>3 DEF CreateDraft, pin
      <4> QED
        BY <3>1, <4>1, <4>2, <4>3 DEF Document
    <3> QED
      BY <2>0, <2>3, <3>2, DocumentAssumption DEF CreateDraft, TypeOK, GeoTypeOK, geo, WellFormed, Served
  <2>4. ASSUME NEW s \in Slot, NEW b \in Body, Update(s, b) PROVE WellFormed'
    <3>1. updates' \in 0..MaxUpdates
      BY <2>0, <2>4, FieldsAssumption DEF Update, TypeOK
    <3>2. [ body |-> b, read |-> listing, secret |-> secret,
            resolved |-> b.location = Omitted, overtaken |-> {} ] \in Request
      BY <2>0, <2>4 DEF Update, TypeOK, Request, Part
    <3> QED
      BY <2>0, <2>4, <3>1, <3>2 DEF Update, TypeOK, GeoTypeOK, geo, WellFormed, Served
  <2>5. ASSUME NEW s \in Slot, ResolveLocation(s) PROVE WellFormed'
    <3>1. request[s] \in Request
      BY <2>0, <2>5 DEF ResolveLocation, TypeOK
    <3>2. [request[s] EXCEPT !.resolved = TRUE] \in Request
      BY <3>1 DEF Request
    <3> QED
      BY <2>0, <2>5, <3>2 DEF ResolveLocation, TypeOK, GeoTypeOK, geo, WellFormed, Served
  <2>6. ASSUME NEW s \in Slot, Save(s) PROVE WellFormed'
    <3>1. listing # NoListing /\ request[s] \in Request
      BY <2>0, <2>6 DEF WellFormed, Served, Save, TypeOK
    <3>2. listing' \in Document /\ listing' # NoListing
      BY <2>0, <2>6, <3>1, Merged, DocumentAssumption
    <3>3. \A t \in Slot : request'[t] \in Request \cup {NoRequest}
      <4> SUFFICES ASSUME NEW t \in Slot, t # s, request[t] # NoRequest
                   PROVE  [request[t] EXCEPT !.overtaken = @ \cup PartsOf(request[s].body)] \in Request
        BY <2>0, <2>6 DEF Save, TypeOK
      <4>1. request[t] \in Request /\ PartsOf(request[s].body) \subseteq Part
        BY <2>0, Parts DEF TypeOK
      <4> QED
        BY <4>1 DEF Request
    <3>4. request' \in [Slot -> Request \cup {NoRequest}]
      BY <2>6, <3>3 DEF Save
    <3>5. mixed' \subseteq Part
      BY <2>0, <2>6, Parts DEF Save, MixedBy, TypeOK
    <3> QED
      BY <2>0, <2>6, <3>2, <3>4, <3>5 DEF Save, TypeOK, GeoTypeOK, geo, WellFormed
  <2>7. ASSUME NEW s \in Slot, Abort(s) PROVE WellFormed'
    BY <2>0, <2>7 DEF Abort, TypeOK, GeoTypeOK, geo, WellFormed, Served
  <2>8. CASE Rotate
    BY <2>0, <2>8 DEF Rotate, TypeOK, GeoTypeOK, geo, WellFormed, Served
  <2> QED
    BY <2>1, <2>2, <2>3, <2>4, <2>5, <2>6, <2>7, <2>8 DEF Next
<1> QED
  BY <1>1, <1>2, PTL DEF Spec

\* Type correctness of a listing's fields.
THEOREM TypeCorrect == Spec => []TypeOK
BY WellFormedAlways, PTL DEF WellFormed

----------------------------------------------------------------------------
(* The location.                                                           *)

LEMMA SeedsAdvanceAlways == Spec => []SeedsAdvance
<1>1. Init => SeedsAdvance
  BY DEF Init, GeoInit, Off, SeedsAdvance
<1>2. GeoTypeOK /\ GeoTypeOK' /\ SeedsAdvance /\ GeoNext => SeedsAdvance'
  <2> SUFFICES ASSUME GeoTypeOK, GeoTypeOK', SeedsAdvance, NEW s \in Seeder,
                      \/ SeedStarts(s) \/ UpsertRow(s) \/ NextLevel(s) \/ SeedEnds(s) \/ SeedDies(s)
               PROVE  SeedsAdvance'
    BY DEF GeoNext
  <2>0. seeder \in [Seeder -> [level : 0..4, left : SUBSET Place]] /\ rows' \subseteq Place
    BY DEF GeoTypeOK
  <2>1. CASE SeedStarts(s)
    BY <2>0, <2>1 DEF SeedStarts, SeedsAdvance
  <2>2. CASE UpsertRow(s)
    <3>1. PICK p \in NextRows(s) :
              /\ rows' = rows \cup {p}
              /\ seeder' = [seeder EXCEPT ![s].left = @ \ {p}]
              /\ UNCHANGED seeded
      BY <2>2 DEF UpsertRow
    <3> QED
      BY <2>0, <3>1 DEF SeedsAdvance
  <2>3. CASE NextLevel(s)
    <3>1. Levels[1] = Division /\ Levels[2] = District /\ Levels[3] = Upazila /\ Levels[4] = Area
      BY DEF Levels
    <3>2. seeder[s].level \in 1..3 /\ seeder[s].left = {} /\ UNCHANGED <<rows, seeded>>
      BY <2>3 DEF NextLevel, LevelDone
    <3>3. seeder' = [seeder EXCEPT ![s] = [level |-> seeder[s].level + 1,
                                           left  |-> Levels[seeder[s].level + 1]]]
      BY <2>3 DEF NextLevel
    <3>4. \A t \in Seeder \ {s} : seeder'[t] = seeder[t]
      BY <2>0, <3>3
    <3>5. CASE seeder[s].level = 1
      BY <2>0, <3>1, <3>2, <3>3, <3>4, <3>5 DEF SeedsAdvance
    <3>6. CASE seeder[s].level = 2
      BY <2>0, <3>1, <3>2, <3>3, <3>4, <3>6 DEF SeedsAdvance
    <3>7. CASE seeder[s].level = 3
      BY <2>0, <3>1, <3>2, <3>3, <3>4, <3>7 DEF SeedsAdvance
    <3> QED
      BY <3>2, <3>5, <3>6, <3>7
  <2>4. CASE SeedEnds(s)
    <3>1. Division \cup District \cup Upazila \cup Area \subseteq rows
      BY <2>4 DEF SeedEnds, LevelDone, SeedsAdvance
    <3> QED
      BY <2>0, <2>4, <3>1 DEF SeedEnds, SeedsAdvance, Place, Off
  <2>5. CASE SeedDies(s)
    BY <2>0, <2>5 DEF SeedDies, SeedsAdvance, Off
  <2> QED
    BY <2>1, <2>2, <2>3, <2>4, <2>5
<1>3. UNCHANGED geo /\ SeedsAdvance => SeedsAdvance'
  BY DEF geo, SeedsAdvance
<1>4. [Next]_vars => GeoNext \/ UNCHANGED geo
  BY DEF Next, vars, CreateDraft, Update, ResolveLocation, Save, Abort, Rotate
<1>5. TypeOK /\ TypeOK' /\ SeedsAdvance /\ [Next]_vars => SeedsAdvance'
  BY <1>2, <1>3, <1>4 DEF TypeOK
<1> QED
  BY <1>1, <1>5, TypeCorrect, PTL DEF Spec

LEMMA ResolvedIsLocated ==
    ASSUME NEW c \in Chain, Resolves(c)
    PROVE  Located(c)
BY DEF Resolves, Located, IsNested, PlacesOf, Chain

\* Rows are never removed.
LEMMA RowsGrow ==
    ASSUME [Next]_vars
    PROVE  /\ rows \subseteq rows'
           /\ \A c : Located(c) => Located(c)'
<1>1. rows \subseteq rows'
  BY DEF Next, vars, geo, GeoNext, SeedStarts, UpsertRow, NextLevel, SeedEnds, SeedDies,
         CreateDraft, Update, ResolveLocation, Save, Abort, Rotate
<1> QED
  BY <1>1 DEF Located

LEMMA LocationsResolvedAlways == Spec => []LocationsResolved
<1>1. Init => LocationsResolved
  BY DEF Init, LocationsResolved, Served
<1>2. WellFormed /\ LocationsResolved /\ [Next]_vars => LocationsResolved'
  <2> SUFFICES ASSUME WellFormed, LocationsResolved, [Next]_vars PROVE LocationsResolved'
    OBVIOUS
  <2>0. /\ TypeOK
        /\ \A c : Located(c) => Located(c)'
        /\ \A b \in Body : b.location \in Chain \cup {Omitted}
    BY RowsGrow, FieldsAssumption DEF WellFormed
  <2>1. CASE UNCHANGED <<listing, request>>
    BY <2>0, <2>1 DEF LocationsResolved, Served
  <2>2. ASSUME NEW b \in Body, CreateDraft(b) PROVE LocationsResolved'
    <3>1. b.location # Omitted => Located(b.location)
      BY <2>0, <2>2, ResolvedIsLocated DEF CreateDraft
    <3>2. listing'.location = IF b.location = Omitted THEN NoPlace ELSE b.location
      BY <2>2 DEF CreateDraft
    <3>3. UNCHANGED request
      BY <2>2 DEF CreateDraft
    <3> QED
      BY <2>0, <3>1, <3>2, <3>3 DEF LocationsResolved, Served
  <2>3. ASSUME NEW s \in Slot, NEW b \in Body, Update(s, b) PROVE LocationsResolved'
    <3>1. /\ UNCHANGED listing
          /\ request'[s].resolved => request'[s].body.location = Omitted
          /\ \A t \in Slot \ {s} : request'[t] = request[t]
      BY <2>0, <2>3 DEF Update, TypeOK
    <3> QED
      BY <2>0, <3>1 DEF LocationsResolved, Served
  <2>4. ASSUME NEW s \in Slot, ResolveLocation(s) PROVE LocationsResolved'
    <3>1. request[s] \in Request
      BY <2>0, <2>4 DEF ResolveLocation, TypeOK
    <3>2. /\ UNCHANGED listing
          /\ \A t \in Slot \ {s} : request'[t] = request[t]
          /\ \/ request'[s] = NoRequest
             \/ request'[s].body = request[s].body /\ Resolves(request[s].body.location)
      BY <2>0, <2>4, <3>1 DEF ResolveLocation, TypeOK, Request
    <3>3. request[s].body.location # Omitted /\ Resolves(request[s].body.location)
              => Located(request[s].body.location)
      BY <2>0, <3>1, ResolvedIsLocated DEF Request
    <3> QED
      BY <2>0, <3>2, <3>3 DEF LocationsResolved, Served
  <2>5. ASSUME NEW s \in Slot, Save(s) PROVE LocationsResolved'
    <3>1. listing # NoListing /\ request[s] \in Request
      BY <2>0, <2>5 DEF WellFormed, Served, Save, TypeOK
    <3>2. \/ listing'.location = listing.location
          \/ /\ request[s].body.location # Omitted
             /\ listing'.location = request[s].body.location
      <4>1. LET new == Changed(request[s].read, request[s].body, request[s].secret) IN
            listing'["location"] = IF new["location"] = request[s].read["location"]
                                   THEN listing["location"] ELSE new["location"]
        BY <2>0, <2>5, <3>1, Merged
      <4> QED
        BY <4>1 DEF Changed
    <3>3. \A c : c = request[s].body.location /\ c # Omitted => Located(c)'
      BY <2>0, <2>5 DEF Save, LocationsResolved, Served
    <3>4. \A t \in Slot : Served(t)' => /\ Served(t)
                                        /\ request'[t].body = request[t].body
                                        /\ request'[t].resolved = request[t].resolved
      <4> SUFFICES ASSUME NEW t \in Slot, Served(t)'
                   PROVE  /\ Served(t)
                          /\ request'[t].body = request[t].body
                          /\ request'[t].resolved = request[t].resolved
        OBVIOUS
      <4>1. Served(t) /\ t # s /\ request[t] \in Request
        BY <2>0, <2>5 DEF Save, Served, TypeOK
      <4>2. request'[t] = [request[t] EXCEPT !.overtaken = @ \cup PartsOf(request[s].body)]
        BY <2>5, <4>1 DEF Save, Served
      <4> QED
        BY <4>1, <4>2 DEF Request
    <3>5. \A c : c = listing'.location /\ c # NoPlace => Located(c)'
      BY <2>0, <3>1, <3>2, <3>3 DEF LocationsResolved
    <3>6. \A t \in Slot : Served(t)' /\ request'[t].resolved /\ request'[t].body.location # Omitted
              => \A c : c = request'[t].body.location => Located(c)'
      BY <2>0, <3>4 DEF LocationsResolved
    <3> QED
      BY <3>5, <3>6 DEF LocationsResolved
  <2>6. ASSUME NEW s \in Slot, Abort(s) PROVE LocationsResolved'
    BY <2>0, <2>6 DEF Abort, LocationsResolved, Served, TypeOK
  <2> QED
    BY <2>1, <2>2, <2>3, <2>4, <2>5, <2>6 DEF Next, Rotate, vars
<1> QED
  BY <1>1, <1>2, WellFormedAlways, PTL DEF Spec

\* However many seeds run and die, and however updates overlap, the stored location is a
\* nested chain of places in the database; and one completed seed is enough.
THEOREM ChainIsSound == Spec => []StoredChainIsSound
<1>1. SeedsAdvance /\ LocationsResolved => StoredChainIsSound
  BY DEF SeedsAdvance, LocationsResolved, Located, StoredChainIsSound
<1> QED
  BY <1>1, SeedsAdvanceAlways, LocationsResolvedAlways, PTL

----------------------------------------------------------------------------
(* The flag and the public point.                                          *)

\* What a save leaves of the requests, and of the parts that may be mixed.
LEMMA AfterSave ==
    ASSUME WellFormed, NEW s \in Slot, Save(s)
    PROVE  /\ request[s] \in Request /\ listing \in Document /\ listing' \in Document
           /\ \A t \in Slot : Served(t)' =>
                  /\ Served(t) /\ request[t] \in Request
                  /\ request'[t].read = request[t].read
                  /\ request'[t].overtaken = request[t].overtaken \cup PartsOf(request[s].body)
           /\ mixed' = MixedBy(request[s])
<1>0. TypeOK /\ listing # NoListing
  BY DEF WellFormed, Served, Save
<1>1. request[s] \in Request /\ listing \in Document /\ listing' \in Document
  BY <1>0, Merged DEF TypeOK, Save
<1>2. ASSUME NEW t \in Slot, Served(t)'
      PROVE  /\ Served(t) /\ request[t] \in Request
             /\ request'[t].read = request[t].read
             /\ request'[t].overtaken = request[t].overtaken \cup PartsOf(request[s].body)
  <2>1. Served(t) /\ t # s /\ request[t] \in Request
    BY <1>0, <1>2 DEF Save, Served, TypeOK
  <2>2. request'[t] = [request[t] EXCEPT !.overtaken = @ \cup PartsOf(request[s].body)]
    BY <2>1 DEF Save, Served
  <2> QED
    BY <2>1, <2>2 DEF Request
<1> QED
  BY <1>1, <1>2 DEF Save

LEMMA KindsDatedAlways == Spec => []KindsDated
<1>1. Init => KindsDated
  BY DEF Init, KindsDated, KindAsRead, Served
<1>2. WellFormed /\ KindsDated /\ [Next]_vars => KindsDated'
  <2> SUFFICES ASSUME WellFormed, KindsDated, [Next]_vars PROVE KindsDated'
    OBVIOUS
  <2>0. TypeOK
    BY DEF WellFormed
  <2>1. CASE UNCHANGED <<listing, request, mixed>>
    BY <2>1 DEF KindsDated, KindAsRead, Served, FlagOf
  <2>2. ASSUME NEW b \in Body, CreateDraft(b) PROVE KindsDated'
    <3>1. \A s \in Slot : ~Served(s)'
      BY <2>2 DEF CreateDraft, WellFormed, Served
    <3>2. FlagOf(listing')
      BY <2>2 DEF CreateDraft, FlagOf
    <3> QED
      BY <3>1, <3>2 DEF KindsDated, KindAsRead, FlagOf
  <2>3. ASSUME NEW s \in Slot, NEW b \in Body, Update(s, b) PROVE KindsDated'
    <3>1. /\ UNCHANGED <<listing, mixed>> /\ listing # NoListing
          /\ request'[s].read = listing
          /\ \A t \in Slot \ {s} : request'[t] = request[t]
      BY <2>0, <2>3 DEF Update, TypeOK
    <3> QED
      BY <3>1 DEF KindsDated, KindAsRead, Served, FlagOf
  <2>4. ASSUME NEW s \in Slot, ResolveLocation(s) \/ Abort(s) PROVE KindsDated'
    <3>1. request[s] \in Request
      BY <2>0, <2>4 DEF ResolveLocation, Abort, TypeOK
    <3>2. /\ UNCHANGED <<listing, mixed>>
          /\ \A t \in Slot \ {s} : request'[t] = request[t]
          /\ \/ request'[s] = NoRequest
             \/ /\ Served(s) /\ request'[s].read = request[s].read
                /\ request'[s].overtaken = request[s].overtaken
      BY <2>0, <2>4, <3>1 DEF ResolveLocation, Abort, TypeOK, Request, Served
    <3> QED
      BY <3>2 DEF KindsDated, KindAsRead, Served, FlagOf
  <2>5. ASSUME NEW s \in Slot, Save(s) PROVE KindsDated'
    <3> DEFINE r   == request[s]
               new == Changed(r.read, r.body, r.secret)
    <3>1. /\ r \in Request /\ listing \in Document /\ listing' \in Document
          /\ Served(s) /\ listing # NoListing
      BY <2>5, AfterSave DEF Save, Served, WellFormed
    <3>2. /\ listing'["transactionType"] = IF new["transactionType"] = r.read["transactionType"]
                                          THEN listing["transactionType"] ELSE new["transactionType"]
          /\ listing'["isGroupPurchase"] = IF new["isGroupPurchase"] = r.read["isGroupPurchase"]
                                          THEN listing["isGroupPurchase"] ELSE new["isGroupPurchase"]
      BY <2>0, <2>5, <3>1, Merged
    <3>3. /\ new["transactionType"] = IF r.body.kind = Omitted THEN r.read.transactionType
                                                              ELSE r.body.kind
          /\ new["isGroupPurchase"] = IF r.body.kind = Omitted THEN r.read.isGroupPurchase
                                                              ELSE r.body.kind = Shared
      BY DEF Changed, GroupFlag
    <3> HIDE DEF new
    <3>4. CASE r.body.kind = Omitted
      <4>1. /\ listing'.transactionType = listing.transactionType
            /\ listing'.isGroupPurchase = listing.isGroupPurchase
        BY <3>2, <3>3, <3>4
      <4>2. "kind" \in mixed' <=> "kind" \in mixed
        BY <2>5, <3>4, AfterSave, Parts DEF MixedBy
      <4>3. \A t \in Slot : KindAsRead(t)'
        BY <2>5, <3>1, <4>1, AfterSave, DocumentAssumption DEF KindsDated, KindAsRead
      <4> QED
        BY <3>1, <4>1, <4>2, <4>3 DEF KindsDated, FlagOf
    <3>5. CASE r.body.kind # Omitted
      <4>1. "kind" \in PartsOf(r.body)
        BY <3>5, Parts
      <4>2. \A t \in Slot : KindAsRead(t)'
        BY <2>5, <4>1, AfterSave DEF KindAsRead
      <4>3. "kind" \notin mixed' => "kind" \notin r.overtaken
        BY <2>5, <4>1, AfterSave DEF MixedBy
      <4>4. "kind" \notin r.overtaken => FlagOf(listing')
        <5> SUFFICES ASSUME "kind" \notin r.overtaken PROVE FlagOf(listing')
          OBVIOUS
        <5>1. /\ listing.transactionType = r.read.transactionType
              /\ listing.isGroupPurchase = r.read.isGroupPurchase
          BY <3>1 DEF KindsDated, KindAsRead
        <5>2. /\ listing'.transactionType = new["transactionType"]
              /\ listing'.isGroupPurchase = new["isGroupPurchase"]
          BY <3>2, <5>1
        <5> QED
          BY <3>3, <3>5, <5>2 DEF FlagOf
      <4> QED
        BY <4>2, <4>3, <4>4 DEF KindsDated, FlagOf
    <3> QED
      BY <3>4, <3>5
  <2> QED
    BY <2>1, <2>2, <2>3, <2>4, <2>5 DEF Next, Rotate, vars
<1> QED
  BY <1>1, <1>2, WellFormedAlways, PTL DEF Spec

\* However updates of one listing overlap, the flag contradicts the transaction type only
\* where an update of the type was overtaken by another.
THEOREM FlagNeedsOverlap == Spec => []FlagDriftsOnlyByOverlap
<1>1. KindsDated => FlagDriftsOnlyByOverlap
  BY DEF KindsDated, FlagOf, FlagDriftsOnlyByOverlap
<1> QED
  BY <1>1, KindsDatedAlways, PTL

LEMMA PinsDatedAlways == Spec => []PinsDated
<1>1. Init => PinsDated
  BY DEF Init, PinsDated, PinAsRead, Served
<1>2. WellFormed /\ PinsDated /\ [Next]_vars => PinsDated'
  <2> SUFFICES ASSUME WellFormed, PinsDated, [Next]_vars PROVE PinsDated'
    OBVIOUS
  <2>0. TypeOK
    BY DEF WellFormed
  <2>1. CASE UNCHANGED <<listing, request, mixed>>
    BY <2>1 DEF PinsDated, PinAsRead, Served, PointOf
  <2>2. ASSUME NEW b \in Body, CreateDraft(b) PROVE PinsDated'
    <3>1. \A s \in Slot : ~Served(s)'
      BY <2>2 DEF CreateDraft, WellFormed, Served
    <3>2. PointOf(listing')
      <4> DEFINE pin == IF b.pin = Omitted THEN NoPin ELSE b.pin
      <4>1. /\ listing'.exactPoint = pin
            /\ listing'.displayPoint = IF pin = NoPin THEN NoPin ELSE Fuzz(secret, pin)
        BY <2>2 DEF CreateDraft, Display
      <4>2. secret \in Secret
        BY <2>0 DEF TypeOK
      <4> HIDE DEF pin
      <4> QED
        BY <4>1, <4>2 DEF PointOf
    <3> QED
      BY <3>1, <3>2 DEF PinsDated, PinAsRead, PointOf
  <2>3. ASSUME NEW s \in Slot, NEW b \in Body, Update(s, b) PROVE PinsDated'
    <3>1. /\ UNCHANGED <<listing, mixed>> /\ listing # NoListing
          /\ request'[s].read = listing
          /\ \A t \in Slot \ {s} : request'[t] = request[t]
      BY <2>0, <2>3 DEF Update, TypeOK
    <3> QED
      BY <3>1 DEF PinsDated, PinAsRead, Served, PointOf
  <2>4. ASSUME NEW s \in Slot, ResolveLocation(s) \/ Abort(s) PROVE PinsDated'
    <3>1. request[s] \in Request
      BY <2>0, <2>4 DEF ResolveLocation, Abort, TypeOK
    <3>2. /\ UNCHANGED <<listing, mixed>>
          /\ \A t \in Slot \ {s} : request'[t] = request[t]
          /\ \/ request'[s] = NoRequest
             \/ /\ Served(s) /\ request'[s].read = request[s].read
                /\ request'[s].overtaken = request[s].overtaken
      BY <2>0, <2>4, <3>1 DEF ResolveLocation, Abort, TypeOK, Request, Served
    <3> QED
      BY <3>2 DEF PinsDated, PinAsRead, Served, PointOf
  <2>5. ASSUME NEW s \in Slot, Save(s) PROVE PinsDated'
    <3> DEFINE r   == request[s]
               new == Changed(r.read, r.body, r.secret)
    <3>1. /\ r \in Request /\ listing \in Document /\ listing' \in Document
          /\ Served(s) /\ listing # NoListing
      BY <2>5, AfterSave DEF Save, Served, WellFormed
    <3>2. /\ listing'["exactPoint"] = IF new["exactPoint"] = r.read["exactPoint"]
                                     THEN listing["exactPoint"] ELSE new["exactPoint"]
          /\ listing'["displayPoint"] = IF new["displayPoint"] = r.read["displayPoint"]
                                       THEN listing["displayPoint"] ELSE new["displayPoint"]
      BY <2>0, <2>5, <3>1, Merged
    <3>3. /\ new["exactPoint"] = IF r.body.pin = Omitted THEN r.read.exactPoint ELSE r.body.pin
          /\ new["displayPoint"] = IF r.body.pin = Omitted THEN r.read.displayPoint
                                   ELSE Display(r.secret, r.body.pin, r.read.displayPoint)
      BY DEF Changed
    <3> HIDE DEF new
    <3>4. CASE r.body.pin = Omitted
      <4>1. /\ listing'.exactPoint = listing.exactPoint
            /\ listing'.displayPoint = listing.displayPoint
        BY <3>2, <3>3, <3>4
      <4>2. "pin" \in mixed' <=> "pin" \in mixed
        BY <2>5, <3>4, AfterSave, Parts DEF MixedBy
      <4>3. \A t \in Slot : PinAsRead(t)'
        BY <2>5, <3>1, <4>1, AfterSave, DocumentAssumption DEF PinsDated, PinAsRead
      <4> QED
        BY <3>1, <4>1, <4>2, <4>3 DEF PinsDated, PointOf
    <3>5. CASE r.body.pin # Omitted
      <4>1. "pin" \in PartsOf(r.body)
        BY <3>5, Parts
      <4>2. \A t \in Slot : PinAsRead(t)'
        BY <2>5, <4>1, AfterSave DEF PinAsRead
      <4>3. /\ r.secret \in Secret /\ r.body.pin \in Pin \cup {NoPin}
            /\ r.read.exactPoint \in Pin \cup {NoPin}
        BY <3>1, <3>5, FieldsAssumption DEF Request, Document
      <4>4. /\ new["exactPoint"] = r.body.pin
            /\ new["displayPoint"] = IF r.body.pin = NoPin THEN NoPin ELSE Fuzz(r.secret, r.body.pin)
        BY <3>3, <3>5 DEF Display
      \* A save that nothing overtook leaves its own pair.
      <4>5. CASE "pin" \notin r.overtaken
        <5>1. /\ listing'.exactPoint = new["exactPoint"]
              /\ listing'.displayPoint = new["displayPoint"]
          BY <3>1, <3>2, <4>5 DEF PinsDated, PinAsRead
        <5> QED
          BY <4>2, <4>3, <4>4, <5>1 DEF PinsDated, PointOf
      <4>6. CASE "pin" \in r.overtaken /\ HalfStale(r)
        BY <2>5, <4>1, <4>2, <4>6, AfterSave DEF MixedBy, PinsDated
      \* One that read a pair of its own secret writes both points or neither.
      <4>7. CASE "pin" \in r.overtaken /\ ~HalfStale(r)
        <5>1. "pin" \in mixed' <=> "pin" \in mixed
          BY <2>5, <4>1, <4>7, AfterSave DEF MixedBy
        <5>2. r.read.displayPoint = IF r.read.exactPoint = NoPin THEN NoPin
                                    ELSE Fuzz(r.secret, r.read.exactPoint)
          BY <4>7 DEF HalfStale, Display
        <5>3. CASE r.body.pin = r.read.exactPoint
          <6>1. /\ listing'.exactPoint = listing.exactPoint
                /\ listing'.displayPoint = listing.displayPoint
            BY <3>2, <4>4, <5>2, <5>3
          <6> QED
            BY <3>1, <4>2, <5>1, <6>1 DEF PinsDated, PointOf
        <5>4. CASE r.body.pin # r.read.exactPoint
          <6>1. new["displayPoint"] # r.read.displayPoint
            <7>1. \A p, q \in Pin : p # q => Fuzz(r.secret, p) # Fuzz(r.secret, q)
              BY DEF Fuzz
            <7>2. \A p \in Pin : Fuzz(r.secret, p) # NoPin
              BY <4>3, FieldsAssumption DEF Fuzz
            <7> QED
              BY <4>3, <4>4, <5>2, <5>4, <7>1, <7>2
          <6>2. /\ listing'.exactPoint = new["exactPoint"]
                /\ listing'.displayPoint = new["displayPoint"]
            BY <3>2, <4>4, <5>4, <6>1
          <6> QED
            BY <4>2, <4>3, <4>4, <6>2 DEF PinsDated, PointOf
        <5> QED
          BY <5>3, <5>4
      <4> QED
        BY <4>5, <4>6, <4>7
    <3> QED
      BY <3>4, <3>5
  <2> QED
    BY <2>1, <2>2, <2>3, <2>4, <2>5 DEF Next, Rotate, vars
<1> QED
  BY <1>1, <1>2, WellFormedAlways, PTL DEF Spec

\* However updates overlap and the secret changes, the public point is that of the exact
\* point, except where an update of the pin was overtaken and had read a pair that was
\* not drawn with its own secret.
THEOREM PinNeedsRotation == Spec => []PinDriftsOnlyByRotation
<1>1. PinsDated => PinDriftsOnlyByRotation
  BY DEF PinsDated, PointOf, PinDriftsOnlyByRotation
<1> QED
  BY <1>1, PinsDatedAlways, PTL

----------------------------------------------------------------------------
(* The location editor, over the same geography.                           *)

CONSTANT Unsent
VARIABLES chosen, offered, loading, sent

Editor == INSTANCE LocationEditor

\* The area of a chain lies in its upazila.
NestedBelow(c) == c.area # NoPlace => c.upazila = Parent[c.area]

\* The upazila of a chain lies outside its district.
Torn(c) == c.upazila # NoPlace /\ Parent[c.upazila] # c.district

EditorInv ==
    /\ chosen \in Editor!Selection
    /\ NestedBelow(chosen)
    /\ sent # Unsent => NestedBelow(sent)

LEMMA ChoicesNest ==
    ASSUME EditorInv, NEW selection \in Editor!Selection, Editor!Choose(selection),
           NestedBelow(selection)
    PROVE  EditorInv'
BY DEF EditorInv, Editor!Choose

LEMMA EditorStep ==
    ASSUME EditorInv, [Editor!Next]_(Editor!vars)
    PROVE  EditorInv'
<1> USE DEF Editor!Selection
<1>1. CASE UNCHANGED Editor!vars
  BY <1>1 DEF EditorInv, Editor!vars
<1>2. ASSUME NEW level \in Editor!Level, Editor!Loaded(level) \/ Editor!LoadFails(level)
      PROVE  EditorInv'
  BY <1>2 DEF EditorInv, Editor!Loaded, Editor!LoadFails
<1>3. ASSUME NEW v \in Division \cup {NoPlace}, Editor!ChooseDivision(v)
      PROVE  EditorInv'
  <2> DEFINE s == [Editor!Blank EXCEPT !.division = v]
  <2>1. s = [division |-> v, district |-> NoPlace, upazila |-> NoPlace, area |-> NoPlace]
    BY DEF Editor!Blank, Editor!Level
  <2>2. s \in Editor!Selection /\ NestedBelow(s)
    BY <2>1 DEF NestedBelow
  <2> QED
    BY <1>3, <2>2, ChoicesNest DEF Editor!ChooseDivision
<1>4. ASSUME NEW d \in District, Editor!ChooseDistrict(d)
      PROVE  EditorInv'
  <2> DEFINE s == [ division |-> Parent[d], district |-> d,
                    upazila |-> NoPlace, area |-> NoPlace ]
  <2>1. s \in Editor!Selection /\ NestedBelow(s)
    BY GeographyAssumption DEF NestedBelow
  <2> QED
    BY <1>4, <2>1, ChoicesNest DEF Editor!ChooseDistrict
<1>5. ASSUME NEW level, NEW place, NEW S, NEW otherwise \in S,
             Parent[place] \in S
      PROVE  Editor!ParentIfOffered(level, place, otherwise) \in S
  BY <1>5 DEF Editor!ParentIfOffered
<1>6. ASSUME NEW u \in Upazila, Editor!ChooseUpazila(u)
      PROVE  EditorInv'
  <2> DEFINE top == Editor!ParentIfOffered("district", Parent[u], chosen.division)
             s   == [ division |-> top, district |-> Parent[u],
                      upazila |-> u, area |-> NoPlace ]
  <2>1. Parent[u] \in District /\ Parent[Parent[u]] \in Division
    BY GeographyAssumption
  <2>2. top \in Division \cup {NoPlace}
    BY <1>5, <2>1 DEF EditorInv
  <2>3. s \in Editor!Selection /\ NestedBelow(s)
    BY <2>1, <2>2 DEF NestedBelow
  <2> QED
    BY <1>6, <2>3, ChoicesNest DEF Editor!ChooseUpazila
<1>7. ASSUME NEW a \in Area, Editor!ChooseArea(a)
      PROVE  EditorInv'
  <2> DEFINE u   == Parent[a]
             d   == Editor!ParentIfOffered("upazila", u, chosen.district)
             top == IF u \in offered["upazila"]
                    THEN Editor!ParentIfOffered("district", d, chosen.division)
                    ELSE chosen.division
             s   == [division |-> top, district |-> d, upazila |-> u, area |-> a]
  <2>1. u \in Upazila /\ Parent[u] \in District /\ a # NoPlace
    BY GeographyAssumption DEF Place
  <2>2. d \in District \cup {NoPlace}
    BY <1>5, <2>1 DEF EditorInv
  <2>3. top \in Division \cup {NoPlace}
    <3>1. CASE u \in offered["upazila"]
      <4>1. d \in District /\ Parent[d] \in Division
        BY <2>1, <3>1, GeographyAssumption DEF Editor!ParentIfOffered
      <4>2. chosen.division \in Division \cup {NoPlace}
        BY DEF EditorInv
      <4> QED
        BY <3>1, <4>1, <4>2 DEF Editor!ParentIfOffered
    <3>2. CASE u \notin offered["upazila"]
      BY <3>2 DEF EditorInv
    <3> QED
      BY <3>1, <3>2
  <2>4. s \in Editor!Selection /\ NestedBelow(s)
    BY <2>1, <2>2, <2>3 DEF NestedBelow
  <2> QED
    BY <1>7, <2>4, ChoicesNest DEF Editor!ChooseArea
<1>8. CASE Editor!ClearDistrict \/ Editor!ClearUpazila \/ Editor!ClearArea
  <2>1. PICK levels \in SUBSET Editor!Level : "area" \in levels /\ Editor!Clear(levels)
    BY <1>8 DEF Editor!ClearDistrict, Editor!ClearUpazila, Editor!ClearArea, Editor!Level
  <2> DEFINE s == [l \in {"division"} \cup Editor!Level |->
                       IF l \in levels THEN NoPlace ELSE chosen[l]]
  <2>2. s = [ division |-> s.division, district |-> s.district,
              upazila |-> s.upazila, area |-> s.area ]
    BY DEF Editor!Level
  <2>3. /\ s.division \in Division \cup {NoPlace} /\ s.district \in District \cup {NoPlace}
        /\ s.upazila \in Upazila \cup {NoPlace} /\ s.area = NoPlace
    BY <2>1 DEF Editor!Level, EditorInv
  <2>4. s \in Editor!Selection /\ NestedBelow(s)
    <3> HIDE DEF s
    <3> QED
      BY <2>2, <2>3 DEF NestedBelow
  <2> QED
    BY <2>1, <2>4, ChoicesNest DEF Editor!Clear
<1>9. CASE Editor!SendLocation
  <2>1. NestedBelow(sent')
    <3>1. chosen.upazila = NoPlace => chosen.area = NoPlace
      BY GeographyAssumption DEF EditorInv, NestedBelow, Place
    <3> QED
      BY <1>9, <3>1 DEF EditorInv, NestedBelow, Editor!SendLocation
  <2> QED
    BY <1>9, <2>1 DEF EditorInv, Editor!SendLocation
<1> QED
  BY <1>1, <1>2, <1>3, <1>4, <1>6, <1>7, <1>8, <1>9 DEF Editor!Next

LEMMA EditorInit == Editor!Init => EditorInv
<1> SUFFICES ASSUME Editor!Init
             PROVE  EditorInv
  OBVIOUS
<1>1. CASE chosen = Editor!Blank
  <2>1. chosen = [division |-> NoPlace, district |-> NoPlace,
                  upazila |-> NoPlace, area |-> NoPlace]
    BY <1>1 DEF Editor!Blank, Editor!Level
  <2> QED
    BY <2>1 DEF EditorInv, Editor!Init, Editor!Selection, NestedBelow
<1>2. ASSUME NEW c \in Editor!Chain, Editor!IsNested(c), chosen = Editor!Shown(c)
      PROVE  EditorInv
  BY <1>2, GeographyAssumption
  DEF EditorInv, Editor!Init, Editor!Selection, Editor!Chain, Editor!IsNested,
      Editor!Shown, NestedBelow
<1> QED
  BY <1>1, <1>2 DEF Editor!Init

\* An area on offer whose upazila is not.
Unplaced(a) == a \in offered["area"] /\ Parent[a] \notin offered["upazila"]

LEMMA TearingStep ==
    ASSUME EditorInv, [Editor!Next]_(Editor!vars), Torn(chosen'), ~Torn(chosen)
    PROVE  \E a \in Area : Unplaced(a) /\ chosen'.area = a
<1> USE DEF Torn
<1>1. PICK a \in Area : Editor!ChooseArea(a)
  <2>1. chosen' # chosen
    OBVIOUS
  <2>2. ASSUME NEW v \in Division \cup {NoPlace}, Editor!ChooseDivision(v)
        PROVE  FALSE
    BY <2>2 DEF Editor!ChooseDivision, Editor!Choose, Editor!Blank, Editor!Level
  <2>3. ASSUME NEW d \in District, Editor!ChooseDistrict(d)
        PROVE  FALSE
    BY <2>3 DEF Editor!ChooseDistrict, Editor!Choose
  <2>4. ASSUME NEW u \in Upazila, Editor!ChooseUpazila(u)
        PROVE  FALSE
    BY <2>4 DEF Editor!ChooseUpazila, Editor!Choose
  <2>5. ~Editor!ClearDistrict /\ ~Editor!ClearUpazila
    BY DEF Editor!ClearDistrict, Editor!ClearUpazila, Editor!Clear, Editor!Choose,
           Editor!Level
  <2>6. ~Editor!ClearArea
    BY DEF Editor!ClearArea, Editor!Clear, Editor!Choose, Editor!Level
  <2> QED
    BY <2>1, <2>2, <2>3, <2>4, <2>5, <2>6
    DEF Editor!Next, Editor!vars, Editor!Loaded, Editor!LoadFails, Editor!SendLocation
<1>2. a \in offered["area"] /\ chosen'.area = a /\ chosen'.upazila = Parent[a]
  BY <1>1 DEF Editor!ChooseArea, Editor!Choose
<1>3. Parent[a] \in offered["upazila"] => chosen'.district = Parent[Parent[a]]
  BY <1>1 DEF Editor!ChooseArea, Editor!Choose, Editor!ParentIfOffered
<1> QED
  BY <1>2, <1>3 DEF Unplaced

\* What the form sends may fail to be nested (ChainSentIsConsistent), but in one way
\* alone, whatever lists are late or of an earlier choice, and whatever is set back to
\* no place.  An area that is sent lies in the upazila sent with it; and an upazila gets
\* under a district it does not lie in only where an area is chosen whose upazila is
\* not on the list at hand.  It stays there if the area alone is cleared
\* (listing-editor.tsx handleUpazilaChange, handleAreaChange).
THEOREM ChainSentIsNestedBelow ==
    Editor!Spec =>
        /\ [](sent # Unsent /\ sent.area # NoPlace => sent.upazila = Parent[sent.area])
        /\ [][Torn(chosen') /\ ~Torn(chosen) =>
                  \E a \in Area : Unplaced(a) /\ chosen'.area = a]_(Editor!vars)
<1>1. EditorInv /\ sent # Unsent /\ sent.area # NoPlace => sent.upazila = Parent[sent.area]
  BY DEF EditorInv, NestedBelow
<1>2. EditorInv /\ [Editor!Next]_(Editor!vars) =>
          [Torn(chosen') /\ ~Torn(chosen) =>
               \E a \in Area : Unplaced(a) /\ chosen'.area = a]_(Editor!vars)
  BY TearingStep
<1> QED
  BY <1>1, <1>2, EditorInit, EditorStep, PTL DEF Editor!Spec
============================================================================
