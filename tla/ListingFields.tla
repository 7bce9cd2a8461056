--------------------------- MODULE ListingFields ---------------------------
(***************************************************************************)
(* The content of one listing under overlapping updates                    *)
(* (listings.service.ts createDraft and update, listing-pin.ts), over a    *)
(* geography that may still be being seeded.  An update changes the        *)
(* document it read, and Mongoose writes the fields that differ from what  *)
(* was read, so two updates may each write a part of what belongs together.*)
(* That an update is refused outside draft and rejected is                 *)
(* ListingLifecycle's.                                                     *)
(***************************************************************************)
EXTENDS GeoTaxonomy

CONSTANTS
    Slot,           \* requests served at the same time
    Kind,           \* TransactionType
    Shared,         \* "shared_ownership"
    Pin,            \* exact points
    Secret,         \* secrets of the pin's offset: rotated, or drawn by a restart
    Body,           \* the update bodies of this instance
    Omitted,        \* a part a body leaves out
    NoPin, NoListing, NoRequest,
    MaxUpdates      \* bound: updates in the life of the listing

ASSUME FieldsAssumption ==
    /\ MaxUpdates \in Nat
    /\ Shared \in Kind
    /\ NoPin \notin Pin \cup [by : Secret, pin : Pin]
    /\ Omitted \notin Kind \cup Chain \cup Pin \cup {NoPin}
    /\ Body \subseteq [ kind     : Kind \cup {Omitted},
                        location : Chain \cup {Omitted},
                        pin      : Pin \cup {NoPin, Omitted} ]

VARIABLES
    listing,        \* the stored document
    request,        \* what each slot serves, with the document it read
    updates,        \* bounded
    secret,         \* the secret of the processes that answer now
    mixed           \* the parts whose two fields may disagree; no action looks at it

vars == <<geo, listing, request, updates, secret, mixed>>

----------------------------------------------------------------------------

\* The offset is a function of the secret and the point.
Fuzz(s, pin) == [by |-> s, pin |-> pin]

PublicPoint == [by : Secret, pin : Pin]

Document == [ transactionType : Kind,
              isGroupPurchase : BOOLEAN,
              location        : Chain \cup {NoPlace},
              exactPoint      : Pin \cup {NoPin},
              displayPoint    : PublicPoint \cup {NoPin} ]

ASSUME DocumentAssumption == NoListing \notin Document

Part == {"kind", "pin"}

\* `overtaken`: the parts another update has saved since this one read.
Request == [ body : Body, read : Document, secret : Secret,
             resolved : BOOLEAN, overtaken : SUBSET Part ]

TypeOK ==
    /\ GeoTypeOK
    /\ listing \in Document \cup {NoListing}
    /\ request \in [Slot -> Request \cup {NoRequest}]
    /\ updates \in 0..MaxUpdates
    /\ secret \in Secret
    /\ mixed \subseteq Part

Init ==
    /\ GeoInit
    /\ listing = NoListing
    /\ request = [s \in Slot |-> NoRequest]
    /\ updates = 0
    /\ secret \in Secret
    /\ mixed = {}

----------------------------------------------------------------------------

\* Mutant: an update leaves the flag as it was.
GroupFlagKept(kind, old) == old.isGroupPurchase

GroupFlag(kind, old) == IF kind = Omitted THEN old.isGroupPurchase ELSE kind = Shared

\* Mutant: the public point is drawn once and kept.
DisplayKept(s, pin, old) == IF old = NoPin /\ pin # NoPin THEN Fuzz(s, pin) ELSE old

Display(s, pin, old) == IF pin = NoPin THEN NoPin ELSE Fuzz(s, pin)

\* The document in memory, once the body's fields are set on it.
Changed(doc, body, s) ==
    [ transactionType |-> IF body.kind = Omitted THEN doc.transactionType ELSE body.kind,
      isGroupPurchase |-> GroupFlag(body.kind, doc),
      location        |-> IF body.location = Omitted THEN doc.location ELSE body.location,
      exactPoint      |-> IF body.pin = Omitted THEN doc.exactPoint ELSE body.pin,
      displayPoint    |-> IF body.pin = Omitted THEN doc.displayPoint
                          ELSE Display(s, body.pin, doc.displayPoint) ]

\* createDraft writes the whole document.
CreateDraft(body) ==
    /\ listing = NoListing
    /\ body.kind # Omitted
    /\ body.location # Omitted => Resolves(body.location)
    /\ LET pin == IF body.pin = Omitted THEN NoPin ELSE body.pin IN
       listing' = [ transactionType |-> body.kind,
                    isGroupPurchase |-> body.kind = Shared,
                    location        |-> IF body.location = Omitted THEN NoPlace ELSE body.location,
                    exactPoint      |-> pin,
                    displayPoint    |-> Display(secret, pin, NoPin) ]
    /\ UNCHANGED <<geo, request, updates, secret, mixed>>

Update(s, body) ==
    /\ listing # NoListing
    /\ request[s] = NoRequest
    /\ updates < MaxUpdates
    /\ updates' = updates + 1
    /\ request' = [request EXCEPT ![s] =
                      [ body |-> body, read |-> listing, secret |-> secret,
                        resolved |-> body.location = Omitted, overtaken |-> {} ]]
    /\ UNCHANGED <<geo, listing, secret, mixed>>

ResolveLocation(s) ==
    /\ request[s] # NoRequest
    /\ ~request[s].resolved
    /\ IF Resolves(request[s].body.location)
       THEN request' = [request EXCEPT ![s].resolved = TRUE]
       ELSE request' = [request EXCEPT ![s] = NoRequest]
    /\ UNCHANGED <<geo, listing, updates, secret, mixed>>

PartsOf(body) == {"kind" : k \in {body.kind} \ {Omitted}} \cup {"pin" : p \in {body.pin} \ {Omitted}}

\* The pair it read is not the one its own secret gives: of a pair like that it may
\* write one point alone.
HalfStale(r) == r.read.displayPoint # Display(r.secret, r.read.exactPoint, NoPin)

\* A save that nothing overtook puts its parts right; one that was overtaken may not.
MixedBy(r) ==
    (mixed \ (PartsOf(r.body) \ r.overtaken))
        \cup { p \in PartsOf(r.body) \cap r.overtaken : p = "kind" \/ HalfStale(r) }

\* listing.save(): the fields that differ from what was read, in one update.
Save(s) ==
    /\ request[s] # NoRequest
    /\ request[s].resolved
    /\ LET r   == request[s]
           new == Changed(r.read, r.body, r.secret)
       IN  /\ listing' = [f \in DOMAIN listing |->
                              IF new[f] = r.read[f] THEN listing[f] ELSE new[f]]
           /\ mixed' = MixedBy(r)
           /\ request' = [t \in Slot |->
                  IF t = s THEN NoRequest
                  ELSE IF request[t] = NoRequest THEN NoRequest
                  ELSE [request[t] EXCEPT !.overtaken = @ \cup PartsOf(r.body)]]
    /\ UNCHANGED <<geo, updates, secret>>

\* An operation of the request fails, or its process dies.
Abort(s) ==
    /\ request[s] # NoRequest
    /\ request' = [request EXCEPT ![s] = NoRequest]
    /\ UNCHANGED <<geo, listing, updates, secret, mixed>>

\* A deployment with another secret, or a restart without one; the processes of the
\* release before finish what they serve.
Rotate ==
    /\ \E s \in Secret \ {secret} : secret' = s
    /\ UNCHANGED <<geo, listing, request, updates, mixed>>

Next ==
    \/ GeoNext /\ UNCHANGED <<listing, request, updates, secret, mixed>>
    \/ \E b \in Body : CreateDraft(b)
    \/ \E s \in Slot : \/ \E b \in Body : Update(s, b)
                       \/ ResolveLocation(s) \/ Save(s) \/ Abort(s)
    \/ Rotate

Spec == Init /\ [][Next]_vars

----------------------------------------------------------------------------

\* The location of a listing is a nested chain of places that are all there, its
\* division too, however seeds died and updates overlapped; and a seed that
\* completed has left every place in the database (geo.service.ts 113-121, 186-188).
StoredChainIsSound ==
    /\ listing # NoListing /\ listing.location # NoPlace =>
           LET c == listing.location IN
           /\ IsNested(c)
           /\ PlacesOf(c) \cup {Parent[c.district]} \subseteq rows
    /\ seeded => rows = Place

\* The flag contradicts the transaction type only after an update that was overtaken
\* by another one (listings.service.ts 317-320).
FlagDriftsOnlyByOverlap ==
    listing # NoListing /\ "kind" \notin mixed =>
        listing.isGroupPurchase = (listing.transactionType = Shared)

\* The public point is that of the exact point, except after an update that was
\* overtaken by another one and drew with another secret than the point it read
\* (listings.service.ts 346-358).  After such an update it may be the point of another
\* pin, or of one that was removed, which the comments exclude: "minted together
\* (MAP-2) so they can never drift apart" (563-564), "the public point moves with the
\* pin, never independently of it" (350-351), "Set/cleared together with exactPoint"
\* (listing.schema.ts 255).
PinDriftsOnlyByRotation ==
    listing # NoListing /\ "pin" \notin mixed =>
        IF listing.exactPoint = NoPin THEN listing.displayPoint = NoPin
        ELSE \E s \in Secret : listing.displayPoint = Fuzz(s, listing.exactPoint)
============================================================================
