---------------------------- MODULE ListingMedia ----------------------------
(***************************************************************************)
(* The photos of one listing: the media array embedded in its document,    *)
(* and the assets in Cloudinary that its items name                        *)
(* (commitUploadedMedia, removeMedia, reorderMedia and deleteDraft of      *)
(* apps/api/src/listings/listings.service.ts).                             *)
(*                                                                         *)
(* The requests write the array in two ways that do not see each other.  A *)
(* commit pushes one item with a conditional findOneAndUpdate, which looks *)
(* at the array as it is and leaves the document's version alone.  Remove  *)
(* and reorder save a whole array made from the one they read: Mongoose    *)
(* makes such a save conditional on the version it read, and increments    *)
(* it.  So two saves cannot cross, but a save can cross a commit.          *)
(*                                                                         *)
(* A photo is named by its storage key: the subdocument ids that clients   *)
(* use are as unique as the keys in the array a request reads.             *)
(***************************************************************************)
EXTENDS Naturals, Sequences

CONSTANTS
    Key,            \* storage keys of uploads into the listing's folder
    Slot,           \* requests being served at the same time
    NoRequest,      \* what an idle slot holds
    MaxPhotos,      \* MAX_LISTING_PHOTOS
    MaxCommits,     \* bound: how often a client sends the commit of one upload
    MaxVersion,     \* bound: no remove or reorder is accepted on a later version
    MaxMoves        \* bound: how often the lifecycle moves the listing

ASSUME CapAssumption == MaxPhotos \in Nat
ASSUME BoundAssumption == {MaxCommits, MaxVersion, MaxMoves} \subseteq Nat

VARIABLES
    stage,          \* where the lifecycle has the listing: "frozen" stands for the
                    \* statuses that allow no edit, "deleted" for no document
    moves,          \* how often the lifecycle has moved it; no action looks at it
    media,          \* the media array
    version,        \* __v
    asset,          \* what is known of the asset with each key
    commits,        \* how often the commit of each upload was sent
    pc,             \* what the request in a slot does next
    req             \* that request, with what it read

store == <<asset, commits>>
vars  == <<stage, moves, media, version, asset, commits, pc, req>>

----------------------------------------------------------------------------

Editable == {"draft", "rejected"}

Stage == Editable \cup {"frozen", "deleted"}

Photo == [key : Key, position : Nat]

Asset == {"none", "signed", "stored", "destroyed"}

Keys(photos) == {photos[i].key : i \in DOMAIN photos}

\* `seen` dates the read, like `moves`.
Request == [ op      : {"commit", "remove", "reorder", "delete"},
             gone    : SUBSET Key,
             read    : Seq(Photo),
             version : Nat,
             written : Seq(Photo),
             seen    : Nat ]

Step == {"idle", "push", "save", "renumber", "erase", "destroy"}

TypeOK ==
    /\ stage \in Stage
    /\ moves \in Nat
    /\ media \in Seq(Photo)
    /\ version \in Nat
    /\ asset \in [Key -> Asset]
    /\ commits \in [Key -> Nat]
    /\ pc \in [Slot -> Step]
    /\ req \in [Slot -> Request \cup {NoRequest}]
    /\ \A s \in Slot : pc[s] # "idle" => req[s] \in Request

Init ==
    /\ stage = "draft"
    /\ moves = 0
    /\ media = << >>
    /\ version = 0
    /\ asset = [k \in Key |-> "none"]
    /\ commits = [k \in Key |-> 0]
    /\ pc = [s \in Slot |-> "idle"]
    /\ req = [s \in Slot |-> NoRequest]

----------------------------------------------------------------------------
(* A request reads the listing, and goes no further unless the caller may  *)
(* edit it now (findOwnedOrThrow, assertEditable).                         *)

\* Mutant: the status check forgotten.
AssertEditableNever == stage # "deleted"

AssertEditable == stage \in Editable

Serve(s, op, gone, written, next) ==
    /\ pc[s] = "idle"
    /\ pc' = [pc EXCEPT ![s] = next]
    /\ req' = [req EXCEPT ![s] =
                  [ op |-> op, gone |-> gone, read |-> media, version |-> version,
                    written |-> written, seen |-> moves ]]
    /\ UNCHANGED <<stage, moves, media, version, asset>>

Continue(s, next) ==
    /\ pc' = [pc EXCEPT ![s] = next]
    /\ UNCHANGED req

Answer(s) ==
    /\ pc' = [pc EXCEPT ![s] = "idle"]
    /\ req' = [req EXCEPT ![s] = NoRequest]

\* Positions are the indices, from 0.
Numbered(keys) ==
    [i \in DOMAIN keys |-> [key |-> keys[i], position |-> i - 1]]

KeysInOrder(photos) == [i \in DOMAIN photos |-> photos[i].key]

\* createUploadSignature, and the upload the browser then makes with it.
CreateUploadSignature(k) ==
    /\ AssertEditable
    /\ asset[k] = "none"
    /\ asset' = [asset EXCEPT ![k] = "signed"]
    /\ UNCHANGED <<stage, moves, media, version, commits, pc, req>>

Upload(k) ==
    /\ asset[k] = "signed"
    /\ asset' = [asset EXCEPT ![k] = "stored"]
    /\ UNCHANGED <<stage, moves, media, version, commits, pc, req>>

\* The position is decided here, on the array that was read.  The signature
\* that is verified proves that there was an upload, not that it is still there.
CommitUploadedMedia(s, k) ==
    /\ AssertEditable
    /\ asset[k] \in {"stored", "destroyed"}
    /\ commits[k] < MaxCommits
    /\ commits' = [commits EXCEPT ![k] = @ + 1]
    /\ Serve(s, "commit", {}, << [key |-> k, position |-> Len(media)] >>, "push")

\* Mutant: the wrong photo taken out.
SplicedOneOff(photos, i) ==
    [j \in 1 .. Len(photos) - 1 |-> photos[IF j <= i THEN j ELSE j + 1].key]

\* The keys left when the i-th photo is taken out.
Spliced(photos, i) ==
    [j \in 1 .. Len(photos) - 1 |-> photos[IF j < i THEN j ELSE j + 1].key]

\* Mutant: the rest not renumbered.
RemoveLeavingGap(s, k) ==
    LET Other(photo) == photo.key # k IN
    /\ AssertEditable
    /\ version < MaxVersion
    /\ k \in Keys(media)
    /\ Serve(s, "remove", {k}, SelectSeq(media, Other), "save")
    /\ UNCHANGED commits

RemoveMedia(s, k) ==
    /\ AssertEditable
    /\ version < MaxVersion
    /\ \E i \in DOMAIN media :
           /\ media[i].key = k
           /\ Serve(s, "remove", {k}, Numbered(Spliced(media, i)), "save")
    /\ UNCHANGED commits

Permuted(photos, order) == [i \in DOMAIN photos |-> photos[order[i]].key]

\* Every order of the photos that were read.  An order that changes none leaves
\* only positions to write.
ReorderMedia(s) ==
    /\ AssertEditable
    /\ version < MaxVersion
    /\ \E order \in [DOMAIN media -> DOMAIN media] :
           /\ \A i, j \in DOMAIN media : i # j => order[i] # order[j]
           /\ LET written == Numbered(Permuted(media, order)) IN
              /\ written # media
              /\ Serve(s, "reorder", {}, written,
                       IF Permuted(media, order) = KeysInOrder(media) THEN "renumber" ELSE "save")
    /\ UNCHANGED commits

\* Whether the draft has a history is a matter of ListingLifecycle; one that has
\* is not deleted, and changes nothing here.
DeleteDraft(s) ==
    /\ stage = "draft"
    /\ Serve(s, "delete", Keys(media), << >>, "erase")
    /\ UNCHANGED commits

----------------------------------------------------------------------------
(* The writes.                                                             *)

\* Mutant: the cap checked on the array that was read.
RoomAsRead(s) == Len(req[s].read) < MaxPhotos

Room(s) == Len(media) < MaxPhotos

AlreadyAttached(s) == req[s].written[1].key \in Keys(media)

\* findOneAndUpdate, on the array as it is; the status is not looked at again.
PushMedia(s) ==
    /\ pc[s] = "push"
    /\ media' = IF stage # "deleted" /\ ~AlreadyAttached(s) /\ Room(s)
                THEN media \o req[s].written
                ELSE media
    /\ Answer(s)
    /\ UNCHANGED <<stage, moves, version, store>>

\* Mutant: a save that does not compare versions.
UnchangedSinceUnversioned(s) == stage # "deleted"

\* What the filter of the save compares.
UnchangedSince(s) == stage # "deleted" /\ version = req[s].version

\* listing.save() with the media array set: a VersionError ends the request.
SaveMedia(s) ==
    /\ pc[s] = "save"
    /\ IF UnchangedSince(s)
       THEN /\ media' = req[s].written
            /\ version' = version + 1
            /\ IF req[s].op = "remove" THEN Continue(s, "destroy") ELSE Answer(s)
       ELSE Answer(s) /\ UNCHANGED <<media, version>>
    /\ UNCHANGED <<stage, moves, store>>

\* listing.save() with positions of single items set: no increment.
RenumberMedia(s) ==
    /\ pc[s] = "renumber"
    /\ media' = IF UnchangedSince(s)
                THEN [i \in DOMAIN media |-> IF i \in DOMAIN req[s].written
                                             THEN req[s].written[i] ELSE media[i]]
                ELSE media
    /\ Answer(s)
    /\ UNCHANGED <<stage, moves, version, store>>

\* deleteDraft, from the deleteOne that looks at the status again.
EraseDraft(s) ==
    /\ pc[s] = "erase"
    /\ IF stage = "draft"
       THEN /\ stage' = "deleted"
            /\ media' = << >>
            /\ Continue(s, "destroy")
       ELSE Answer(s) /\ UNCHANGED <<stage, media>>
    /\ UNCHANGED <<moves, version, store>>

\* deleteMediaAsset: best effort, for the photos in the array that was read.
DestroyAssets(s) ==
    /\ pc[s] = "destroy"
    /\ \E reached \in SUBSET req[s].gone :
           asset' = [k \in Key |-> IF k \in reached THEN "destroyed" ELSE asset[k]]
    /\ Answer(s)
    /\ UNCHANGED <<stage, moves, media, version, commits>>

\* A query fails or the process dies.
Abort(s) ==
    /\ pc[s] # "idle"
    /\ Answer(s)
    /\ UNCHANGED <<stage, moves, media, version, store>>

\* ListingLifecycle, whose overlapping requests may make any move.
LifecycleMoves ==
    /\ stage # "deleted"
    /\ moves < MaxMoves
    /\ stage' \in Editable \cup {"frozen"}
    /\ stage' # stage
    /\ moves' = moves + 1
    /\ UNCHANGED <<media, version, store, pc, req>>

Next ==
    \/ \E k \in Key : CreateUploadSignature(k) \/ Upload(k)
    \/ \E s \in Slot :
           \/ \E k \in Key : CommitUploadedMedia(s, k) \/ RemoveMedia(s, k)
           \/ ReorderMedia(s)
           \/ DeleteDraft(s)
           \/ PushMedia(s)
           \/ SaveMedia(s)
           \/ RenumberMedia(s)
           \/ EraseDraft(s)
           \/ DestroyAssets(s)
           \/ Abort(s)
    \/ LifecycleMoves

Spec == Init /\ [][Next]_vars

----------------------------------------------------------------------------
(* Properties.                                                             *)

\* The array is a gallery: never more than the cap, no asset twice, a photo that
\* was removed does not come back without a commit, whatever saves of stale
\* arrays and commits overlap (the version key against the unversioned push).
Gallery == INSTANCE PhotoGallery WITH
               Asset <- Key, Cap <- MaxPhotos, gallery <- KeysInOrder(media)

ImplementsGallery == Gallery!GallerySpec

\* A photo other than the one a remove is for is lost only to a remove or reorder
\* that read the array before the photo's commit, or with the whole listing.
PhotosLostOnlyByStaleSave ==
    [][\A k \in Keys(media) \ Keys(media') :
           \/ stage' = "deleted"
           \/ \E s \in Slot :
                  /\ pc[s] = "save"
                  /\ k \in req[s].gone \/ k \notin Keys(req[s].read)]_vars

\* A request that finds the array as it read it does what was asked: a commit
\* adds its photo last, a remove takes out its own, a reorder loses none; and an
\* array with positions 0..n-1 keeps them.
FreshRequestsKeepTheGallery ==
    [][\A s \in Slot :
           /\ pc[s] \in {"push", "save", "renumber"} /\ pc'[s] # pc[s]
           /\ req[s].read = media /\ media' # media
           => /\ media = Numbered(KeysInOrder(media)) => media' = Numbered(KeysInOrder(media'))
              /\ req[s].op = "commit" => SubSeq(media', 1, Len(media)) = media
              /\ req[s].op # "commit" => Keys(media') = Keys(media) \ req[s].gone]_vars

\* A photo whose asset was destroyed is shown only if its commit was sent again:
\* the cleanup after a remove or a delete destroys what it removed, nothing else.
BrokenOnlyByReplay ==
    \A k \in Keys(media) : asset[k] = "destroyed" => commits[k] > 1

\* Photos of a listing in review, public or out of the catalog change only by a
\* request that read it before it got there (assertEditable).
PhotosFrozenForLaterRequests ==
    [][stage \notin Editable /\ media' # media =>
           \E s \in Slot :
               pc[s] \in {"push", "save", "renumber"} /\ req[s].seen < moves]_vars
============================================================================
