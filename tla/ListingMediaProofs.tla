------------------------- MODULE ListingMediaProofs -------------------------
(***************************************************************************)
(* Proofs about ListingMedia, for any number of uploads and of overlapping *)
(* requests.                                                               *)
(*                                                                         *)
(* A save replaces the whole array, so what it may do depends on how the   *)
(* array it was made from relates to the one it replaces.  The invariant   *)
(* says so: as long as the version is the one a request read, the array it *)
(* read is a prefix of the present one, up to positions, because commits,  *)
(* which only add at the end, are all that does not increment the version. *)
(***************************************************************************)
EXTENDS ListingMedia, FiniteSets, Functions, FiniteSetTheorems, TLAPS

InFlight(s) == pc[s] # "idle"

Unique(photos) ==
    \A i, j \in DOMAIN photos : photos[i].key = photos[j].key => i = j

\* What a save makes of the array that was read.
WellMade(r) ==
    /\ Unique(r.written)
    /\ r.written = Numbered(KeysInOrder(r.written))
    /\ Keys(r.written) = Keys(r.read) \ r.gone
    /\ Len(r.written) <= Len(r.read)

Fits(r, step) ==
    /\ r.gone \subseteq Keys(r.read)
    /\ r.op = "reorder" => r.gone = {}
    /\ step = "push" =>
           /\ r.op = "commit"
           /\ r.gone = {}
           /\ \E k \in Key : r.written = << [key |-> k, position |-> Len(r.read)] >>
    /\ step = "save" => r.op \in {"remove", "reorder"} /\ WellMade(r)
    /\ step = "renumber" => r.op = "reorder" /\ r.written = Numbered(KeysInOrder(r.read))
    /\ step = "erase" => r.op = "delete"

WellFormed ==
    /\ TypeOK
    /\ \A s \in Slot : InFlight(s) => Fits(req[s], pc[s])

Sound ==
    /\ Unique(media)
    /\ Len(media) <= MaxPhotos

\* The array a request read is a prefix of the present one.
Prefix(r) ==
    /\ Len(r.read) <= Len(media)
    /\ \A i \in DOMAIN r.read : media[i].key = r.read[i].key

UpToDate(s) == stage # "deleted" /\ version = req[s].version

Current ==
    \A s \in Slot : pc[s] \in {"save", "renumber"} =>
        /\ req[s].version <= version
        /\ UpToDate(s) => Prefix(req[s])

Dated ==
    \A s \in Slot : InFlight(s) =>
        /\ req[s].seen <= moves
        /\ stage = "frozen" => req[s].seen < moves

Pushes(s, k) == pc[s] = "push" /\ req[s].written[1].key = k

\* A key whose commit was sent at most once is in one place: on its way into the
\* array, in the array, or on its way out or gone.
NotYetCommitted(k) ==
    /\ asset[k] # "destroyed"
    /\ k \notin Keys(media)
    /\ \A s \in Slot : ~Pushes(s, k) /\ (InFlight(s) => k \notin req[s].gone)

CommittedOnce(k) ==
    /\ \A s \in Slot : Pushes(s, k) =>
           /\ asset[k] # "destroyed"
           /\ k \notin Keys(media)
           /\ \A t \in Slot : InFlight(t) => k \notin req[t].gone
           /\ \A t \in Slot : Pushes(t, k) => s = t
    /\ k \in Keys(media) =>
           /\ asset[k] # "destroyed"
           /\ \A t \in Slot : pc[t] = "destroy" => k \notin req[t].gone

Tracked ==
    \A k \in Key :
        /\ commits[k] = 0 => NotYetCommitted(k)
        /\ commits[k] = 1 => CommittedOnce(k)

IInv == WellFormed /\ Sound /\ Current /\ Dated /\ Tracked

----------------------------------------------------------------------------
(* Arrays of photos.                                                       *)

LEMMA SeqOfFunction ==
    ASSUME NEW S, NEW n \in Nat, NEW f, f = [i \in 1 .. n |-> f[i]],
           \A i \in 1 .. n : f[i] \in S
    PROVE  f \in Seq(S) /\ Len(f) = n /\ DOMAIN f = 1 .. n
OBVIOUS

LEMMA PhotoFacts ==
    ASSUME NEW photos \in Seq(Photo)
    PROVE  /\ Len(photos) \in Nat
           /\ DOMAIN photos = 1 .. Len(photos)
           /\ \A i \in 1 .. Len(photos) : photos[i].key \in Key /\ photos[i].position \in Nat
<1>1. Len(photos) \in Nat /\ DOMAIN photos = 1 .. Len(photos)
  OBVIOUS
<1>2. \A i \in 1 .. Len(photos) : photos[i] \in Photo
  OBVIOUS
<1> QED
  BY <1>1, <1>2 DEF Photo

LEMMA SameArray ==
    ASSUME NEW photos \in Seq(Photo), NEW others \in Seq(Photo), Len(photos) = Len(others),
           \A i \in 1 .. Len(photos) : photos[i] = others[i]
    PROVE  photos = others
OBVIOUS

LEMMA KeysFacts ==
    ASSUME NEW photos \in Seq(Photo)
    PROVE  /\ KeysInOrder(photos) \in Seq(Key)
           /\ Len(KeysInOrder(photos)) = Len(photos)
           /\ DOMAIN KeysInOrder(photos) = DOMAIN photos
           /\ DOMAIN photos = 1 .. Len(photos)
           /\ \A i \in DOMAIN photos : KeysInOrder(photos)[i] = photos[i].key
           /\ Keys(photos) \subseteq Key
<1>1. DOMAIN photos = 1 .. Len(photos) /\ Len(photos) \in Nat
  BY PhotoFacts
<1>2. \A i \in DOMAIN photos : photos[i].key \in Key
  BY PhotoFacts
<1>3. KeysInOrder(photos) = [i \in 1 .. Len(photos) |-> photos[i].key]
  BY <1>1 DEF KeysInOrder
<1> QED
  BY <1>1, <1>2, <1>3 DEF Keys

LEMMA NumberedFacts ==
    ASSUME NEW keys \in Seq(Key)
    PROVE  /\ Numbered(keys) \in Seq(Photo)
           /\ Len(Numbered(keys)) = Len(keys)
           /\ DOMAIN Numbered(keys) = 1 .. Len(keys)
           /\ \A i \in 1 .. Len(keys) :
                  Numbered(keys)[i] = [key |-> keys[i], position |-> i - 1]
           /\ KeysInOrder(Numbered(keys)) = keys
           /\ Keys(Numbered(keys)) = {keys[i] : i \in 1 .. Len(keys)}
<1>1. DOMAIN keys = 1 .. Len(keys) /\ Len(keys) \in Nat /\ keys = [i \in 1 .. Len(keys) |-> keys[i]]
  OBVIOUS
<1>2. Numbered(keys) = [i \in 1 .. Len(keys) |-> [key |-> keys[i], position |-> i - 1]]
  BY <1>1 DEF Numbered
<1>3. \A i \in 1 .. Len(keys) : [key |-> keys[i], position |-> i - 1] \in Photo
  BY <1>1 DEF Photo
<1>4. Numbered(keys) \in Seq(Photo) /\ Len(Numbered(keys)) = Len(keys)
  BY <1>1, <1>2, <1>3
<1>5. KeysInOrder(Numbered(keys)) = keys
  BY <1>1, <1>2 DEF KeysInOrder
<1>6. Keys(Numbered(keys)) = {keys[i] : i \in 1 .. Len(keys)}
  BY <1>2 DEF Keys
<1> QED
  BY <1>2, <1>4, <1>5, <1>6

\* What makes a written array well made, in terms of its keys.
LEMMA NumberedUnique ==
    ASSUME NEW keys \in Seq(Key),
           \A i, j \in 1 .. Len(keys) : keys[i] = keys[j] => i = j
    PROVE  /\ Unique(Numbered(keys))
           /\ Numbered(keys) = Numbered(KeysInOrder(Numbered(keys)))
<1>1. \A i \in 1 .. Len(keys) :
          Numbered(keys)[i] = [key |-> keys[i], position |-> i - 1]
  BY NumberedFacts
<1>2. ASSUME NEW i \in 1 .. Len(keys)
      PROVE  Numbered(keys)[i].key = keys[i]
  <2>1. Numbered(keys)[i] = [key |-> keys[i], position |-> i - 1]
    BY <1>1
  <2> QED
    BY <2>1
<1>3. DOMAIN Numbered(keys) = 1 .. Len(keys) /\ KeysInOrder(Numbered(keys)) = keys
  BY NumberedFacts
<1> QED
  BY <1>2, <1>3 DEF Unique

LEMMA SplicedFacts ==
    ASSUME NEW photos \in Seq(Photo), Unique(photos), NEW i \in DOMAIN photos
    PROVE  /\ Spliced(photos, i) \in Seq(Key)
           /\ Len(Spliced(photos, i)) = Len(photos) - 1
           /\ \A p, q \in 1 .. Len(photos) - 1 :
                  Spliced(photos, i)[p] = Spliced(photos, i)[q] => p = q
           /\ {Spliced(photos, i)[p] : p \in 1 .. Len(photos) - 1} = Keys(photos) \ {photos[i].key}
<1> DEFINE n == Len(photos) - 1
           from(j) == IF j < i THEN j ELSE j + 1
<1>1. n \in Nat /\ DOMAIN photos = 1 .. n + 1 /\ i \in 1 .. n + 1
  OBVIOUS
<1>2. \A j \in 1 .. n : from(j) \in DOMAIN photos /\ from(j) # i
  BY <1>1
<1>3. \A j \in DOMAIN photos : photos[j].key \in Key
  BY PhotoFacts
<1>4. Spliced(photos, i) = [j \in 1 .. n |-> photos[from(j)].key]
  BY DEF Spliced
<1>5. Spliced(photos, i) \in Seq(Key) /\ Len(Spliced(photos, i)) = n
  BY <1>1, <1>2, <1>3, <1>4
<1>6. \A p, q \in 1 .. n : from(p) = from(q) => p = q
  BY <1>1
<1>7. \A p, q \in 1 .. n : Spliced(photos, i)[p] = Spliced(photos, i)[q] => p = q
  BY <1>2, <1>4, <1>6 DEF Unique
<1>8. ASSUME NEW j \in DOMAIN photos, j # i
      PROVE  \E p \in 1 .. n : from(p) = j
  <2>1. CASE j < i
    BY <1>1, <2>1
  <2>2. CASE j > i
    <3>1. j - 1 \in 1 .. n /\ from(j - 1) = j
      BY <1>1, <2>2
    <3> QED
      BY <3>1
  <2> QED
    BY <1>1, <1>8, <2>1, <2>2
<1>9. {Spliced(photos, i)[p] : p \in 1 .. n} = Keys(photos) \ {photos[i].key}
  <2>1. ASSUME NEW p \in 1 .. n
        PROVE  Spliced(photos, i)[p] \in Keys(photos) \ {photos[i].key}
    <3>1. Spliced(photos, i)[p] = photos[from(p)].key /\ from(p) \in DOMAIN photos /\ from(p) # i
      BY <1>2, <1>4
    <3> HIDE DEF from
    <3> QED
      BY <3>1 DEF Keys, Unique
  <2>2. ASSUME NEW k \in Keys(photos) \ {photos[i].key}
        PROVE  \E p \in 1 .. n : Spliced(photos, i)[p] = k
    <3>1. PICK j \in DOMAIN photos : photos[j].key = k
      BY DEF Keys
    <3>2. PICK p \in 1 .. n : from(p) = j
      BY <1>8, <3>1
    <3> QED
      BY <1>4, <3>1, <3>2
  <2> QED
    BY <2>1, <2>2
<1> QED
  BY <1>5, <1>7, <1>9

\* The check of reorderMedia admits permutations only.
LEMMA InjectionIsOnto ==
    ASSUME NEW n \in Nat, NEW f \in [1 .. n -> 1 .. n],
           \A i, j \in 1 .. n : i # j => f[i] # f[j]
    PROVE  \A j \in 1 .. n : \E i \in 1 .. n : f[i] = j
<1>1. f \in Injection(1 .. n, 1 .. n)
  BY DEF Injection, IsInjective
<1>2. IsFiniteSet(1 .. n)
  BY FS_Interval
<1>3. f \in Surjection(1 .. n, 1 .. n)
  BY <1>1, <1>2, FS_Injection
<1> QED
  BY <1>3 DEF Surjection

LEMMA PermutedFacts ==
    ASSUME NEW photos \in Seq(Photo), Unique(photos),
           NEW order \in [DOMAIN photos -> DOMAIN photos],
           \A i, j \in DOMAIN photos : i # j => order[i] # order[j]
    PROVE  /\ Permuted(photos, order) \in Seq(Key)
           /\ Len(Permuted(photos, order)) = Len(photos)
           /\ \A p, q \in 1 .. Len(photos) :
                  Permuted(photos, order)[p] = Permuted(photos, order)[q] => p = q
           /\ {Permuted(photos, order)[p] : p \in 1 .. Len(photos)} = Keys(photos)
<1>1. Len(photos) \in Nat /\ DOMAIN photos = 1 .. Len(photos)
  OBVIOUS
<1>2. \A j \in DOMAIN photos : photos[j].key \in Key
  BY PhotoFacts
<1>3. Permuted(photos, order) = [i \in 1 .. Len(photos) |-> photos[order[i]].key]
  BY <1>1 DEF Permuted
<1>4. Permuted(photos, order) \in Seq(Key) /\ Len(Permuted(photos, order)) = Len(photos)
  BY <1>1, <1>2, <1>3
<1>5. \A p, q \in 1 .. Len(photos) :
          Permuted(photos, order)[p] = Permuted(photos, order)[q] => p = q
  BY <1>1, <1>3 DEF Unique
<1>6. \A j \in 1 .. Len(photos) : \E i \in 1 .. Len(photos) : order[i] = j
  <2> DEFINE n == Len(photos)
  <2>1. n \in Nat /\ order \in [1 .. n -> 1 .. n] /\ \A i, j \in 1 .. n : i # j => order[i] # order[j]
    BY <1>1
  <2> HIDE DEF n
  <2>2. \A j \in 1 .. n : \E i \in 1 .. n : order[i] = j
    BY <2>1, InjectionIsOnto
  <2> QED
    BY <2>2 DEF n
<1>7. {Permuted(photos, order)[p] : p \in 1 .. Len(photos)} = Keys(photos)
  BY <1>1, <1>3, <1>6 DEF Keys
<1> QED
  BY <1>4, <1>5, <1>7

----------------------------------------------------------------------------
(* What a request does to the slots.                                       *)

Elsewhere(s) == \A t \in Slot \ {s} : pc'[t] = pc[t] /\ req'[t] = req[t]

SlotsTyped ==
    /\ pc \in [Slot -> Step]
    /\ req \in [Slot -> Request \cup {NoRequest}]
    /\ \A s \in Slot : pc[s] # "idle" => req[s] \in Request

\* The four ways in, in one shape.
Arrival(s, r, next) ==
    /\ pc[s] = "idle"
    /\ stage \in Editable
    /\ next \in {"push", "save", "renumber", "erase"}
    /\ r \in Request
    /\ Fits(r, next)
    /\ r.read = media /\ r.version = version /\ r.seen = moves
    /\ pc' = [pc EXCEPT ![s] = next]
    /\ req' = [req EXCEPT ![s] = r]
    /\ UNCHANGED <<stage, moves, media, version, asset>>
    /\ \/ next # "push" /\ UNCHANGED commits
       \/ \E k \in Key :
              /\ next = "push"
              /\ r.written = << [key |-> k, position |-> Len(media)] >>
              /\ commits' = [commits EXCEPT ![k] = @ + 1]

LEMMA OnePhoto ==
    ASSUME NEW k \in Key, NEW n \in Nat
    PROVE  << [key |-> k, position |-> n] >> \in Seq(Photo)
BY DEF Photo

LEMMA Answered ==
    ASSUME SlotsTyped, NEW s \in Slot, Answer(s)
    PROVE  SlotsTyped' /\ Elsewhere(s) /\ pc'[s] = "idle"
BY DEF SlotsTyped, Answer, Elsewhere, Step

LEMMA Continued ==
    ASSUME SlotsTyped, NEW s \in Slot, pc[s] # "idle", NEW next \in Step, Continue(s, next)
    PROVE  SlotsTyped' /\ Elsewhere(s) /\ pc'[s] = next /\ req'[s] = req[s]
BY DEF SlotsTyped, Continue, Elsewhere

LEMMA Arrived ==
    ASSUME SlotsTyped, NEW s \in Slot, NEW r, NEW next, Arrival(s, r, next)
    PROVE  SlotsTyped' /\ Elsewhere(s) /\ pc'[s] = next /\ req'[s] = r
BY DEF SlotsTyped, Arrival, Elsewhere, Step

LEMMA TypedSlots == TypeOK => SlotsTyped
BY DEF TypeOK, SlotsTyped

\* Every request enters in that shape.
LEMMA Arrivals ==
    ASSUME TypeOK, Unique(media), NEW s \in Slot,
           \/ \E k \in Key : CommitUploadedMedia(s, k) \/ RemoveMedia(s, k)
           \/ ReorderMedia(s)
           \/ DeleteDraft(s)
    PROVE  \E r, next : Arrival(s, r, next)
<1> DEFINE made(op, gone, written) ==
               [ op |-> op, gone |-> gone, read |-> media, version |-> version,
                 written |-> written, seen |-> moves ]
<1>1. /\ media \in Seq(Photo) /\ version \in Nat /\ moves \in Nat
      /\ Len(media) \in Nat /\ DOMAIN media = 1 .. Len(media) /\ Keys(media) \subseteq Key
  BY PhotoFacts, KeysFacts DEF TypeOK
<1>2. CASE \E k \in Key : CommitUploadedMedia(s, k)
  <2>1. PICK k \in Key : CommitUploadedMedia(s, k)
    BY <1>2
  <2> DEFINE written == << [key |-> k, position |-> Len(media)] >>
             r == made("commit", {}, written)
  <2>2. written \in Seq(Photo)
    BY <1>1, OnePhoto
  <2>3. r \in Request
    BY <1>1, <2>2 DEF Request
  <2>4. Fits(r, "push")
    BY DEF Fits
  <2>5. Arrival(s, r, "push")
    BY <2>1, <2>3, <2>4 DEF Arrival, CommitUploadedMedia, AssertEditable, Serve
  <2> QED
    BY <2>5
<1>3. CASE \E k \in Key : RemoveMedia(s, k)
  <2>1. PICK k \in Key : RemoveMedia(s, k)
    BY <1>3
  <2>2. PICK i \in DOMAIN media :
            media[i].key = k /\ Serve(s, "remove", {k}, Numbered(Spliced(media, i)), "save")
    BY <2>1 DEF RemoveMedia
  <2> DEFINE keys == Spliced(media, i)
             written == Numbered(keys)
             r == made("remove", {k}, written)
  <2>3. /\ keys \in Seq(Key) /\ Len(keys) = Len(media) - 1
        /\ \A p, q \in 1 .. Len(keys) : keys[p] = keys[q] => p = q
        /\ {keys[p] : p \in 1 .. Len(keys)} = Keys(media) \ {k}
    BY <1>1, <2>2, SplicedFacts
  <2> HIDE DEF keys
  <2>4. /\ written \in Seq(Photo) /\ Len(written) = Len(media) - 1
        /\ Unique(written) /\ written = Numbered(KeysInOrder(written))
        /\ Keys(written) = Keys(media) \ {k}
    BY <2>3, NumberedFacts, NumberedUnique
  <2>5. k \in Keys(media)
    BY <2>2 DEF Keys
  <2> HIDE DEF written
  <2>6. r \in Request
    BY <1>1, <2>4 DEF Request
  <2>7. Fits(r, "save")
    BY <1>1, <2>4, <2>5 DEF Fits, WellMade
  <2>8. Arrival(s, r, "save")
    BY <2>1, <2>2, <2>6, <2>7 DEF Arrival, RemoveMedia, AssertEditable, Serve, written, keys
  <2> QED
    BY <2>8
<1>4. CASE ReorderMedia(s)
  <2>1. PICK order \in [DOMAIN media -> DOMAIN media] :
            /\ \A i, j \in DOMAIN media : i # j => order[i] # order[j]
            /\ Serve(s, "reorder", {}, Numbered(Permuted(media, order)),
                     IF Permuted(media, order) = KeysInOrder(media) THEN "renumber" ELSE "save")
    BY <1>4 DEF ReorderMedia
  <2> DEFINE keys == Permuted(media, order)
             written == Numbered(keys)
             r == made("reorder", {}, written)
             next == IF keys = KeysInOrder(media) THEN "renumber" ELSE "save"
  <2>2. /\ keys \in Seq(Key) /\ Len(keys) = Len(media)
        /\ \A p, q \in 1 .. Len(keys) : keys[p] = keys[q] => p = q
        /\ {keys[p] : p \in 1 .. Len(keys)} = Keys(media)
    BY <1>1, <2>1, PermutedFacts
  <2> HIDE DEF keys
  <2>3. /\ written \in Seq(Photo) /\ Len(written) = Len(media)
        /\ Unique(written) /\ written = Numbered(KeysInOrder(written))
        /\ Keys(written) = Keys(media)
    BY <2>2, NumberedFacts, NumberedUnique
  <2>4. keys = KeysInOrder(media) => written = Numbered(KeysInOrder(media))
    OBVIOUS
  <2> HIDE DEF written
  <2>5. r \in Request
    BY <1>1, <2>3 DEF Request
  <2>6. Fits(r, next)
    BY <1>1, <2>3, <2>4 DEF Fits, WellMade
  <2>7. Arrival(s, r, next)
    BY <1>4, <2>1, <2>5, <2>6 DEF Arrival, ReorderMedia, AssertEditable, Serve, written, keys
  <2> QED
    BY <2>7
<1>5. CASE DeleteDraft(s)
  <2> DEFINE r == made("delete", Keys(media), << >>)
  <2>1. r \in Request
    BY <1>1 DEF Request
  <2>2. Fits(r, "erase")
    BY DEF Fits
  <2>3. Arrival(s, r, "erase")
    BY <1>5, <2>1, <2>2 DEF Arrival, DeleteDraft, Editable, Serve
  <2> QED
    BY <2>3
<1> QED
  BY <1>2, <1>3, <1>4, <1>5

\* The steps, arrivals in one shape.
LEMMA StepCases ==
    ASSUME TypeOK, Unique(media), [Next]_vars
    PROVE  \/ \E k \in Key : CreateUploadSignature(k) \/ Upload(k)
           \/ \E s \in Slot : \E r, next : Arrival(s, r, next)
           \/ \E s \in Slot :
                  \/ PushMedia(s) \/ SaveMedia(s) \/ RenumberMedia(s) \/ EraseDraft(s)
                  \/ DestroyAssets(s) \/ Abort(s)
           \/ LifecycleMoves
           \/ UNCHANGED vars
<1>1. ASSUME NEW s \in Slot,
             \/ \E k \in Key : CommitUploadedMedia(s, k) \/ RemoveMedia(s, k)
             \/ ReorderMedia(s)
             \/ DeleteDraft(s)
      PROVE  \E r, next : Arrival(s, r, next)
  BY <1>1, Arrivals
<1> QED
  BY <1>1, Zenon DEF Next

----------------------------------------------------------------------------
(* The invariant, one layer at a time.                                     *)

LEMMA Start == Init => IInv
<1> SUFFICES ASSUME Init PROVE IInv
  OBVIOUS
<1>1. media = << >> /\ Len(media) = 0 /\ DOMAIN media = {} /\ media \in Seq(Photo) /\ Keys(media) = {}
  BY DEF Init, Keys
<1>2. \A s \in Slot : ~InFlight(s) /\ pc[s] = "idle"
  BY DEF Init, InFlight
<1>3. TypeOK
  BY <1>1 DEF Init, TypeOK, Stage, Editable, Asset, Step
<1>4. WellFormed
  BY <1>2, <1>3 DEF WellFormed
<1>5. Sound
  BY <1>1, CapAssumption DEF Sound, Unique
<1>6. Current /\ Dated
  BY <1>2 DEF Current, Dated
<1>7. Tracked
  <2>1. ASSUME NEW k \in Key
        PROVE  asset[k] = "none" /\ commits[k] = 0
    BY DEF Init
  <2>2. ASSUME NEW k \in Key
        PROVE  NotYetCommitted(k)
    BY <1>1, <1>2, <2>1 DEF NotYetCommitted, Pushes
  <2>3. ASSUME NEW k \in Key
        PROVE  commits[k] # 1
    BY <2>1
  <2> QED
    BY <2>2, <2>3, Zenon DEF Tracked
<1> QED
  BY <1>4, <1>5, <1>6, <1>7 DEF IInv

\* The slots that an action leaves alone keep what fits them.
LEMMA FitsElsewhere ==
    ASSUME WellFormed, NEW s \in Slot, Elsewhere(s),
           pc'[s] # "idle" => Fits(req'[s], pc'[s])
    PROVE  (\A t \in Slot : InFlight(t) => Fits(req[t], pc[t]))'
<1> SUFFICES ASSUME NEW t \in Slot, pc'[t] # "idle"
             PROVE  Fits(req'[t], pc'[t])
  BY DEF InFlight, Fits, WellMade
<1>1. CASE t = s
  BY <1>1
<1>2. CASE t # s
  <2>1. pc'[t] = pc[t] /\ req'[t] = req[t]
    BY <1>2 DEF Elsewhere
  <2> QED
    BY <2>1 DEF WellFormed, InFlight
<1> QED
  BY <1>1, <1>2

LEMMA ArrayTyped ==
    ASSUME NEW photos \in Seq(Photo), NEW more \in Seq(Photo)
    PROVE  /\ photos \o more \in Seq(Photo)
           /\ [i \in DOMAIN photos |-> IF i \in DOMAIN more THEN more[i] ELSE photos[i]]
                  \in Seq(Photo)
<1>1. \A i \in DOMAIN photos : photos[i] \in Photo
  OBVIOUS
<1>2. \A i \in DOMAIN more : more[i] \in Photo
  OBVIOUS
<1>3. DOMAIN photos = 1 .. Len(photos) /\ Len(photos) \in Nat
  OBVIOUS
<1> QED
  BY <1>1, <1>2, <1>3

\* Each step keeps the types, and what a request holds fits what it does next.
LEMMA WellFormedStep ==
    ASSUME WellFormed, Sound, [Next]_vars
    PROVE  WellFormed'
<1> USE DEF WellFormed
<1>0. TypeOK /\ SlotsTyped /\ Unique(media)
  BY TypedSlots DEF Sound
<1>1. /\ stage \in Stage /\ moves \in Nat /\ media \in Seq(Photo) /\ version \in Nat
      /\ asset \in [Key -> Asset] /\ commits \in [Key -> Nat]
  BY <1>0 DEF TypeOK
<1>2. ASSUME NEW s \in Slot, SlotsTyped', Elsewhere(s),
             pc'[s] # "idle" => Fits(req'[s], pc'[s]),
             /\ stage' \in Stage /\ moves' \in Nat /\ media' \in Seq(Photo) /\ version' \in Nat
             /\ asset' \in [Key -> Asset] /\ commits' \in [Key -> Nat]
      PROVE  WellFormed'
  BY <1>2, FitsElsewhere DEF SlotsTyped, TypeOK
<1>3. ASSUME UNCHANGED <<pc, req>>,
             /\ stage' \in Stage /\ moves' \in Nat /\ media' \in Seq(Photo) /\ version' \in Nat
             /\ asset' \in [Key -> Asset] /\ commits' \in [Key -> Nat]
      PROVE  WellFormed'
  BY <1>3, <1>0 DEF TypeOK, InFlight, Fits, WellMade
<1>4. CASE \E k \in Key : CreateUploadSignature(k) \/ Upload(k)
  BY <1>1, <1>3, <1>4 DEF CreateUploadSignature, Upload, Asset
<1>5. CASE \E s \in Slot : \E r, next : Arrival(s, r, next)
  <2>1. PICK s \in Slot : \E r, next : Arrival(s, r, next)
    BY <1>5
  <2>2. PICK r, next : Arrival(s, r, next)
    BY <2>1
  <2>3. SlotsTyped' /\ Elsewhere(s) /\ pc'[s] = next /\ req'[s] = r
    BY <1>0, <2>2, Arrived
  <2>4. Fits(r, next) /\ UNCHANGED <<stage, moves, media, version, asset>>
    BY <2>2 DEF Arrival
  <2>5. commits' \in [Key -> Nat]
    <3>1. CASE UNCHANGED commits
      BY <1>1, <3>1
    <3>2. CASE \E k \in Key : commits' = [commits EXCEPT ![k] = @ + 1]
      BY <1>1, <3>2
    <3> QED
      BY <2>2, <3>1, <3>2 DEF Arrival
  <2> QED
    BY <1>1, <1>2, <2>3, <2>4, <2>5
<1>6. ASSUME NEW s \in Slot, PushMedia(s)
      PROVE  WellFormed'
  <2>1. pc[s] = "push" /\ req[s] \in Request /\ Answer(s)
    BY <1>0, <1>6 DEF PushMedia, SlotsTyped
  <2>2. media' \in Seq(Photo)
    BY <1>1, <1>6, <2>1, ArrayTyped DEF PushMedia, Request
  <2> QED
    BY <1>0, <1>1, <1>2, <1>6, <2>1, <2>2, Answered DEF PushMedia, store
<1>7. ASSUME NEW s \in Slot, SaveMedia(s)
      PROVE  WellFormed'
  <2>1. pc[s] = "save" /\ req[s] \in Request
    BY <1>0, <1>7 DEF SaveMedia, SlotsTyped
  <2>2. /\ media' \in Seq(Photo) /\ version' \in Nat
        /\ UNCHANGED <<stage, moves, asset, commits>>
    BY <1>1, <1>7, <2>1 DEF SaveMedia, Request, store
  <2>3. CASE Answer(s)
    BY <1>0, <1>1, <1>2, <2>2, <2>3, Answered
  <2>4. CASE Continue(s, "destroy")
    <3>1. SlotsTyped' /\ Elsewhere(s) /\ pc'[s] = "destroy" /\ req'[s] = req[s]
      BY <1>0, <2>1, <2>4, Continued DEF Step
    <3>2. Fits(req'[s], pc'[s])
      BY <2>1, <3>1 DEF Fits, InFlight
    <3> QED
      BY <1>1, <1>2, <2>2, <3>1, <3>2
  <2> QED
    BY <1>7, <2>3, <2>4 DEF SaveMedia
<1>8. ASSUME NEW s \in Slot, RenumberMedia(s)
      PROVE  WellFormed'
  <2>1. pc[s] = "renumber" /\ req[s] \in Request /\ Answer(s)
    BY <1>0, <1>8 DEF RenumberMedia, SlotsTyped
  <2>2. media' \in Seq(Photo)
    BY <1>1, <1>8, <2>1, ArrayTyped DEF RenumberMedia, Request
  <2> QED
    BY <1>0, <1>1, <1>2, <1>8, <2>1, <2>2, Answered DEF RenumberMedia, store
<1>9. ASSUME NEW s \in Slot, EraseDraft(s)
      PROVE  WellFormed'
  <2>1. pc[s] = "erase" /\ UNCHANGED <<moves, version, asset, commits>>
    BY <1>9 DEF EraseDraft, store
  <2>2. media' \in Seq(Photo) /\ stage' \in Stage
    <3>1. CASE stage = "draft"
      <4>1. media' = << >> /\ stage' = "deleted"
        BY <1>9, <3>1 DEF EraseDraft
      <4> QED
        BY <4>1 DEF Stage
    <3>2. CASE stage # "draft"
      BY <1>1, <1>9, <3>2 DEF EraseDraft
    <3> QED
      BY <3>1, <3>2
  <2>3. CASE Answer(s)
    BY <1>0, <1>1, <1>2, <2>1, <2>2, <2>3, Answered
  <2>4. CASE Continue(s, "destroy")
    <3>1. SlotsTyped' /\ Elsewhere(s) /\ pc'[s] = "destroy" /\ req'[s] = req[s]
      BY <1>0, <2>1, <2>4, Continued DEF Step
    <3>2. Fits(req'[s], pc'[s])
      BY <2>1, <3>1 DEF Fits, InFlight
    <3> QED
      BY <1>1, <1>2, <2>1, <2>2, <3>1, <3>2
  <2> QED
    BY <1>9, <2>3, <2>4 DEF EraseDraft
<1>10. ASSUME NEW s \in Slot, DestroyAssets(s)
       PROVE  WellFormed'
  <2>1. asset' \in [Key -> Asset] /\ UNCHANGED <<stage, moves, media, version, commits>>
    BY <1>1, <1>10 DEF DestroyAssets, Asset
  <2> QED
    BY <1>0, <1>1, <1>2, <1>10, <2>1, Answered DEF DestroyAssets
<1>11. ASSUME NEW s \in Slot, Abort(s)
       PROVE  WellFormed'
  BY <1>0, <1>1, <1>2, <1>11, Answered DEF Abort, store
<1>12. CASE LifecycleMoves
  BY <1>1, <1>3, <1>12 DEF LifecycleMoves, store, Stage
<1>13. CASE UNCHANGED vars
  BY <1>1, <1>3, <1>13 DEF vars
<1> QED
  BY <1>0, <1>4, <1>5, <1>6, <1>7, <1>8, <1>9, <1>10, <1>11, <1>12, <1>13, StepCases

----------------------------------------------------------------------------
(* What the writes do to the array.                                        *)

SameKeys(photos, others) ==
    /\ Len(photos) = Len(others)
    /\ \A i \in 1 .. Len(photos) : photos[i].key = others[i].key

LEMMA SameKeysFacts ==
    ASSUME NEW photos \in Seq(Photo), NEW others \in Seq(Photo), SameKeys(photos, others)
    PROVE  /\ Keys(photos) = Keys(others)
           /\ KeysInOrder(photos) = KeysInOrder(others)
           /\ Unique(photos) => Unique(others)
<1>1. /\ Len(photos) \in Nat /\ DOMAIN photos = 1 .. Len(photos)
      /\ DOMAIN others = 1 .. Len(photos)
  BY DEF SameKeys
<1>2. \A i \in 1 .. Len(photos) : photos[i].key = others[i].key
  BY DEF SameKeys
<1> QED
  BY <1>1, <1>2 DEF Keys, KeysInOrder, Unique

LEMMA ExtendedFacts ==
    ASSUME NEW photos \in Seq(Photo), NEW photo \in Photo
    PROVE  LET longer == photos \o << photo >> IN
           /\ Len(longer) = Len(photos) + 1
           /\ longer \in Seq(Photo)
           /\ \A i \in 1 .. Len(photos) : longer[i] = photos[i]
           /\ longer[Len(photos) + 1] = photo
           /\ Keys(longer) = Keys(photos) \cup {photo.key}
           /\ KeysInOrder(longer) = Append(KeysInOrder(photos), photo.key)
           /\ photo.key \notin Keys(photos) /\ Unique(photos) => Unique(longer)
<1> DEFINE longer == photos \o << photo >>
           n == Len(photos)
<1>1. n \in Nat /\ DOMAIN photos = 1 .. n /\ photo.key \in Key
      /\ \A i \in 1 .. n : photos[i].key \in Key
  BY PhotoFacts DEF Photo
<1>2. /\ longer \in Seq(Photo) /\ Len(longer) = n + 1 /\ DOMAIN longer = 1 .. n + 1
      /\ \A i \in 1 .. n : longer[i] = photos[i]
      /\ longer[n + 1] = photo
  BY <1>1
<1> HIDE DEF longer, n
<1>3. \A i \in 1 .. n + 1 : i \in 1 .. n \/ i = n + 1
  BY <1>1
<1>4. Keys(longer) = Keys(photos) \cup {photo.key}
  <2>1. 1 .. n + 1 = 1 .. n \cup {n + 1}
    BY <1>1
  <2> QED
    BY <1>1, <1>2, <2>1 DEF Keys
<1>5. KeysInOrder(longer) = Append(KeysInOrder(photos), photo.key)
  <2>1. KeysInOrder(photos) = [i \in 1 .. n |-> photos[i].key]
    BY <1>1 DEF KeysInOrder
  <2>2. KeysInOrder(photos) \in Seq(Key) /\ Len(KeysInOrder(photos)) = n
    BY KeysFacts DEF n
  <2>3. KeysInOrder(longer) = [i \in 1 .. n + 1 |-> longer[i].key]
    BY <1>2 DEF KeysInOrder
  <2>4. KeysInOrder(longer) \in Seq(Key) /\ Len(KeysInOrder(longer)) = n + 1
    BY <1>2, KeysFacts
  <2>5. \A i \in 1 .. n + 1 : KeysInOrder(longer)[i] = Append(KeysInOrder(photos), photo.key)[i]
    BY <1>1, <1>2, <1>3, <2>1, <2>2, <2>3
  <2> QED
    BY <1>1, <2>2, <2>4, <2>5
<1>6. photo.key \notin Keys(photos) /\ Unique(photos) => Unique(longer)
  BY <1>1, <1>2, <1>3 DEF Keys, Unique
<1> QED
  BY <1>2, <1>4, <1>5, <1>6 DEF longer, n

\* A commit adds its photo at the end of the array as it is, or changes nothing.
LEMMA PushEffect ==
    ASSUME WellFormed, Sound, NEW s \in Slot, PushMedia(s)
    PROVE  /\ UNCHANGED <<stage, moves, version, asset, commits>>
           /\ req[s].op = "commit" /\ req[s].gone = {}
           /\ \/ UNCHANGED media
              \/ \E k \in Key :
                    /\ Pushes(s, k) /\ k \notin Keys(media)
                    /\ stage # "deleted" /\ Len(media) < MaxPhotos
                    /\ media' = media \o << [key |-> k, position |-> Len(req[s].read)] >>
                    /\ [key |-> k, position |-> Len(req[s].read)] \in Photo
                    /\ Len(media') = Len(media) + 1
                    /\ \A i \in 1 .. Len(media) : media'[i] = media[i]
                    /\ Keys(media') = Keys(media) \cup {k}
                    /\ KeysInOrder(media') = Append(KeysInOrder(media), k)
                    /\ Unique(media')
<1>1. /\ pc[s] = "push" /\ media \in Seq(Photo) /\ req[s] \in Request
      /\ Fits(req[s], "push")
  BY DEF PushMedia, WellFormed, TypeOK, InFlight
<1>2. PICK k \in Key : req[s].written = << [key |-> k, position |-> Len(req[s].read)] >>
  BY <1>1 DEF Fits
<1> DEFINE photo == [key |-> k, position |-> Len(req[s].read)]
<1>3. req[s].written[1].key = k /\ req[s].written = << photo >>
  BY <1>2
<1>4. photo \in Photo /\ photo.key = k
  BY <1>1 DEF Photo, Request
<1>5. req[s].op = "commit" /\ req[s].gone = {}
  BY <1>1 DEF Fits
<1>6. UNCHANGED <<stage, moves, version, asset, commits>>
  BY DEF PushMedia, store
<1>7. CASE stage # "deleted" /\ ~AlreadyAttached(s) /\ Room(s)
  <2>1. media' = media \o << photo >> /\ k \notin Keys(media) /\ Len(media) < MaxPhotos
    BY <1>3, <1>7 DEF PushMedia, AlreadyAttached, Room
  <2> HIDE DEF photo
  <2>2. /\ Len(media') = Len(media) + 1
        /\ \A i \in 1 .. Len(media) : media'[i] = media[i]
        /\ Keys(media') = Keys(media) \cup {k}
        /\ KeysInOrder(media') = Append(KeysInOrder(media), k)
        /\ Unique(media')
    BY <1>1, <1>4, <2>1, ExtendedFacts DEF Sound
  <2>3. Pushes(s, k)
    BY <1>1, <1>3 DEF Pushes
  <2> QED
    BY <1>4, <1>5, <1>6, <1>7, <2>1, <2>2, <2>3 DEF photo
<1>8. CASE ~(stage # "deleted" /\ ~AlreadyAttached(s) /\ Room(s))
  BY <1>5, <1>6, <1>8 DEF PushMedia
<1> QED
  BY <1>7, <1>8

\* A save writes what was made of a prefix of the array, or changes nothing.
LEMMA SaveEffect ==
    ASSUME WellFormed, Sound, Current, NEW s \in Slot, SaveMedia(s)
    PROVE  /\ UNCHANGED <<stage, moves, asset, commits>>
           /\ req[s].op \in {"remove", "reorder"} /\ WellMade(req[s])
           /\ \/ UNCHANGED <<media, version>> /\ Answer(s)
              \/ /\ stage # "deleted" /\ version = req[s].version /\ version' = version + 1
                 /\ media' = req[s].written
                 /\ Prefix(req[s])
                 /\ Keys(req[s].read) \subseteq Keys(media)
                 /\ Keys(media') = Keys(req[s].read) \ req[s].gone
                 /\ Unique(media') /\ Len(media') <= Len(media)
<1>1. /\ pc[s] = "save" /\ media \in Seq(Photo) /\ req[s] \in Request
      /\ Fits(req[s], "save")
  BY DEF SaveMedia, WellFormed, TypeOK, InFlight
<1>2. /\ req[s].op \in {"remove", "reorder"} /\ WellMade(req[s])
      /\ req[s].read \in Seq(Photo) /\ req[s].written \in Seq(Photo)
  BY <1>1 DEF Fits, Request
<1>3. UNCHANGED <<stage, moves, asset, commits>>
  BY DEF SaveMedia, store
<1>4. CASE ~UnchangedSince(s)
  BY <1>2, <1>3, <1>4 DEF SaveMedia
<1>5. CASE UnchangedSince(s)
  <2>1. /\ stage # "deleted" /\ version = req[s].version /\ version' = version + 1
        /\ media' = req[s].written
    BY <1>5 DEF SaveMedia, UnchangedSince
  <2>2. Prefix(req[s])
    BY <1>1, <2>1 DEF Current, UpToDate
  <2>3. Keys(req[s].read) \subseteq Keys(media)
    <3>1. /\ DOMAIN req[s].read = 1 .. Len(req[s].read) /\ DOMAIN media = 1 .. Len(media)
          /\ Len(req[s].read) \in Nat /\ Len(media) \in Nat
      BY <1>1, <1>2, PhotoFacts
    <3> QED
      BY <2>2, <3>1 DEF Prefix, Keys
  <2>4. Len(media') <= Len(media)
    BY <1>1, <1>2, <2>1, <2>2 DEF WellMade, Prefix
  <2>5. Keys(media') = Keys(req[s].read) \ req[s].gone /\ Unique(media')
    BY <1>2, <2>1 DEF WellMade
  <2> QED
    BY <1>2, <1>3, <2>1, <2>2, <2>3, <2>4, <2>5
<1> QED
  BY <1>4, <1>5

\* A renumbering leaves every photo in its place.
LEMMA RenumberEffect ==
    ASSUME WellFormed, Sound, Current, NEW s \in Slot, RenumberMedia(s)
    PROVE  /\ UNCHANGED <<stage, moves, version, asset, commits>>
           /\ req[s].op = "reorder" /\ req[s].written = Numbered(KeysInOrder(req[s].read))
           /\ SameKeys(media, media')
           /\ media' # media => stage # "deleted"
           /\ req[s].read = media /\ media' # media => media' = req[s].written
<1>1. /\ pc[s] = "renumber" /\ media \in Seq(Photo) /\ req[s] \in Request
      /\ Fits(req[s], "renumber")
  BY DEF RenumberMedia, WellFormed, TypeOK, InFlight
<1>2. /\ req[s].op = "reorder" /\ req[s].written = Numbered(KeysInOrder(req[s].read))
      /\ req[s].read \in Seq(Photo) /\ req[s].written \in Seq(Photo)
  BY <1>1 DEF Fits, Request
<1>3. UNCHANGED <<stage, moves, version, asset, commits>>
  BY DEF RenumberMedia, store
<1>4. CASE ~UnchangedSince(s)
  <2>1. media' = media
    BY <1>4 DEF RenumberMedia
  <2> QED
    BY <1>2, <1>3, <2>1 DEF SameKeys
<1>5. CASE UnchangedSince(s)
  <2> DEFINE n == Len(media)
             m == Len(req[s].read)
             written == req[s].written
  <2>1. stage # "deleted" /\ version = req[s].version
    BY <1>5 DEF UnchangedSince
  <2>2. Prefix(req[s])
    BY <1>1, <2>1 DEF Current, UpToDate
  <2>3. /\ n \in Nat /\ DOMAIN media = 1 .. n
        /\ m \in Nat /\ DOMAIN req[s].read = 1 .. m
    BY <1>1, <1>2, PhotoFacts
  <2>4. /\ KeysInOrder(req[s].read) \in Seq(Key) /\ Len(KeysInOrder(req[s].read)) = m
        /\ \A i \in 1 .. m : KeysInOrder(req[s].read)[i] = req[s].read[i].key
    BY <1>2, <2>3, KeysFacts
  <2>5. /\ DOMAIN written = 1 .. m /\ Len(written) = m
        /\ \A i \in 1 .. m :
               written[i] = [key |-> KeysInOrder(req[s].read)[i], position |-> i - 1]
    BY <1>2, <2>4, NumberedFacts
  <2>6. ASSUME NEW i \in 1 .. m
        PROVE  written[i].key = media[i].key
    <3>1. written[i] = [key |-> KeysInOrder(req[s].read)[i], position |-> i - 1]
      BY <2>5
    <3>2. written[i].key = req[s].read[i].key
      BY <2>4, <3>1
    <3> QED
      BY <2>2, <2>3, <3>2 DEF Prefix
  <2>7. media' = [i \in 1 .. n |-> IF i \in 1 .. m THEN written[i] ELSE media[i]]
    BY <1>5, <2>3, <2>5 DEF RenumberMedia
  <2>8. Len(media') = n
    BY <2>3, <2>7
  <2>9. \A i \in 1 .. n : media'[i].key = media[i].key
    BY <2>6, <2>7
  <2>10. SameKeys(media, media')
    BY <2>8, <2>9 DEF SameKeys
  <2>11. ASSUME req[s].read = media
         PROVE  media' = written
    <3>1. m = n
      BY <2>11
    <3>2. media' = [i \in 1 .. n |-> written[i]]
      BY <2>7, <3>1
    <3> QED
      BY <1>2, <2>5, <3>1, <3>2
  <2> QED
    BY <1>2, <1>3, <2>1, <2>10, <2>11
<1> QED
  BY <1>4, <1>5

----------------------------------------------------------------------------
(* The other layers.                                                       *)

\* No step attaches a photo twice or passes the cap.
LEMMA SoundStep ==
    ASSUME WellFormed, Sound, Current, [Next]_vars
    PROVE  Sound'
<1>0. TypeOK /\ Unique(media) /\ media \in Seq(Photo) /\ media' \in Seq(Photo)
  BY WellFormedStep DEF WellFormed, Sound, TypeOK
<1>1. ASSUME UNCHANGED media
      PROVE  Sound'
  BY <1>1 DEF Sound, Unique
<1>2. ASSUME Unique(media'), Len(media') <= MaxPhotos
      PROVE  Sound'
  BY <1>2 DEF Sound, Unique
<1>3. Len(media) \in Nat /\ Len(media) <= MaxPhotos /\ MaxPhotos \in Nat
  BY <1>0, CapAssumption DEF Sound
<1>4. CASE \/ \E k \in Key : CreateUploadSignature(k) \/ Upload(k)
           \/ \E s \in Slot : \E r, next : Arrival(s, r, next)
           \/ \E s \in Slot : DestroyAssets(s) \/ Abort(s)
           \/ LifecycleMoves
           \/ UNCHANGED vars
  BY <1>1, <1>4 DEF CreateUploadSignature, Upload, Arrival, DestroyAssets, Abort, LifecycleMoves, vars
<1>5. ASSUME NEW s \in Slot, PushMedia(s)
      PROVE  Sound'
  <2>1. \/ UNCHANGED media
        \/ Unique(media') /\ Len(media) < MaxPhotos /\ Len(media') = Len(media) + 1
    BY <1>5, PushEffect
  <2> QED
    BY <1>1, <1>2, <1>3, <2>1
<1>6. ASSUME NEW s \in Slot, SaveMedia(s)
      PROVE  Sound'
  <2>1. UNCHANGED media \/ (Unique(media') /\ Len(media') <= Len(media))
    BY <1>6, SaveEffect
  <2>2. Len(media') \in Nat
    BY <1>0
  <2> QED
    BY <1>1, <1>2, <1>3, <2>1, <2>2
<1>7. ASSUME NEW s \in Slot, RenumberMedia(s)
      PROVE  Sound'
  <2>1. SameKeys(media, media')
    BY <1>7, RenumberEffect
  <2>2. Len(media') = Len(media) /\ Unique(media')
    BY <1>0, <2>1, SameKeysFacts DEF SameKeys
  <2> QED
    BY <1>2, <1>3, <2>2
<1>8. ASSUME NEW s \in Slot, EraseDraft(s)
      PROVE  Sound'
  <2>1. UNCHANGED media \/ media' = << >>
    BY <1>8 DEF EraseDraft
  <2>2. Unique(<< >>) /\ Len(<< >>) = 0
    BY DEF Unique
  <2> QED
    BY <1>1, <1>2, <1>3, <2>1, <2>2
<1> QED
  BY <1>0, <1>4, <1>5, <1>6, <1>7, <1>8, StepCases

\* The array as the step leaves it still extends every array that was read on its
\* version: a step that would not increments the version or deletes the listing.
LEMMA CurrentStep ==
    ASSUME WellFormed, Sound, Current, [Next]_vars
    PROVE  Current'
<1>0. /\ TypeOK /\ SlotsTyped /\ Unique(media) /\ version \in Nat
      /\ media \in Seq(Photo) /\ media' \in Seq(Photo)
  BY WellFormedStep, TypedSlots DEF WellFormed, Sound, TypeOK
<1>1. /\ Len(media) \in Nat /\ DOMAIN media = 1 .. Len(media)
      /\ Len(media') \in Nat /\ DOMAIN media' = 1 .. Len(media')
  BY <1>0
<1> DEFINE Reaches(r) ==
               /\ Len(r.read) <= Len(media')
               /\ \A i \in DOMAIN r.read : media'[i].key = r.read[i].key
           Fine(t) ==
               pc'[t] \in {"save", "renumber"} =>
                   /\ req'[t].version <= version'
                   /\ stage' # "deleted" /\ version' = req'[t].version => Reaches(req'[t])
           Extends ==
               /\ Len(media) <= Len(media')
               /\ \A i \in 1 .. Len(media) : media'[i].key = media[i].key
<1>2. ASSUME \A t \in Slot : Fine(t)
      PROVE  Current'
  BY <1>2 DEF Current, UpToDate, Prefix
<1>3. ASSUME NEW t \in Slot, pc'[t] = pc[t], req'[t] = req[t],
             version' = version, stage' # "deleted" => stage # "deleted", Extends
      PROVE  Fine(t)
  <2>1. SUFFICES ASSUME pc[t] \in {"save", "renumber"}
                 PROVE  /\ req[t].version <= version
                        /\ stage' # "deleted" /\ version = req[t].version => Reaches(req[t])
    BY <1>3
  <2>2. req[t].version <= version /\ (UpToDate(t) => Prefix(req[t]))
    BY <2>1 DEF Current
  <2>3. req[t].read \in Seq(Photo)
    BY <1>0, <2>1 DEF SlotsTyped, Request
  <2>4. Len(req[t].read) \in Nat /\ DOMAIN req[t].read = 1 .. Len(req[t].read)
    BY <2>3
  <2>5. ASSUME Prefix(req[t])
        PROVE  Reaches(req[t])
    BY <1>1, <1>3, <2>4, <2>5 DEF Prefix
  <2> QED
    BY <1>3, <2>2, <2>5 DEF UpToDate
<1>4. ASSUME NEW t \in Slot, pc'[t] \notin {"save", "renumber"}
      PROVE  Fine(t)
  BY <1>4
<1>5. ASSUME NEW t \in Slot, stage' = "deleted", version' = version,
             pc'[t] = pc[t], req'[t] = req[t]
      PROVE  Fine(t)
  BY <1>5 DEF Current
<1>6. ASSUME NEW t \in Slot, version' = version + 1, pc'[t] = pc[t], req'[t] = req[t]
      PROVE  Fine(t)
  <2>1. SUFFICES ASSUME pc[t] \in {"save", "renumber"}
                 PROVE  req[t].version <= version' /\ version' # req[t].version
    BY <1>6
  <2>2. req[t].version <= version /\ req[t].version \in Nat
    BY <1>0, <2>1 DEF Current, SlotsTyped, Request
  <2> QED
    BY <1>0, <1>6, <2>2
<1>7. ASSUME UNCHANGED media
      PROVE  Extends
  BY <1>1, <1>7
<1> HIDE DEF Fine, Extends
<1>8. ASSUME UNCHANGED <<pc, req, media, version>>, stage' # "deleted" => stage # "deleted"
      PROVE  Current'
  BY <1>2, <1>3, <1>7, <1>8
<1>9. ASSUME NEW s \in Slot, Elsewhere(s), Fine(s), UNCHANGED version,
             stage' # "deleted" => stage # "deleted", Extends
      PROVE  Current'
  <2>1. ASSUME NEW t \in Slot \ {s}
        PROVE  Fine(t)
    BY <1>3, <1>9, <2>1 DEF Elsewhere
  <2> QED
    BY <1>2, <1>9, <2>1
<1>10. CASE \/ \E k \in Key : CreateUploadSignature(k) \/ Upload(k)
            \/ LifecycleMoves
            \/ UNCHANGED vars
  BY <1>8, <1>10 DEF CreateUploadSignature, Upload, LifecycleMoves, vars
<1>11. CASE \E s \in Slot : \E r, next : Arrival(s, r, next)
  <2>1. PICK s \in Slot : \E r, next : Arrival(s, r, next)
    BY <1>11
  <2>2. PICK r, next : Arrival(s, r, next)
    BY <2>1
  <2>3. Elsewhere(s) /\ pc'[s] = next /\ req'[s] = r
    BY <1>0, <2>2, Arrived
  <2>4. r.read = media /\ r.version = version /\ UNCHANGED <<stage, media, version>>
    BY <2>2 DEF Arrival
  <2>5. Fine(s)
    BY <1>0, <1>1, <2>3, <2>4 DEF Fine
  <2> QED
    BY <1>7, <1>9, <2>3, <2>4, <2>5
<1>12. ASSUME NEW s \in Slot, DestroyAssets(s) \/ Abort(s)
       PROVE  Current'
  <2>1. Answer(s) /\ UNCHANGED <<stage, media, version>>
    BY <1>12 DEF DestroyAssets, Abort
  <2>2. Elsewhere(s) /\ Fine(s)
    BY <1>0, <1>4, <2>1, Answered
  <2> QED
    BY <1>7, <1>9, <2>1, <2>2
<1>13. ASSUME NEW s \in Slot, PushMedia(s)
       PROVE  Current'
  <2>1. Elsewhere(s) /\ Fine(s)
    BY <1>0, <1>4, <1>13, Answered DEF PushMedia
  <2>2. /\ UNCHANGED <<stage, version>>
        /\ \/ UNCHANGED media
           \/ Len(media') = Len(media) + 1 /\ \A i \in 1 .. Len(media) : media'[i] = media[i]
    BY <1>13, PushEffect
  <2>3. ASSUME Len(media') = Len(media) + 1, \A i \in 1 .. Len(media) : media'[i] = media[i]
        PROVE  Extends
    BY <1>1, <2>3 DEF Extends
  <2>4. Extends
    BY <1>7, <2>2, <2>3
  <2> QED
    BY <1>9, <2>1, <2>2, <2>4
<1>14. ASSUME NEW s \in Slot, SaveMedia(s)
       PROVE  Current'
  <2>1. \/ UNCHANGED <<media, version>> /\ Answer(s)
        \/ version' = version + 1
    BY <1>14, SaveEffect
  <2>2. UNCHANGED stage /\ (Answer(s) \/ Continue(s, "destroy")) /\ pc[s] = "save"
    BY <1>14 DEF SaveMedia
  <2>3. Elsewhere(s) /\ pc'[s] \notin {"save", "renumber"}
    BY <1>0, <2>2, Answered, Continued DEF Step
  <2>4. Fine(s)
    BY <1>4, <2>3
  <2>5. CASE UNCHANGED <<media, version>>
    BY <1>7, <1>9, <2>2, <2>3, <2>4, <2>5
  <2>6. CASE version' = version + 1
    <3>1. ASSUME NEW t \in Slot \ {s}
          PROVE  Fine(t)
      BY <1>6, <2>3, <2>6, <3>1 DEF Elsewhere
    <3> QED
      BY <1>2, <2>4, <3>1
  <2> QED
    BY <2>1, <2>5, <2>6
<1>15. ASSUME NEW s \in Slot, RenumberMedia(s)
       PROVE  Current'
  <2>1. Elsewhere(s) /\ Fine(s)
    BY <1>0, <1>4, <1>15, Answered DEF RenumberMedia
  <2>2. UNCHANGED <<stage, version>> /\ SameKeys(media, media')
    BY <1>15, RenumberEffect
  <2>3. Extends
    BY <1>1, <2>2 DEF SameKeys, Extends
  <2> QED
    BY <1>9, <2>1, <2>2, <2>3
<1>16. ASSUME NEW s \in Slot, EraseDraft(s)
       PROVE  Current'
  <2>1. /\ pc[s] = "erase" /\ UNCHANGED version /\ (Answer(s) \/ Continue(s, "destroy"))
        /\ UNCHANGED <<stage, media>> \/ stage' = "deleted"
    BY <1>16 DEF EraseDraft
  <2>2. Elsewhere(s) /\ pc'[s] \notin {"save", "renumber"}
    BY <1>0, <2>1, Answered, Continued DEF Step
  <2>3. Fine(s)
    BY <1>4, <2>2
  <2>4. CASE UNCHANGED <<stage, media>>
    BY <1>7, <1>9, <2>1, <2>2, <2>3, <2>4
  <2>5. CASE stage' = "deleted"
    <3>1. ASSUME NEW t \in Slot \ {s}
          PROVE  Fine(t)
      BY <1>5, <2>1, <2>2, <2>5, <3>1 DEF Elsewhere
    <3> QED
      BY <1>2, <2>3, <3>1
  <2> QED
    BY <2>1, <2>4, <2>5
<1> QED
  BY <1>0, <1>10, <1>11, <1>12, <1>13, <1>14, <1>15, <1>16, StepCases

\* A request that is still in flight when the listing stands frozen read it before
\* the move that froze it.
LEMMA DatedStep ==
    ASSUME WellFormed, Sound, Dated, [Next]_vars
    PROVE  Dated'
<1>0. TypeOK /\ SlotsTyped /\ Unique(media) /\ moves \in Nat /\ moves' \in Nat
  BY WellFormedStep, TypedSlots DEF WellFormed, Sound, TypeOK
<1> DEFINE Fine(t) ==
               pc'[t] # "idle" =>
                   /\ req'[t].seen <= moves'
                   /\ stage' = "frozen" => req'[t].seen < moves'
<1>1. ASSUME \A t \in Slot : Fine(t)
      PROVE  Dated'
  BY <1>1 DEF Dated, InFlight
<1>2. ASSUME NEW t \in Slot, pc[t] # "idle" => pc'[t] # "idle" /\ req'[t] = req[t],
             pc'[t] # "idle" => pc[t] # "idle",
             UNCHANGED moves, stage' = "frozen" => stage = "frozen"
      PROVE  Fine(t)
  BY <1>2 DEF Dated, InFlight
<1>3. ASSUME NEW t \in Slot, pc'[t] = "idle"
      PROVE  Fine(t)
  BY <1>3
<1> HIDE DEF Fine
<1>4. ASSUME NEW s \in Slot, Elsewhere(s), UNCHANGED moves, stage' = "frozen" => stage = "frozen",
             Fine(s)
      PROVE  Dated'
  <2>1. ASSUME NEW t \in Slot \ {s}
        PROVE  Fine(t)
    BY <1>2, <1>4, <2>1 DEF Elsewhere
  <2> QED
    BY <1>1, <1>4, <2>1
<1>5. ASSUME UNCHANGED <<stage, moves, pc, req>>
      PROVE  Dated'
  BY <1>1, <1>2, <1>5
<1>6. CASE \/ \E k \in Key : CreateUploadSignature(k) \/ Upload(k)
           \/ UNCHANGED vars
  BY <1>5, <1>6 DEF CreateUploadSignature, Upload, vars
<1>7. CASE LifecycleMoves
  <2>1. UNCHANGED <<pc, req>> /\ moves' = moves + 1
    BY <1>7 DEF LifecycleMoves
  <2>2. ASSUME NEW t \in Slot, pc[t] # "idle"
        PROVE  req[t].seen <= moves /\ req[t].seen \in Nat
    BY <1>0, <2>2 DEF Dated, InFlight, SlotsTyped, Request
  <2>3. ASSUME NEW t \in Slot, pc[t] # "idle"
        PROVE  req[t].seen < moves' /\ req[t].seen <= moves'
    BY <1>0, <2>1, <2>2, <2>3
  <2>4. ASSUME NEW t \in Slot
        PROVE  Fine(t)
    BY <2>1, <2>3, <2>4 DEF Fine
  <2> QED
    BY <1>1, <2>4
<1>8. CASE \E s \in Slot : \E r, next : Arrival(s, r, next)
  <2>1. PICK s \in Slot : \E r, next : Arrival(s, r, next)
    BY <1>8
  <2>2. PICK r, next : Arrival(s, r, next)
    BY <2>1
  <2>3. Elsewhere(s) /\ req'[s] = r
    BY <1>0, <2>2, Arrived
  <2>4. r.seen = moves /\ UNCHANGED <<stage, moves>> /\ stage # "frozen"
    BY <2>2 DEF Arrival, Editable
  <2>5. Fine(s)
    BY <1>0, <2>3, <2>4 DEF Fine
  <2> QED
    BY <1>4, <2>3, <2>4, <2>5
<1>9. ASSUME NEW s \in Slot, PushMedia(s) \/ RenumberMedia(s) \/ DestroyAssets(s) \/ Abort(s)
      PROVE  Dated'
  <2>1. Answer(s) /\ UNCHANGED <<stage, moves>>
    BY <1>9 DEF PushMedia, RenumberMedia, DestroyAssets, Abort
  <2>2. Elsewhere(s) /\ pc'[s] = "idle"
    BY <1>0, <2>1, Answered
  <2> QED
    BY <1>3, <1>4, <2>1, <2>2
<1>10. ASSUME NEW s \in Slot, SaveMedia(s) \/ EraseDraft(s)
       PROVE  Dated'
  <2>1. /\ pc[s] # "idle" /\ UNCHANGED moves /\ (stage' = "frozen" => stage = "frozen")
        /\ Answer(s) \/ Continue(s, "destroy")
    BY <1>10 DEF SaveMedia, EraseDraft
  <2>2. CASE Answer(s)
    <3>1. Elsewhere(s) /\ pc'[s] = "idle"
      BY <1>0, <2>2, Answered
    <3> QED
      BY <1>3, <1>4, <2>1, <3>1
  <2>3. CASE Continue(s, "destroy")
    <3>1. Elsewhere(s) /\ pc'[s] = "destroy" /\ req'[s] = req[s]
      BY <1>0, <2>1, <2>3, Continued DEF Step
    <3>2. Fine(s)
      BY <1>2, <2>1, <3>1
    <3> QED
      BY <1>4, <2>1, <3>1, <3>2
  <2> QED
    BY <2>1, <2>2, <2>3
<1> QED
  BY <1>0, <1>6, <1>7, <1>8, <1>9, <1>10, StepCases

\* Nothing is destroyed of a photo that was committed once and is in the array.
LEMMA TrackedStep ==
    ASSUME WellFormed, Sound, Current, Tracked, [Next]_vars
    PROVE  Tracked'
<1>0. /\ TypeOK /\ SlotsTyped /\ Unique(media)
      /\ media \in Seq(Photo) /\ media' \in Seq(Photo)
      /\ commits \in [Key -> Nat] /\ asset \in [Key -> Asset]
  BY WellFormedStep, TypedSlots DEF WellFormed, Sound, TypeOK
<1> SUFFICES ASSUME NEW k \in Key
             PROVE  (/\ commits[k] = 0 => NotYetCommitted(k)
                     /\ commits[k] = 1 => CommittedOnce(k))'
  BY DEF Tracked
<1>1. (commits[k] = 0 => NotYetCommitted(k)) /\ (commits[k] = 1 => CommittedOnce(k))
  BY DEF Tracked
<1> DEFINE Goal == (/\ commits[k] = 0 => NotYetCommitted(k)
                    /\ commits[k] = 1 => CommittedOnce(k))'
           \* What a step that sends no commit may do without disturbing k.
           Sparing ==
               /\ asset'[k] = "destroyed" => asset[k] = "destroyed"
               /\ k \in Keys(media') => k \in Keys(media)
           Quiet(t) ==
               /\ Pushes(t, k)' => Pushes(t, k)
               /\ InFlight(t)' /\ k \in req'[t].gone =>
                      (InFlight(t) /\ k \in req[t].gone) \/ k \in Keys(media)
               /\ pc'[t] = "destroy" /\ k \in req'[t].gone =>
                      (pc[t] = "destroy" /\ k \in req[t].gone) \/ k \notin Keys(media')
<1>2. ASSUME commits'[k] = commits[k], Sparing, \A t \in Slot : Quiet(t)
      PROVE  Goal
  <2>1. CASE commits[k] = 0
    <3>1. NotYetCommitted(k)
      BY <1>1, <2>1
    <3>2. NotYetCommitted(k)'
      BY <1>2, <3>1 DEF NotYetCommitted
    <3> QED
      BY <1>2, <2>1, <3>2
  <2>2. CASE commits[k] = 1
    <3>1. CommittedOnce(k)
      BY <1>1, <2>2
    <3>2. ASSUME NEW s \in Slot, Pushes(s, k)'
          PROVE  /\ asset'[k] # "destroyed"
                 /\ k \notin Keys(media')
                 /\ \A t \in Slot : InFlight(t)' => k \notin req'[t].gone
                 /\ \A t \in Slot : Pushes(t, k)' => s = t
      <4>1. Pushes(s, k)
        BY <1>2, <3>2
      <4> QED
        BY <1>2, <3>1, <4>1 DEF CommittedOnce
    <3>3. ASSUME k \in Keys(media')
          PROVE  /\ asset'[k] # "destroyed"
                 /\ \A t \in Slot : pc'[t] = "destroy" => k \notin req'[t].gone
      BY <1>2, <3>1, <3>3 DEF CommittedOnce
    <3>4. CommittedOnce(k)'
      BY <3>2, <3>3 DEF CommittedOnce
    <3> QED
      BY <1>2, <2>2, <3>4
  <2> QED
    BY <1>2, <2>1, <2>2
<1>3. ASSUME NEW t \in Slot, pc'[t] = pc[t], req'[t] = req[t]
      PROVE  Quiet(t)
  BY <1>3 DEF Pushes, InFlight
<1>4. ASSUME NEW t \in Slot, pc'[t] = "idle"
      PROVE  Quiet(t)
  BY <1>4 DEF Pushes, InFlight
<1> SUFFICES Goal
  OBVIOUS
<1> HIDE DEF Goal, Sparing, Quiet
<1>5. ASSUME NEW s \in Slot, UNCHANGED commits, Sparing, Elsewhere(s), Quiet(s)
      PROVE  Goal
  <2>1. ASSUME NEW t \in Slot \ {s}
        PROVE  Quiet(t)
    BY <1>3, <1>5, <2>1 DEF Elsewhere
  <2> QED
    BY <1>2, <1>5, <2>1
<1>6. ASSUME NEW s \in Slot, UNCHANGED commits, Sparing, Answer(s)
      PROVE  Goal
  <2>1. Elsewhere(s) /\ pc'[s] = "idle"
    BY <1>0, <1>6, Answered
  <2> QED
    BY <1>4, <1>5, <1>6, <2>1
<1>7. ASSUME UNCHANGED <<pc, req, commits>>, Sparing
      PROVE  Goal
  BY <1>2, <1>3, <1>7
<1>8. ASSUME UNCHANGED <<asset, media>>
      PROVE  Sparing
  BY <1>8 DEF Sparing
<1>9. CASE \E key \in Key : CreateUploadSignature(key) \/ Upload(key)
  <2>1. UNCHANGED <<pc, req, commits, media>>
    BY <1>9 DEF CreateUploadSignature, Upload
  <2>2. Sparing
    BY <1>0, <1>9 DEF CreateUploadSignature, Upload, Sparing
  <2> QED
    BY <1>7, <2>1, <2>2
<1>10. CASE LifecycleMoves \/ UNCHANGED vars
  BY <1>7, <1>8, <1>10 DEF LifecycleMoves, vars, store
<1>11. CASE \E s \in Slot : \E r, next : Arrival(s, r, next)
  <2>1. PICK s \in Slot : \E r, next : Arrival(s, r, next)
    BY <1>11
  <2>2. PICK r, next : Arrival(s, r, next)
    BY <2>1
  <2>3. Elsewhere(s) /\ pc'[s] = next /\ req'[s] = r
    BY <1>0, <2>2, Arrived
  <2>4. UNCHANGED <<media, asset>> /\ Sparing /\ next # "destroy"
        /\ r.read = media /\ r.gone \subseteq Keys(media) /\ pc[s] = "idle"
    BY <1>8, <2>2 DEF Arrival, Fits
  <2>5. CASE next # "push" /\ UNCHANGED commits
    <3>1. Quiet(s)
      BY <2>3, <2>4, <2>5 DEF Quiet, Pushes
    <3> QED
      BY <1>5, <2>3, <2>4, <2>5, <3>1
  <2>6. ASSUME NEW key \in Key, next = "push",
               r.written = << [key |-> key, position |-> Len(media)] >>,
               commits' = [commits EXCEPT ![key] = @ + 1]
        PROVE  Goal
    <3>1. r.written[1].key = key /\ r.gone = {}
      BY <2>2, <2>6 DEF Arrival, Fits
    <3>2. CASE key # k
      <4>1. commits'[k] = commits[k]
        BY <1>0, <2>6, <3>2
      <4>2. Quiet(s)
        BY <2>3, <2>4, <3>1, <3>2 DEF Quiet, Pushes
      <4>3. \A t \in Slot : Quiet(t)
        BY <1>3, <2>3, <4>2 DEF Elsewhere
      <4> QED
        BY <1>2, <2>4, <4>1, <4>3
    <3>3. CASE key = k
      <4>1. commits'[k] = commits[k] + 1 /\ commits[k] \in Nat
        BY <1>0, <2>6, <3>3
      <4>2. CASE commits[k] = 0
        <5>1. NotYetCommitted(k)
          BY <1>1, <4>2
        <5>2. \A t \in Slot : Pushes(t, k)' => t = s
          BY <2>3, <5>1 DEF Elsewhere, Pushes, NotYetCommitted
        <5>3. \A t \in Slot : InFlight(t)' => k \notin req'[t].gone
          BY <2>3, <3>1, <5>1 DEF Elsewhere, InFlight, NotYetCommitted
        <5>4. asset'[k] # "destroyed" /\ k \notin Keys(media')
          BY <2>4, <5>1 DEF NotYetCommitted
        <5>5. CommittedOnce(k)'
          BY <5>2, <5>3, <5>4 DEF CommittedOnce
        <5> QED
          BY <4>1, <4>2, <5>5 DEF Goal
      <4>3. CASE commits[k] # 0
        BY <4>1, <4>3 DEF Goal
      <4> QED
        BY <4>2, <4>3
    <3> QED
      BY <3>2, <3>3
  <2> QED
    BY <2>2, <2>5, <2>6 DEF Arrival
<1>12. ASSUME NEW s \in Slot, PushMedia(s)
       PROVE  Goal
  <2>1. Answer(s) /\ pc[s] = "push"
    BY <1>12 DEF PushMedia
  <2>2. /\ UNCHANGED <<asset, commits>>
        /\ \/ UNCHANGED media
           \/ \E key \in Key : Pushes(s, key) /\ Keys(media') = Keys(media) \cup {key}
    BY <1>12, PushEffect
  <2>3. CASE UNCHANGED media
    BY <1>6, <1>8, <2>1, <2>2, <2>3
  <2>4. ASSUME NEW key \in Key, Pushes(s, key), Keys(media') = Keys(media) \cup {key}
        PROVE  Goal
    <3>1. CASE key # k
      <4>1. Sparing
        BY <2>2, <2>4, <3>1 DEF Sparing
      <4> QED
        BY <1>6, <2>1, <2>2, <4>1
    <3>2. CASE key = k
      <4>1. commits[k] # 0
        BY <1>1, <2>4, <3>2 DEF NotYetCommitted
      <4>2. ASSUME commits[k] = 1
            PROVE  CommittedOnce(k)'
        <5>1. CommittedOnce(k) /\ Pushes(s, k)
          BY <1>1, <2>4, <3>2, <4>2
        <5>2. Elsewhere(s) /\ pc'[s] = "idle"
          BY <1>0, <2>1, Answered
        <5>3. /\ asset'[k] # "destroyed"
              /\ \A t \in Slot : InFlight(t) => k \notin req[t].gone
              /\ \A t \in Slot : Pushes(t, k) => s = t
          BY <2>2, <5>1 DEF CommittedOnce
        <5>4. \A t \in Slot : pc'[t] = "destroy" => k \notin req'[t].gone
          BY <5>2, <5>3 DEF Elsewhere, InFlight
        <5>5. \A t \in Slot : ~Pushes(t, k)'
          BY <5>2, <5>3 DEF Elsewhere, Pushes
        <5> QED
          BY <5>3, <5>4, <5>5 DEF CommittedOnce
      <4> QED
        BY <2>2, <4>1, <4>2 DEF Goal
    <3> QED
      BY <3>1, <3>2
  <2> QED
    BY <2>2, <2>3, <2>4
<1>13. ASSUME NEW s \in Slot, SaveMedia(s)
       PROVE  Goal
  <2>1. /\ UNCHANGED <<asset, commits>>
        /\ \/ UNCHANGED media /\ Answer(s)
           \/ /\ Keys(req[s].read) \subseteq Keys(media)
              /\ Keys(media') = Keys(req[s].read) \ req[s].gone
    BY <1>13, SaveEffect
  <2>2. pc[s] = "save" /\ (Answer(s) \/ Continue(s, "destroy"))
    BY <1>13 DEF SaveMedia
  <2>3. CASE UNCHANGED media /\ Answer(s)
    BY <1>6, <1>8, <2>1, <2>3
  <2>4. CASE Keys(req[s].read) \subseteq Keys(media) /\ Keys(media') = Keys(req[s].read) \ req[s].gone
    <3>1. Sparing
      BY <2>1, <2>4 DEF Sparing
    <3>2. CASE Answer(s)
      BY <1>6, <2>1, <3>1, <3>2
    <3>3. CASE Continue(s, "destroy")
      <4>1. Elsewhere(s) /\ pc'[s] = "destroy" /\ req'[s] = req[s]
        BY <1>0, <2>2, <3>3, Continued DEF Step
      <4>2. Quiet(s)
        BY <2>2, <2>4, <4>1 DEF Quiet, Pushes, InFlight
      <4> QED
        BY <1>5, <2>1, <3>1, <4>1, <4>2
    <3> QED
      BY <2>2, <3>2, <3>3
  <2> QED
    BY <2>1, <2>3, <2>4
<1>14. ASSUME NEW s \in Slot, RenumberMedia(s)
       PROVE  Goal
  <2>1. UNCHANGED <<asset, commits>> /\ Answer(s) /\ SameKeys(media, media')
    BY <1>14, RenumberEffect DEF RenumberMedia
  <2>2. Keys(media) = Keys(media')
    BY <1>0, <2>1, SameKeysFacts
  <2>3. Sparing
    BY <2>1, <2>2 DEF Sparing
  <2> QED
    BY <1>6, <2>1, <2>3
<1>15. ASSUME NEW s \in Slot, EraseDraft(s)
       PROVE  Goal
  <2>1. UNCHANGED <<asset, commits>> /\ pc[s] = "erase"
    BY <1>15 DEF EraseDraft, store
  <2>2. CASE stage = "draft"
    <3>1. media' = << >> /\ Continue(s, "destroy")
      BY <1>15, <2>2 DEF EraseDraft
    <3>2. Keys(media') = {}
      BY <3>1 DEF Keys
    <3>3. Sparing
      BY <2>1, <3>2 DEF Sparing
    <3>4. Elsewhere(s) /\ pc'[s] = "destroy" /\ req'[s] = req[s]
      BY <1>0, <2>1, <3>1, Continued DEF Step
    <3>5. Quiet(s)
      BY <2>1, <3>2, <3>4 DEF Quiet, Pushes, InFlight
    <3> QED
      BY <1>5, <2>1, <3>3, <3>4, <3>5
  <2>3. CASE stage # "draft"
    <3>1. Answer(s) /\ UNCHANGED media
      BY <1>15, <2>3 DEF EraseDraft
    <3> QED
      BY <1>6, <1>8, <2>1, <3>1
  <2> QED
    BY <2>2, <2>3
<1>16. ASSUME NEW s \in Slot, DestroyAssets(s)
       PROVE  Goal
  <2>1. /\ pc[s] = "destroy" /\ Answer(s) /\ UNCHANGED <<media, commits>>
        /\ asset'[k] = "destroyed" => asset[k] = "destroyed" \/ k \in req[s].gone
    BY <1>16 DEF DestroyAssets
  <2>2. CASE k \notin req[s].gone
    <3>1. Sparing
      BY <2>1, <2>2 DEF Sparing
    <3> QED
      BY <1>6, <2>1, <3>1
  <2>3. CASE k \in req[s].gone
    <3>1. InFlight(s)
      BY <2>1 DEF InFlight
    <3>2. commits[k] # 0
      BY <1>1, <2>3, <3>1 DEF NotYetCommitted
    <3>3. ASSUME commits[k] = 1
          PROVE  CommittedOnce(k)'
      <4>1. CommittedOnce(k)
        BY <1>1, <3>3
      <4>2. k \notin Keys(media) /\ \A t \in Slot : ~Pushes(t, k)
        BY <2>1, <2>3, <3>1, <4>1 DEF CommittedOnce
      <4>3. Elsewhere(s) /\ pc'[s] = "idle"
        BY <1>0, <2>1, Answered
      <4>4. k \notin Keys(media') /\ \A t \in Slot : ~Pushes(t, k)'
        BY <2>1, <4>2, <4>3 DEF Elsewhere, Pushes
      <4> QED
        BY <4>4 DEF CommittedOnce
    <3> QED
      BY <2>1, <3>2, <3>3 DEF Goal
  <2> QED
    BY <2>2, <2>3
<1>17. ASSUME NEW s \in Slot, Abort(s)
       PROVE  Goal
  BY <1>6, <1>8, <1>17 DEF Abort, store
<1> QED
  BY <1>0, <1>9, <1>10, <1>11, <1>12, <1>13, <1>14, <1>15, <1>16, <1>17, StepCases

----------------------------------------------------------------------------
(* The theorems.                                                           *)

LEMMA IInvStep ==
    ASSUME IInv, [Next]_vars
    PROVE  IInv'
BY WellFormedStep, SoundStep, CurrentStep, DatedStep, TrackedStep DEF IInv

\* The strengthened invariant holds in every reachable state of any number of
\* overlapping requests (listings.service.ts, the photo operations).
THEOREM Invariance == Spec => []IInv
<1>1. Init => IInv
  BY Start
<1>2. IInv /\ [Next]_vars => IInv'
  BY IInvStep
<1> QED
  BY <1>1, <1>2, PTL DEF Spec

\* Type correctness: what is stored and what every request in flight holds are
\* arrays of photos, with natural numbers for positions.
THEOREM TypeCorrect == Spec => []TypeOK
<1>1. IInv => TypeOK
  BY DEF IInv, WellFormed
<1> QED
  BY <1>1, Invariance, PTL

\* A photo that is shown though its asset was destroyed had its commit sent twice
\* (commitUploadedMedia and the cleanup of removeMedia and deleteDraft).
THEOREM BrokenPhotosAreReplays == Spec => []BrokenOnlyByReplay
<1>1. IInv => BrokenOnlyByReplay
  <2> SUFFICES ASSUME IInv, NEW k \in Keys(media), asset[k] = "destroyed"
               PROVE  commits[k] > 1
    BY DEF BrokenOnlyByReplay
  <2>1. k \in Key /\ commits[k] \in Nat
    BY KeysFacts DEF IInv, WellFormed, TypeOK
  <2>2. commits[k] # 0
    BY <2>1 DEF IInv, Tracked, NotYetCommitted
  <2>3. commits[k] # 1
    BY <2>1 DEF IInv, Tracked, CommittedOnce
  <2> QED
    BY <2>1, <2>2, <2>3
<1> QED
  BY <1>1, Invariance, PTL

\* Each step of the array is a step of the gallery, or none.
LEMMA GalleryStep ==
    ASSUME IInv, [Next]_vars
    PROVE  [Gallery!GalleryNext]_(KeysInOrder(media))
<1> DEFINE g == KeysInOrder(media)
<1>0. /\ WellFormed /\ Sound /\ Current /\ TypeOK /\ Unique(media)
      /\ media \in Seq(Photo) /\ media' \in Seq(Photo)
  BY WellFormedStep DEF IInv, WellFormed, Sound, TypeOK
<1>1. /\ g \in Seq(Key) /\ Len(g) = Len(media) /\ Len(g) \in Nat
      /\ DOMAIN g = 1 .. Len(media) /\ DOMAIN media = 1 .. Len(media)
      /\ \A i \in 1 .. Len(media) : g[i] = media[i].key
      /\ Keys(media) = {g[i] : i \in DOMAIN g}
  <2>1. /\ g \in Seq(Key) /\ Len(g) = Len(media) /\ DOMAIN g = 1 .. Len(media)
        /\ DOMAIN media = 1 .. Len(media) /\ \A i \in 1 .. Len(media) : g[i] = media[i].key
    BY <1>0, KeysFacts
  <2> QED
    BY <2>1 DEF Keys
<1>2. /\ g' \in Seq(Key) /\ Len(g') = Len(media') /\ Len(g') \in Nat
      /\ DOMAIN media' = 1 .. Len(media') /\ g' = [i \in 1 .. Len(media') |-> media'[i].key]
  <2>1. /\ g' \in Seq(Key) /\ Len(g') = Len(media') /\ DOMAIN media' = 1 .. Len(media')
    BY <1>0, KeysFacts
  <2> QED
    BY <2>1 DEF KeysInOrder
<1>3. ASSUME UNCHANGED media
      PROVE  g' = g
  BY <1>3
<1>4. ASSUME Unique(media'), Keys(media') \subseteq Keys(media), Len(media') <= Len(media)
      PROVE  Gallery!Rearrange
  <2> DEFINE n == Len(media')
             pick == [i \in 1 .. n |-> CHOOSE j \in DOMAIN media : media[j].key = media'[i].key]
  <2>1. ASSUME NEW i \in 1 .. n
        PROVE  pick[i] \in DOMAIN media /\ media[pick[i]].key = media'[i].key
    <3>1. media'[i].key \in Keys(media)
      BY <1>2, <1>4 DEF Keys
    <3>2. \E j \in DOMAIN media : media[j].key = media'[i].key
      BY <3>1 DEF Keys
    <3> QED
      BY <3>2
  <2>2. pick \in [1 .. n -> DOMAIN g]
    BY <1>1, <2>1
  <2>3. n \in 0 .. Len(g)
    BY <1>1, <1>2, <1>4
  <2>4. ASSUME NEW i \in 1 .. n, NEW j \in 1 .. n, i # j
        PROVE  pick[i] # pick[j]
    BY <1>2, <1>4, <2>1, <2>4 DEF Unique
  <2>5. g' = [i \in 1 .. n |-> g[pick[i]]]
    <3>1. ASSUME NEW i \in 1 .. n
          PROVE  g[pick[i]] = media'[i].key
      BY <1>1, <2>1
    <3> QED
      BY <1>2, <3>1
  <2> HIDE DEF pick, n
  <2> QED
    BY <2>2, <2>3, <2>4, <2>5 DEF Gallery!Rearrange
<1> HIDE DEF g
<1>5. ASSUME \/ \E k \in Key : CreateUploadSignature(k) \/ Upload(k)
             \/ \E s \in Slot : \E r, next : Arrival(s, r, next)
             \/ \E s \in Slot : DestroyAssets(s) \/ Abort(s)
             \/ LifecycleMoves
             \/ UNCHANGED vars
      PROVE  g' = g
  <2>1. UNCHANGED media
    BY <1>5 DEF CreateUploadSignature, Upload, Arrival, DestroyAssets, Abort, LifecycleMoves, vars
  <2> QED
    BY <1>3, <2>1
<1>6. ASSUME NEW s \in Slot, PushMedia(s), media' # media
      PROVE  Gallery!GalleryNext
  <2>1. PICK k \in Key :
            /\ k \notin Keys(media) /\ Len(media) < MaxPhotos
            /\ KeysInOrder(media') = Append(KeysInOrder(media), k)
    BY <1>0, <1>6, PushEffect
  <2>2. k \notin Gallery!Attached
    BY <1>1, <2>1 DEF Gallery!Attached, g
  <2>3. Gallery!Attach(k)
    BY <1>1, <2>1, <2>2 DEF Gallery!Attach, g
  <2> QED
    BY <2>3 DEF Gallery!GalleryNext
<1>7. ASSUME NEW s \in Slot, SaveMedia(s), media' # media
      PROVE  Gallery!GalleryNext
  <2>1. Unique(media') /\ Len(media') <= Len(media) /\ Keys(media') \subseteq Keys(media)
    BY <1>0, <1>7, SaveEffect
  <2> QED
    BY <1>4, <2>1 DEF Gallery!GalleryNext
<1>8. ASSUME NEW s \in Slot, RenumberMedia(s)
      PROVE  g' = g
  <2>1. SameKeys(media, media')
    BY <1>0, <1>8, RenumberEffect
  <2> QED
    BY <1>0, <2>1, SameKeysFacts DEF g
<1>9. ASSUME NEW s \in Slot, EraseDraft(s), media' # media
      PROVE  Gallery!GalleryNext
  <2>1. media' = << >>
    BY <1>9 DEF EraseDraft
  <2>2. Unique(media') /\ Keys(media') = {} /\ Len(media') = 0
    BY <2>1 DEF Unique, Keys
  <2>3. Len(media') <= Len(media)
    BY <1>1, <2>2
  <2> QED
    BY <1>4, <2>2, <2>3 DEF Gallery!GalleryNext
<1>10. Gallery!GalleryNext \/ g' = g
  BY <1>0, <1>3, <1>5, <1>6, <1>7, <1>8, <1>9, StepCases
<1> QED
  BY <1>10 DEF g

\* The photos of a listing are a gallery: at most MAX_LISTING_PHOTOS, none twice,
\* whatever commits, removes and reorders overlap (pushMedia and the saves).
THEOREM MediaIsAGallery == Spec => ImplementsGallery
<1>1. Init => Gallery!GalleryInit
  BY DEF Init, Gallery!GalleryInit, KeysInOrder
<1>2. IInv /\ [Next]_vars => [Gallery!GalleryNext]_(KeysInOrder(media))
  BY GalleryStep
<1> QED
  BY <1>1, <1>2, Invariance, PTL DEF Spec, ImplementsGallery, Gallery!GallerySpec

\* A save loses the photos it was asked to remove and those it had not read,
\* no others; nothing else loses any before the listing goes.
THEOREM OnlyStaleSavesLosePhotos == Spec => PhotosLostOnlyByStaleSave
<1> DEFINE Lost == \A k \in Keys(media) \ Keys(media') :
                       \/ stage' = "deleted"
                       \/ \E s \in Slot :
                              /\ pc[s] = "save"
                              /\ k \in req[s].gone \/ k \notin Keys(req[s].read)
<1>1. ASSUME IInv, [Next]_vars
      PROVE  Lost \/ UNCHANGED vars
  <2>0. /\ WellFormed /\ Sound /\ Current /\ TypeOK /\ Unique(media)
        /\ media \in Seq(Photo) /\ media' \in Seq(Photo)
    BY <1>1, WellFormedStep DEF IInv, WellFormed, Sound, TypeOK
  <2>1. ASSUME Keys(media) \subseteq Keys(media')
        PROVE  Lost
    BY <2>1
  <2>2. CASE \/ \E k \in Key : CreateUploadSignature(k) \/ Upload(k)
             \/ \E s \in Slot : \E r, next : Arrival(s, r, next)
             \/ \E s \in Slot : DestroyAssets(s) \/ Abort(s)
             \/ LifecycleMoves
    <3>1. UNCHANGED media
      BY <2>2 DEF CreateUploadSignature, Upload, Arrival, DestroyAssets, Abort, LifecycleMoves
    <3> QED
      BY <2>1, <3>1
  <2>3. ASSUME NEW s \in Slot, PushMedia(s)
        PROVE  Lost
    <3>1. UNCHANGED media \/ \E k \in Key : Keys(media') = Keys(media) \cup {k}
      BY <2>0, <2>3, PushEffect
    <3> QED
      BY <2>1, <3>1
  <2>4. ASSUME NEW s \in Slot, SaveMedia(s)
        PROVE  Lost
    <3>1. UNCHANGED media \/ Keys(media') = Keys(req[s].read) \ req[s].gone
      BY <2>0, <2>4, SaveEffect
    <3>2. pc[s] = "save"
      BY <2>4 DEF SaveMedia
    <3> QED
      BY <2>1, <3>1, <3>2
  <2>5. ASSUME NEW s \in Slot, RenumberMedia(s)
        PROVE  Lost
    <3>1. SameKeys(media, media')
      BY <2>0, <2>5, RenumberEffect
    <3> QED
      BY <2>0, <2>1, <3>1, SameKeysFacts
  <2>6. ASSUME NEW s \in Slot, EraseDraft(s)
        PROVE  Lost
    <3>1. UNCHANGED media \/ stage' = "deleted"
      BY <2>6 DEF EraseDraft
    <3> QED
      BY <2>1, <3>1
  <2> QED
    BY <1>1, <2>0, <2>2, <2>3, <2>4, <2>5, <2>6, StepCases
<1> QED
  BY <1>1, Invariance, PTL DEF Spec, PhotosLostOnlyByStaleSave

\* Photos of a listing in review, public or out of the catalog are written only by
\* a request that passed assertEditable before the listing got there.
THEOREM FrozenForLaterRequests == Spec => PhotosFrozenForLaterRequests
<1> DEFINE Frozen == stage \notin Editable /\ media' # media =>
                         \E s \in Slot :
                             pc[s] \in {"push", "save", "renumber"} /\ req[s].seen < moves
<1>1. ASSUME IInv, [Next]_vars
      PROVE  Frozen
  <2>0. /\ WellFormed /\ Sound /\ Current /\ Dated /\ TypeOK /\ Unique(media) /\ stage \in Stage
    BY <1>1 DEF IInv, WellFormed, Sound, TypeOK
  <2> SUFFICES ASSUME stage \notin Editable, media' # media
               PROVE  \E s \in Slot : /\ pc[s] \in {"push", "save", "renumber"}
                                      /\ req[s].seen < moves
    OBVIOUS
  <2>1. ASSUME NEW s \in Slot, pc[s] \in {"push", "save", "renumber"}, stage # "deleted"
        PROVE  \E t \in Slot : /\ pc[t] \in {"push", "save", "renumber"}
                               /\ req[t].seen < moves
    <3>1. stage = "frozen" /\ InFlight(s)
      BY <2>0, <2>1 DEF Stage, InFlight
    <3>2. req[s].seen < moves
      BY <2>0, <3>1 DEF Dated
    <3> QED
      BY <2>1, <3>2
  <2>2. CASE \/ \E k \in Key : CreateUploadSignature(k) \/ Upload(k)
             \/ \E s \in Slot : \E r, next : Arrival(s, r, next)
             \/ \E s \in Slot : DestroyAssets(s) \/ Abort(s)
             \/ LifecycleMoves
             \/ UNCHANGED vars
    BY <2>2 DEF CreateUploadSignature, Upload, Arrival, DestroyAssets, Abort, LifecycleMoves, vars
  <2>3. ASSUME NEW s \in Slot, PushMedia(s)
        PROVE  pc[s] = "push" /\ stage # "deleted"
    BY <2>3 DEF PushMedia
  <2>4. ASSUME NEW s \in Slot, SaveMedia(s)
        PROVE  pc[s] = "save" /\ stage # "deleted"
    BY <2>4 DEF SaveMedia, UnchangedSince
  <2>5. ASSUME NEW s \in Slot, RenumberMedia(s)
        PROVE  pc[s] = "renumber" /\ stage # "deleted"
    BY <2>5 DEF RenumberMedia, UnchangedSince
  <2>6. ASSUME NEW s \in Slot, EraseDraft(s)
        PROVE  FALSE
    BY <2>6 DEF EraseDraft, Editable
  <2> QED
    BY <1>1, <2>0, <2>1, <2>2, <2>3, <2>4, <2>5, <2>6, StepCases
<1> QED
  BY <1>1, Invariance, PTL DEF Spec, PhotosFrozenForLaterRequests

----------------------------------------------------------------------------
(* Requests that find the array as they read it.                           *)

Writing(s) == pc[s] \in {"push", "save", "renumber"}

AsAsked(s) ==
    /\ media = Numbered(KeysInOrder(media)) => media' = Numbered(KeysInOrder(media'))
    /\ req[s].op = "commit" => SubSeq(media', 1, Len(media)) = media
    /\ req[s].op # "commit" => Keys(media') = Keys(media) \ req[s].gone

\* A slot whose request goes on is the one that steps.
LEMMA OnlyOneMoves ==
    ASSUME NEW s \in Slot, NEW t \in Slot, Elsewhere(t), pc'[s] # pc[s]
    PROVE  s = t
BY DEF Elsewhere

LEMMA FreshPush ==
    ASSUME IInv, NEW s \in Slot, PushMedia(s), req[s].read = media, media' # media
    PROVE  AsAsked(s)
<1>1. /\ WellFormed /\ Sound /\ media \in Seq(Photo)
      /\ Len(media) \in Nat /\ DOMAIN media = 1 .. Len(media)
  BY PhotoFacts DEF IInv, WellFormed, TypeOK
<1> DEFINE n == Len(media)
<1>2. PICK k \in Key :
          /\ media' = media \o << [key |-> k, position |-> n] >>
          /\ [key |-> k, position |-> n] \in Photo
  BY <1>1, PushEffect
<1> DEFINE photo == [key |-> k, position |-> n]
<1>3. req[s].op = "commit"
  BY <1>1, PushEffect
<1>4. photo.key = k
  OBVIOUS
<1> HIDE DEF photo
<1>5. /\ media' = media \o << photo >> /\ photo \in Photo
  BY <1>2 DEF photo
<1>6. /\ media' \in Seq(Photo) /\ Len(media') = n + 1
      /\ \A i \in 1 .. n : media'[i] = media[i]
      /\ media'[n + 1] = photo
  BY <1>1, <1>5, ExtendedFacts
<1>7. SubSeq(media', 1, n) = media
  BY <1>1, <1>6
<1>8. ASSUME media = Numbered(KeysInOrder(media))
      PROVE  media' = Numbered(KeysInOrder(media'))
  <2> DEFINE keys == KeysInOrder(media)
             longer == KeysInOrder(media')
  <2>1. /\ keys \in Seq(Key) /\ Len(keys) = n
        /\ \A i \in 1 .. n : keys[i] = media[i].key
    BY <1>1, KeysFacts
  <2>2. /\ longer \in Seq(Key) /\ Len(longer) = n + 1
        /\ \A i \in 1 .. n + 1 : longer[i] = media'[i].key
    BY <1>1, <1>6, KeysFacts
  <2>3. \A i \in 1 .. n : media[i] = [key |-> keys[i], position |-> i - 1]
    BY <1>8, <2>1, NumberedFacts
  <2>4. /\ Numbered(longer) \in Seq(Photo) /\ Len(Numbered(longer)) = n + 1
        /\ \A i \in 1 .. n + 1 : Numbered(longer)[i] = [key |-> longer[i], position |-> i - 1]
    BY <2>2, NumberedFacts
  <2> HIDE DEF keys, longer
  <2>5. ASSUME NEW i \in 1 .. n
        PROVE  media'[i] = Numbered(longer)[i]
    <3>1. longer[i] = keys[i]
      BY <1>1, <1>6, <2>1, <2>2
    <3> QED
      BY <1>1, <1>6, <2>3, <2>4, <3>1
  <2>6. media'[n + 1] = Numbered(longer)[n + 1]
    <3>1. n + 1 \in 1 .. n + 1 /\ (n + 1) - 1 = n
      BY <1>1
    <3>2. longer[n + 1] = k
      BY <1>4, <1>6, <2>2, <3>1
    <3>3. Numbered(longer)[n + 1] = [key |-> k, position |-> n]
      BY <2>4, <3>1, <3>2
    <3> QED
      BY <1>6, <3>3 DEF photo
  <2>7. \A i \in 1 .. n + 1 : media'[i] = Numbered(longer)[i]
    BY <1>1, <2>5, <2>6
  <2>8. media' = Numbered(longer)
    BY <1>6, <2>4, <2>7, SameArray
  <2> QED
    BY <2>8 DEF longer
<1> QED
  BY <1>3, <1>7, <1>8 DEF AsAsked

LEMMA FreshSave ==
    ASSUME IInv, NEW s \in Slot, SaveMedia(s), req[s].read = media, media' # media
    PROVE  AsAsked(s)
<1>1. WellFormed /\ Sound /\ Current
  BY DEF IInv
<1>2. /\ req[s].op \in {"remove", "reorder"} /\ WellMade(req[s])
      /\ media' = req[s].written /\ Keys(media') = Keys(req[s].read) \ req[s].gone
  BY <1>1, SaveEffect
<1> QED
  BY <1>2 DEF WellMade, AsAsked

LEMMA FreshRenumber ==
    ASSUME IInv, NEW s \in Slot, RenumberMedia(s), req[s].read = media, media' # media
    PROVE  AsAsked(s)
<1>1. /\ WellFormed /\ Sound /\ Current /\ media \in Seq(Photo) /\ pc[s] = "renumber"
  BY DEF IInv, WellFormed, TypeOK, RenumberMedia
<1>2. req[s].op = "reorder" /\ req[s].gone = {}
  BY <1>1 DEF WellFormed, InFlight, Fits
<1>3. media' = Numbered(KeysInOrder(media)) /\ SameKeys(media, media')
  BY <1>1, RenumberEffect
<1>4. KeysInOrder(media) \in Seq(Key)
  BY <1>1, KeysFacts
<1>5. media' \in Seq(Photo)
  BY <1>3, <1>4, NumberedFacts
<1>6. KeysInOrder(media') = KeysInOrder(media) /\ Keys(media') = Keys(media)
  BY <1>1, <1>3, <1>5, SameKeysFacts
<1> QED
  BY <1>2, <1>3, <1>6 DEF AsAsked

\* A request that meets the array it read does what its caller asked, and keeps
\* the positions 0..n-1 (commitUploadedMedia, removeMedia, reorderMedia alone).
THEOREM FreshRequests == Spec => FreshRequestsKeepTheGallery
<1> DEFINE Fresh(s) == Writing(s) /\ pc'[s] # pc[s] /\ req[s].read = media /\ media' # media
<1>1. ASSUME IInv, [Next]_vars, NEW s \in Slot, Fresh(s)
      PROVE  AsAsked(s)
  <2>0. /\ SlotsTyped /\ TypeOK /\ Unique(media)
    BY <1>1, TypedSlots DEF IInv, WellFormed, Sound
  <2>1. CASE \/ \E k \in Key : CreateUploadSignature(k) \/ Upload(k)
             \/ \E t \in Slot : \E r, next : Arrival(t, r, next)
             \/ \E t \in Slot : DestroyAssets(t) \/ Abort(t)
             \/ LifecycleMoves
             \/ UNCHANGED vars
    <3>1. UNCHANGED media
      BY <2>1 DEF CreateUploadSignature, Upload, Arrival, DestroyAssets, Abort, LifecycleMoves, vars
    <3> QED
      BY <1>1, <3>1
  <2>2. ASSUME NEW t \in Slot, PushMedia(t)
        PROVE  AsAsked(s)
    <3>1. Elsewhere(t)
      BY <2>0, <2>2, Answered DEF PushMedia
    <3>2. s = t
      BY <1>1, <3>1, OnlyOneMoves
    <3> QED
      BY <1>1, <2>2, <3>2, FreshPush
  <2>3. ASSUME NEW t \in Slot, SaveMedia(t)
        PROVE  AsAsked(s)
    <3>1. Elsewhere(t)
      BY <2>0, <2>3, Answered, Continued DEF SaveMedia, Step
    <3>2. s = t
      BY <1>1, <3>1, OnlyOneMoves
    <3> QED
      BY <1>1, <2>3, <3>2, FreshSave
  <2>4. ASSUME NEW t \in Slot, RenumberMedia(t)
        PROVE  AsAsked(s)
    <3>1. Elsewhere(t)
      BY <2>0, <2>4, Answered DEF RenumberMedia
    <3>2. s = t
      BY <1>1, <3>1, OnlyOneMoves
    <3> QED
      BY <1>1, <2>4, <3>2, FreshRenumber
  <2>5. ASSUME NEW t \in Slot, EraseDraft(t)
        PROVE  FALSE
    <3>1. pc[t] = "erase" /\ (Answer(t) \/ Continue(t, "destroy"))
      BY <2>5 DEF EraseDraft
    <3>2. Elsewhere(t)
      BY <2>0, <3>1, Answered, Continued DEF Step
    <3>3. s = t
      BY <1>1, <3>2, OnlyOneMoves
    <3> QED
      BY <1>1, <3>1, <3>3 DEF Writing
  <2> QED
    BY <1>1, <2>0, <2>1, <2>2, <2>3, <2>4, <2>5, StepCases
<1>2. ASSUME IInv, [Next]_vars
      PROVE  \A s \in Slot : Fresh(s) => AsAsked(s)
  BY <1>1, <1>2
<1>3. (\A s \in Slot : Fresh(s) => AsAsked(s)) <=>
      \A s \in Slot :
           /\ pc[s] \in {"push", "save", "renumber"} /\ pc'[s] # pc[s]
           /\ req[s].read = media /\ media' # media
           => /\ media = Numbered(KeysInOrder(media)) => media' = Numbered(KeysInOrder(media'))
              /\ req[s].op = "commit" => SubSeq(media', 1, Len(media)) = media
              /\ req[s].op # "commit" => Keys(media') = Keys(media) \ req[s].gone
  BY DEF Writing, AsAsked
<1> HIDE DEF Fresh
<1> QED
  BY <1>2, <1>3, Invariance, PTL DEF Spec, FreshRequestsKeepTheGallery
============================================================================
