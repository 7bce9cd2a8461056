------------------------ MODULE SavedListingsProofs ------------------------
(***************************************************************************)
(* Proofs about SavedListings, for any number of listings and calls and    *)
(* any cap.  That the hearts agree with the rows rests on what every call  *)
(* under way says of its listing: unless the copy is in doubt there, the   *)
(* call is the only one, the copy already has its outcome and the rows do  *)
(* not.                                                                    *)
(*                                                                         *)
(* The last section is about the other limit of the API, the rate limit,   *)
(* for any number of instances: each request let through is a count of its *)
(* own in one of the stores.                                               *)
(***************************************************************************)
EXTENDS SavedListings, RateLimit, FiniteSetTheorems, TLAPS

Copied == ids # NoIds \/ lookup \in Ids

\* The copy of the hook, or the one that is on its way to it.
Copy == IF ids # NoIds THEN ids ELSE lookup

Active(c) == job[c].at \in Underway

\* A lookup is made for an empty copy, while there is a session.
LookupOrCopy ==
    /\ lookup # NoIds => ids = NoIds
    /\ ~authenticated => ids = NoIds /\ lookup = NoIds

\* The browser waits for one call on a listing at most.
HeardOnce ==
    \A c, d \in Call :
        /\ c # d
        /\ job[c] # Idle /\ job[c].heard
        /\ job[d] # Idle /\ job[d].heard
        => job[c].listing # job[d].listing

\* What a lookup did not see, and what nobody waits for any more, is in doubt.
Doubted ==
    \A c \in Call :
        /\ Active(c)
        /\ \/ Copied /\ ~job[c].heard
           \/ lookup \in Ids
        => job[c].listing \in doubt

Outstanding ==
    \A c \in Call :
        Copied /\ Active(c) /\ job[c].listing \notin doubt =>
            /\ job[c].listing \in Copy <=> job[c].op = "save"
            /\ job[c].listing \in saved <=> job[c].op = "unsave"

Agreed ==
    Copied => \A l \in Listing \ doubt :
                  (\A c \in Call : Active(c) => job[c].listing # l)
                      => (l \in Copy <=> l \in saved)

IInv == TypeOK /\ LookupOrCopy /\ HeardOnce /\ Doubted /\ Outstanding /\ Agreed

----------------------------------------------------------------------------

\* Type correctness of the bookmarks.
THEOREM TypeCorrect == Spec => []TypeOK
<1>1. Init => TypeOK
  BY SavedAssumption DEF Init, TypeOK, Ids, Jobs, Idle
<1>2. TypeOK /\ [Next]_vars => TypeOK'
  <2> SUFFICES ASSUME TypeOK, [Next]_vars PROVE TypeOK'
    OBVIOUS
  <2> USE DEF TypeOK, Ids
  <2>1. CASE UNCHANGED vars
    BY <2>1 DEF vars, hook
  <2>2. ASSUME NEW c \in Call, Serve(c) \/ ServerFails(c) PROVE TypeOK'
    <3>1. job[c] \in Jobs /\ job[c].at \in {"sent", "found", "new", "under"}
      BY <2>2 DEF Serve, ServerFails, FindPublic, CheckSaved, CountSaved, Upsert, DeleteSave,
                  At, Jobs, Idle
    <3>2. PICK step \in {"found", "new", "under", "done", "failed"} : Reach(c, step)
      BY <2>2 DEF Serve, ServerFails, FindPublic, CheckSaved, CountSaved, Upsert, DeleteSave
    <3>3. job' \in [Call -> Jobs \cup {Idle}]
      BY <3>1, <3>2 DEF Reach, Jobs
    <3>4. saved' \in SUBSET Listing /\ UNCHANGED <<hook, doubt>>
      BY <2>2, <3>1 DEF Serve, ServerFails, FindPublic, CheckSaved, CountSaved, Upsert, DeleteSave,
                        At, Jobs
    <3> QED
      BY <3>3, <3>4 DEF hook
  <2>3. ASSUME NEW c \in Call, NEW l \in Listing, Toggle(c, l) PROVE TypeOK'
    <3>1. job' \in [Call -> Jobs \cup {Idle}]
      BY <2>3 DEF Toggle, Jobs
    <3>2. ids' \in SUBSET Listing
      BY <2>3 DEF Toggle
    <3> QED
      BY <3>1, <3>2, <2>3 DEF Toggle
  <2>4. ASSUME NEW c \in Call, Hear(c) PROVE TypeOK'
    <3>1. job[c] \in Jobs
      BY <2>4 DEF Hear, Succeed, Fail, LoseAnswer, Idle
    <3>2. RolledBack(ids, job[c].op, job[c].listing) \in Ids \cup {NoIds}
      BY <3>1 DEF RolledBack, Jobs
    <3>3. job' \in [Call -> Jobs \cup {Idle}]
      <4>1. [job[c] EXCEPT !.heard = FALSE] \in Jobs
        BY <3>1 DEF Jobs
      <4> QED
        BY <2>4, <4>1 DEF Hear, Succeed, Fail, LoseAnswer
    <3>4. ids' \in Ids \cup {NoIds} /\ doubt' \in SUBSET Listing
      BY <2>4, <3>1, <3>2 DEF Hear, Succeed, Fail, LoseAnswer, Jobs, hook
    <3>5. UNCHANGED <<saved, authenticated, flips, lookup>>
      BY <2>4 DEF Hear, Succeed, Fail, LoseAnswer, hook
    <3> QED
      BY <3>3, <3>4, <3>5
  <2>5. CASE Hook
    <3>1. CASE SessionGone
      <4>1. flips' \in 0 .. MaxFlips
        BY <3>1, SavedAssumption DEF SessionGone
      <4> QED
        BY <3>1, <4>1 DEF SessionGone
    <3>2. CASE SessionBack
      BY <3>2 DEF SessionBack
    <3>3. CASE ReadIds
      <4>1. Busy(Underway) \in SUBSET Listing
        BY DEF Busy, Underway, Jobs, Idle
      <4> QED
        BY <3>3, <4>1 DEF ReadIds
    <3>4. CASE IdsArrive
      BY <3>4 DEF IdsArrive
    <3>5. CASE LookupFails
      BY <3>5 DEF LookupFails
    <3> QED
      BY <2>5, <3>1, <3>2, <3>3, <3>4, <3>5 DEF Hook
  <2> QED
    BY <2>1, <2>2, <2>3, <2>4, <2>5 DEF Next
<1> QED
  BY <1>1, <1>2, PTL DEF Spec

----------------------------------------------------------------------------
(* The soft cap.                                                           *)

Admitted == { c \in Call : At(c, "save", "under") }

\* Never more listings are about to be inserted than there are calls.
LEMMA FewImages ==
    ASSUME NEW U \in SUBSET Call, NEW g
    PROVE  LET about == { g[c] : c \in U } IN
           IsFiniteSet(about) /\ Cardinality(about) <= Cardinality(Call)
<1> DEFINE about == { g[c] : c \in U }
           f == [c \in U |-> g[c]]
<1>1. f \in Surjection(U, about)
  BY DEF Surjection
<1>2. /\ IsFiniteSet(U) /\ Cardinality(U) \in Nat
      /\ Cardinality(U) <= Cardinality(Call) /\ Cardinality(Call) \in Nat
  BY FS_Subset, FS_CardinalityType, SavedAssumption
<1>3. IsFiniteSet(about) /\ Cardinality(about) <= Cardinality(U)
  BY <1>1, <1>2, FS_Surjection
<1>4. Cardinality(about) \in Nat
  BY <1>3, FS_CardinalityType
<1> QED
  BY <1>2, <1>3, <1>4

\* No step but a count that finds room promises a listing.
LEMMA PromisesShrink ==
    ASSUME TypeOK, [Next]_vars,
           ~ \E c \in Call : CountSaved(c) /\ RoomForMore(saved)
    PROVE  Promised' \subseteq Promised
<1> SUFFICES ASSUME NEW l \in Promised', l \notin Promised PROVE FALSE
  OBVIOUS
<1>1. CASE l \in saved'
  <2>1. l \notin saved
    BY DEF Promised
  <2>2. PICK c \in Call : Upsert(c)
    BY <1>1, <2>1 DEF Next, Serve, ServerFails, FindPublic, CheckSaved, CountSaved, DeleteSave,
                      Toggle, Hear, Succeed, Fail, LoseAnswer, Hook, SessionGone, SessionBack,
                      ReadIds, IdsArrive, LookupFails, vars
  <2>3. l = job[c].listing
    BY <1>1, <2>1, <2>2 DEF Upsert
  <2> QED
    BY <2>2, <2>3 DEF Upsert, Promised
<1>2. ASSUME NEW c \in Call, At(c, "save", "under")', l = job'[c].listing PROVE FALSE
  <2>1. ~(At(c, "save", "under") /\ job[c].listing = l)
    BY DEF Promised
  <2>2. job[c] \in Jobs \cup {Idle} /\ job'[c] # job[c]
    BY <1>2, <2>1 DEF At, TypeOK
  <2>3. CheckSaved(c) /\ job[c].listing \in saved
    <3>1. PICK d \in Call : \/ Serve(d) \/ ServerFails(d) \/ Hear(d)
                            \/ \E k \in Listing : Toggle(d, k)
      BY <2>2 DEF Next, Hook, SessionGone, SessionBack, ReadIds, IdsArrive, LookupFails, vars, hook
    <3>2. d = c
      BY <2>2, <3>1 DEF Serve, ServerFails, FindPublic, CheckSaved, CountSaved, Upsert, DeleteSave,
                        Reach, Toggle, Hear, Succeed, Fail, LoseAnswer, TypeOK
    <3>3. ~Hear(c) /\ ~(\E k \in Listing : Toggle(c, k)) /\ ~ServerFails(c)
      BY <1>2, <2>1, <2>2 DEF Hear, Succeed, Fail, LoseAnswer, Toggle, ServerFails, Reach, At, Idle,
                        TypeOK, Jobs
    <3>4. CheckSaved(c)
      BY <1>2, <2>2, <3>1, <3>2, <3>3 DEF Serve, FindPublic, CountSaved, Upsert, DeleteSave, Reach, At, Idle,
                        TypeOK, Jobs
    <3> QED
      BY <1>2, <2>2, <3>4 DEF CheckSaved, Reach, At, Idle, TypeOK, Jobs
  <2> QED
    BY <1>2, <2>2, <2>3 DEF CheckSaved, Reach, At, Idle, Promised, Jobs
<1> QED
  BY <1>1, <1>2 DEF Promised

\* With any number of calls at once the user's saved listings and those about to be
\* saved pass the cap by at most the number of calls less one.
THEOREM CapIsSoft == Spec => []CapHolds
<1> DEFINE N == Cardinality(Call)
<1>0. N \in Nat /\ Cap \in Nat \ {0}
  BY SavedAssumption, FS_CardinalityType
<1>1. Init => CapHolds
  <2> SUFFICES ASSUME Init PROVE CapHolds
    OBVIOUS
  <2>1. Promised = {}
    BY DEF Init, Promised, At
  <2> QED
    BY <1>0, <2>1, FS_EmptySet DEF CapHolds
<1>2. TypeOK /\ TypeOK' /\ CapHolds /\ [Next]_vars => CapHolds'
  <2> SUFFICES ASSUME TypeOK, TypeOK', CapHolds, [Next]_vars PROVE CapHolds'
    OBVIOUS
  <2>1. Promised \subseteq Listing /\ Promised' \subseteq Listing
    BY DEF Promised, TypeOK, Ids, At, Jobs, Idle
  <2>2. /\ IsFiniteSet(Promised) /\ Cardinality(Promised) \in Nat
        /\ IsFiniteSet(Promised') /\ Cardinality(Promised') \in Nat
    BY <2>1, SavedAssumption, FS_Subset, FS_CardinalityType
  <2>3. CASE \E c \in Call : CountSaved(c) /\ RoomForMore(saved)
    <3> DEFINE admitted == Admitted'
               listingOf == [c \in Call |-> job'[c].listing]
               about == { listingOf[c] : c \in admitted }
    <3>1. saved' = saved /\ IsFiniteSet(saved) /\ Cardinality(saved) \in Nat
      BY <2>3, SavedAssumption, FS_Subset, FS_CardinalityType DEF CountSaved, TypeOK, Ids
    <3>2. Cardinality(saved) < Cap
      BY <2>3 DEF RoomForMore
    <3>3. IsFiniteSet(about) /\ Cardinality(about) <= N
      <4>1. admitted \in SUBSET Call
        BY DEF Admitted
      <4> HIDE DEF admitted, listingOf
      <4> QED
        BY <4>1, FewImages
    <3>4. Promised' = saved \cup about
      BY <3>1 DEF Promised, Admitted
    <3>5. /\ Cardinality(about) \in Nat
          /\ Cardinality(saved \cap about) \in Nat
      BY <3>1, <3>3, FS_CardinalityType, FS_Subset
    <3>6. Cardinality(Promised') = Cardinality(saved) + Cardinality(about) - Cardinality(saved \cap about)
      BY <3>1, <3>3, <3>4, FS_Union
    <3> HIDE DEF about, N
    <3> QED
      BY <1>0, <2>2, <3>1, <3>2, <3>3, <3>5, <3>6 DEF CapHolds, N
  <2>4. CASE ~ \E c \in Call : CountSaved(c) /\ RoomForMore(saved)
    <3>1. Cardinality(Promised') <= Cardinality(Promised)
      BY <2>2, <2>4, PromisesShrink, FS_Subset
    <3> HIDE DEF N
    <3> QED
      BY <1>0, <2>2, <3>1 DEF CapHolds, N
  <2> QED
    BY <2>3, <2>4
<1> QED
  BY <1>1, <1>2, TypeCorrect, PTL DEF Spec

----------------------------------------------------------------------------
(* The copy and the rows.                                                  *)

LEMMA InvariantInitially == Init => IInv
<1> SUFFICES ASSUME Init PROVE IInv
  OBVIOUS
<1>1. TypeOK
  BY SavedAssumption DEF Init, TypeOK, Ids, Jobs, Idle
<1>2. ~Copied
  BY SavedAssumption DEF Init, Copied, Ids
<1>3. \A c \in Call : job[c] = Idle /\ ~Active(c)
  BY DEF Init, Active, Underway, Idle
<1> QED
  BY <1>1, <1>2, <1>3 DEF IInv, LookupOrCopy, HeardOnce, Doubted, Outstanding, Agreed, Init

\* One step of a call that the hook does not notice: what the rows hold of its own
\* listing is what Outstanding or Agreed asks for.
LEMMA CallStep ==
    ASSUME IInv, TypeOK', NEW c \in Call, UNCHANGED <<hook, doubt>>,
           Active(c),
           \A d \in Call \ {c} : job'[d] = job[d],
           job'[c] # Idle => /\ job'[c].listing = job[c].listing
                             /\ job'[c].op = job[c].op
                             /\ job'[c].heard = job[c].heard,
           ~Active(c)' => \/ job[c].listing \in doubt
                          \/ ~Copied
                          \/ job[c].listing \in saved' <=> job[c].op = "save",
           Active(c)' => UNCHANGED saved,
           \A l \in Listing : l # job[c].listing => (l \in saved' <=> l \in saved)
    PROVE  IInv'
<1> DEFINE k == job[c].listing
<1>0. /\ Copied' = Copied /\ Copy' = Copy
      /\ job[c] \in Jobs
  BY DEF Copied, Copy, Ids, hook, Active, Underway, IInv, TypeOK, Idle
<1>1. \A d \in Call : Active(d)' => /\ Active(d)
                                    /\ job'[d].listing = job[d].listing
                                    /\ job'[d].op = job[d].op
                                    /\ job'[d].heard = job[d].heard
  BY DEF Active, Underway, Idle
<1>2. LookupOrCopy'
  BY DEF IInv, LookupOrCopy, hook
<1>3. HeardOnce'
  BY <1>0 DEF IInv, HeardOnce, Jobs, Idle
<1>4. Doubted'
  BY <1>0, <1>1 DEF IInv, Doubted, hook, Ids
\* Another call on the same listing is one of two that both are heard, or in doubt.
<1>5. ASSUME Copied, k \notin doubt, NEW d \in Call \ {c}, Active(d) PROVE job[d].listing # k
  <2>1. job[c].heard /\ (job[d].heard \/ job[d].listing \in doubt)
    BY <1>5 DEF IInv, Doubted
  <2>2. job[d] # Idle /\ job[c] # Idle
    BY <1>5 DEF Active, Underway, Idle
  <2> QED
    BY <1>5, <2>1, <2>2 DEF IInv, HeardOnce
<1>6. Outstanding'
  <2> SUFFICES ASSUME NEW d \in Call, Copied, Active(d)', job'[d].listing \notin doubt
               PROVE  /\ job[d].listing \in Copy <=> job[d].op = "save"
                      /\ job[d].listing \in saved' <=> job[d].op = "unsave"
    BY <1>0, <1>1 DEF Outstanding, hook
  <2>1. Active(d) /\ job[d].listing \notin doubt
    BY <1>1
  <2>2. /\ job[d].listing \in Copy <=> job[d].op = "save"
        /\ job[d].listing \in saved <=> job[d].op = "unsave"
    BY <2>1 DEF IInv, Outstanding
  <2>3. CASE Active(c)'
    BY <2>2, <2>3
  <2>4. CASE ~Active(c)'
    <3>1. d # c
      BY <2>4
    <3>2. CASE k = job[d].listing
      BY <1>5, <2>1, <3>1, <3>2
    <3>3. CASE k # job[d].listing
      <4>1. job[d].listing \in Listing
        BY <2>1 DEF Active, Underway, Idle, IInv, TypeOK, Jobs
      <4> QED
        BY <2>2, <3>3, <4>1
    <3> QED
      BY <3>2, <3>3
  <2> QED
    BY <2>3, <2>4
<1>7. Agreed'
  <2> SUFFICES ASSUME Copied, NEW l \in Listing \ doubt,
                      \A d \in Call : Active(d)' => job'[d].listing # l
               PROVE  l \in Copy <=> l \in saved'
    BY <1>0 DEF Agreed, hook
  <2>1. CASE l # k
    <3>1. \A d \in Call : Active(d) => job[d].listing # l
      BY <2>1 DEF Active
    <3> QED
      BY <2>1, <3>1 DEF IInv, Agreed
  <2>2. CASE l = k
    <3>1. ~Active(c)'
      BY <1>1, <2>2
    <3>2. l \in Copy <=> job[c].op = "save"
      BY <2>2 DEF IInv, Outstanding
    <3> QED
      BY <2>2, <3>1, <3>2
  <2> QED
    BY <2>1, <2>2
<1> QED
  BY <1>2, <1>3, <1>4, <1>6, <1>7 DEF IInv

LEMMA ServedStep ==
    ASSUME IInv, TypeOK', NEW c \in Call, Serve(c) \/ ServerFails(c)
    PROVE  IInv'
<1>0. job[c] \in Jobs /\ Active(c) /\ UNCHANGED <<hook, doubt>>
  BY DEF Serve, ServerFails, FindPublic, CheckSaved, CountSaved, Upsert, DeleteSave, At,
         Active, Underway, IInv, TypeOK, Idle
<1>1. PICK step \in {"found", "new", "under", "done", "failed"} :
          /\ Reach(c, step)
          /\ \/ step # "done" /\ UNCHANGED saved
             \/ step = "done" /\ Upsert(c)
             \/ step = "done" /\ DeleteSave(c)
  BY DEF Serve, ServerFails, FindPublic, CheckSaved, CountSaved, Upsert, DeleteSave
<1>2. \A d \in Call \ {c} : job'[d] = job[d]
  BY <1>1 DEF Reach, IInv, TypeOK
<1>3. job'[c] = IF step \in {"done", "failed"} /\ ~job[c].heard
                THEN Idle ELSE [job[c] EXCEPT !.at = step]
  BY <1>1 DEF Reach, IInv, TypeOK
<1>4. job'[c] # Idle => /\ job'[c].listing = job[c].listing
                        /\ job'[c].op = job[c].op
                        /\ job'[c].heard = job[c].heard
  BY <1>0, <1>3 DEF Jobs
<1>5. ~Active(c)' => \/ job[c].listing \in doubt
                     \/ ~Copied
                     \/ job[c].listing \in saved' <=> job[c].op = "save"
  <2>1. CASE step = "done"
    BY <1>0, <1>1, <2>1 DEF Upsert, DeleteSave, At, IInv, TypeOK, Ids
  <2>2. CASE step # "done" /\ Active(c)'
    BY <2>2
  <2>3. CASE step # "done" /\ ~Active(c)'
    <3>1. ~job[c].heard
      BY <1>0, <1>1, <1>3, <2>3 DEF Active, Underway, Jobs
    <3> QED
      BY <1>0, <3>1 DEF IInv, Doubted
  <2> QED
    BY <2>1, <2>2, <2>3
<1>6. Active(c)' => UNCHANGED saved
  BY <1>0, <1>1, <1>3 DEF Active, Underway, Jobs, Idle
<1>7. \A l \in Listing : l # job[c].listing => (l \in saved' <=> l \in saved)
  BY <1>1 DEF Upsert, DeleteSave
<1> QED
  BY <1>0, <1>2, <1>4, <1>5, <1>6, <1>7, CallStep

LEMMA ToggleStep ==
    ASSUME IInv, TypeOK', NEW c \in Call, NEW l \in Listing, Toggle(c, l)
    PROVE  IInv'
<1>0. /\ Copied /\ Copy = ids /\ Copied' /\ Copy' = ids'
      /\ lookup = NoIds /\ lookup' = NoIds /\ ids \in Ids /\ ids' \in Ids
  BY SavedAssumption DEF Toggle, Copied, Copy, IInv, LookupOrCopy, TypeOK, Ids
<1>1. /\ \A d \in Call \ {c} : job'[d] = job[d]
      /\ job'[c] = [ at |-> "sent", listing |-> l, heard |-> TRUE,
                     op |-> IF l \in ids THEN "unsave" ELSE "save" ]
      /\ job[c] = Idle /\ ~Active(c) /\ Active(c)'
  BY DEF Toggle, IInv, TypeOK, Active, Underway, Idle
<1>2. \A d \in Call : job[d] # Idle /\ job[d].heard => job[d].listing # l
  BY DEF Toggle, Pending
<1>3. \A d \in Call \ {c} : Active(d)' <=> Active(d)
  BY <1>1 DEF Active
<1>4. LookupOrCopy'
  BY <1>0 DEF LookupOrCopy, Toggle
<1>5. HeardOnce'
  BY <1>1, <1>2 DEF IInv, HeardOnce
<1>6. Doubted'
  BY <1>0, <1>1, <1>3, SavedAssumption DEF IInv, Doubted, Toggle, Ids
\* Where the listing is not in doubt no other call is on it.
<1>7. ASSUME NEW d \in Call \ {c}, Active(d), job[d].listing = l PROVE l \in doubt
  <2>1. job[d] # Idle
    BY <1>7 DEF Active, Underway, Idle
  <2> QED
    BY <1>0, <1>2, <1>7, <2>1 DEF IInv, Doubted
<1>8. \A k \in Listing : k # l => (k \in ids' <=> k \in ids)
  BY DEF Toggle
<1>9. Outstanding'
  <2> SUFFICES ASSUME NEW d \in Call, Active(d)', job'[d].listing \notin doubt
               PROVE  /\ job'[d].listing \in ids' <=> job'[d].op = "save"
                      /\ job'[d].listing \in saved <=> job'[d].op = "unsave"
    BY <1>0 DEF Outstanding, Toggle
  <2>1. CASE d = c
    <3>1. l \in ids' <=> l \notin ids
      BY DEF Toggle
    <3>2. l \in ids <=> l \in saved
      BY <1>0, <1>1, <1>7, <2>1 DEF IInv, Agreed
    <3> QED
      BY <1>1, <2>1, <3>1, <3>2
  <2>2. CASE d # c
    <3>1. job'[d] = job[d] /\ Active(d) /\ job[d].listing # l
      BY <1>1, <1>3, <1>7, <2>2
    <3>2. job[d].listing \in Listing
      BY <3>1 DEF Active, Underway, Idle, IInv, TypeOK, Jobs
    <3>3. /\ job[d].listing \in Copy <=> job[d].op = "save"
          /\ job[d].listing \in saved <=> job[d].op = "unsave"
      BY <1>0, <3>1 DEF IInv, Outstanding
    <3> QED
      BY <1>0, <1>8, <3>1, <3>2, <3>3
  <2> QED
    BY <2>1, <2>2
<1>10. Agreed'
  <2> SUFFICES ASSUME NEW k \in Listing \ doubt,
                      \A d \in Call : Active(d)' => job'[d].listing # k
               PROVE  k \in ids' <=> k \in saved
    BY <1>0 DEF Agreed, Toggle
  <2>1. k # l
    BY <1>1
  <2>2. \A d \in Call : Active(d) => job[d].listing # k
    BY <1>1, <1>3
  <2> QED
    BY <1>0, <1>8, <2>1, <2>2 DEF IInv, Agreed
<1> QED
  BY <1>4, <1>5, <1>6, <1>9, <1>10 DEF IInv

\* Taking a click back touches its own listing alone, and undoes it.
LEMMA RollBack ==
    ASSUME TypeOK, NEW c \in Call, job[c] \in Jobs,
           ids' = RolledBack(ids, job[c].op, job[c].listing), UNCHANGED lookup
    PROVE  /\ Copied' = Copied
           /\ ids' = NoIds <=> ids = NoIds
           /\ \A l \in Listing : l # job[c].listing => (l \in Copy' <=> l \in Copy)
           /\ ids # NoIds => (job[c].listing \in Copy' <=> job[c].op = "unsave")
<1>1. CASE ids = NoIds
  BY <1>1 DEF RolledBack, Copied, Copy, Ids
<1>2. CASE ids # NoIds
  <2>1. ids \in Ids
    BY <1>2 DEF TypeOK
  <2>2. CASE job[c].op = "save"
    <3>1. ids' = ids \ {job[c].listing}
      BY <1>2, <2>2 DEF RolledBack
    <3> QED
      BY <1>2, <2>1, <2>2, <3>1, SavedAssumption DEF Copied, Copy, Ids
  <2>3. CASE job[c].op = "unsave"
    <3>1. ids' = ids \cup {job[c].listing}
      BY <1>2, <2>3 DEF RolledBack
    <3> QED
      BY <1>2, <2>1, <2>3, <3>1, SavedAssumption DEF Copied, Copy, Ids, Jobs
  <2> QED
    BY <2>2, <2>3 DEF Jobs
<1> QED
  BY <1>1, <1>2

LEMMA HeardStep ==
    ASSUME IInv, TypeOK', NEW c \in Call, Fail(c) \/ LoseAnswer(c)
    PROVE  IInv'
<1> DEFINE k == job[c].listing
<1>0. /\ job[c] \in Jobs /\ k \in Listing
      /\ UNCHANGED <<saved, authenticated, flips, lookup>>
  BY DEF Fail, LoseAnswer, IInv, TypeOK, Idle, Jobs
<1>1. /\ Copied' = Copied
      /\ ids' = NoIds <=> ids = NoIds
      /\ \A l \in Listing : l # k => (l \in Copy' <=> l \in Copy)
      /\ ids # NoIds => (k \in Copy' <=> job[c].op = "unsave")
  BY <1>0, RollBack DEF Fail, LoseAnswer, IInv
<1>2. \A d \in Call \ {c} : job'[d] = job[d]
  BY DEF Fail, LoseAnswer, IInv, TypeOK
<1>3. \/ job'[c] = Idle
      \/ job'[c] = [job[c] EXCEPT !.heard = FALSE]
  BY DEF Fail, LoseAnswer, IInv, TypeOK
<1>4. \A d \in Call : Active(d)' => Active(d) /\ job'[d].listing = job[d].listing
                                              /\ job'[d].op = job[d].op
  BY <1>0, <1>2, <1>3 DEF Active, Jobs, Idle, Underway
<1>5. /\ \A l \in Listing : l \notin doubt' => l \notin doubt
      /\ k \notin doubt' => Fail(c)
  BY DEF Fail, LoseAnswer
<1>6. LookupOrCopy'
  BY <1>0, <1>1 DEF IInv, LookupOrCopy
<1>7. HeardOnce'
  BY <1>0, <1>2, <1>3 DEF IInv, HeardOnce, Jobs, Idle
<1>8. Doubted'
  <2> SUFFICES ASSUME NEW d \in Call, Active(d)',
                      (Copied /\ ~job'[d].heard) \/ lookup \in Ids
               PROVE  job[d].listing \in doubt'
    BY <1>0, <1>1, <1>4 DEF Doubted, Ids
  <2>1. CASE d = c
    <3>1. job'[c] # Idle
      BY <2>1 DEF Active, Underway, Idle
    <3> QED
      BY <2>1, <3>1 DEF Fail, LoseAnswer, IInv, TypeOK
  <2>2. CASE d # c
    <3>1. job[d].listing \in Listing
      BY <1>4 DEF Active, Underway, Idle, IInv, TypeOK, Jobs
    <3> QED
      BY <1>2, <1>4, <1>5, <2>2, <3>1 DEF IInv, Doubted
  <2> QED
    BY <2>1, <2>2
\* If its listing is not in doubt, the call that fails was toggled on this copy.
<1>9. ASSUME Copied, k \notin doubt'
      PROVE  /\ ids # NoIds /\ Active(c) /\ job'[c] = Idle /\ k \notin doubt
             /\ k \in saved <=> job[c].op = "unsave"
             /\ \A d \in Call \ {c} : Active(d) => job[d].listing # k
  <2>1. Fail(c) /\ k \notin doubt /\ Active(c) /\ job'[c] = Idle /\ job[c] # Idle
    BY <1>0, <1>5, <1>9 DEF Fail, Active, Underway, IInv, TypeOK, Idle
  <2>2. job[c].heard /\ ids # NoIds
    BY <1>9, <2>1 DEF IInv, Doubted, Copied
  <2>3. k \in saved <=> job[c].op = "unsave"
    BY <1>9, <2>1 DEF IInv, Outstanding
  <2>4. ASSUME NEW d \in Call \ {c}, Active(d), job[d].listing = k PROVE FALSE
    <3>1. job[d].heard /\ job[d] # Idle
      BY <1>9, <2>1, <2>4 DEF IInv, Doubted, Active, Underway, Idle
    <3> QED
      BY <2>1, <2>2, <2>4, <3>1 DEF IInv, HeardOnce
  <2> QED
    BY <2>1, <2>2, <2>3, <2>4
<1>10. Outstanding'
  <2> SUFFICES ASSUME NEW d \in Call, Copied, Active(d)', job[d].listing \notin doubt'
               PROVE  /\ job[d].listing \in Copy' <=> job[d].op = "save"
                      /\ job[d].listing \in saved <=> job[d].op = "unsave"
    BY <1>0, <1>1, <1>4 DEF Outstanding
  <2>1. Active(d) /\ job[d].listing \in Listing /\ job[d].listing \notin doubt
    BY <1>4, <1>5 DEF Active, Underway, Idle, IInv, TypeOK, Jobs
  <2>2. job[d].listing # k
    <3> SUFFICES ASSUME job[d].listing = k PROVE FALSE
      OBVIOUS
    <3>1. d = c
      BY <1>9, <2>1
    <3> QED
      BY <1>9, <3>1 DEF Active, Idle, Underway
  <2> QED
    BY <1>1, <2>1, <2>2 DEF IInv, Outstanding
<1>11. Agreed'
  <2> SUFFICES ASSUME Copied, NEW l \in Listing \ doubt',
                      \A d \in Call : Active(d)' => job[d].listing # l
               PROVE  l \in Copy' <=> l \in saved
    BY <1>0, <1>1, <1>4 DEF Agreed
  <2>1. CASE l = k
    BY <1>1, <1>9, <2>1
  <2>2. CASE l # k
    <3>1. \A d \in Call : Active(d) => job[d].listing # l
      BY <1>2, <2>2 DEF Active
    <3> QED
      BY <1>1, <1>5, <2>2, <3>1 DEF IInv, Agreed
  <2> QED
    BY <2>1, <2>2
<1> QED
  BY <1>6, <1>7, <1>8, <1>10, <1>11 DEF IInv

LEMMA SucceedStep ==
    ASSUME IInv, TypeOK', NEW c \in Call, Succeed(c)
    PROVE  IInv'
<1>1. /\ \A d \in Call \ {c} : job'[d] = job[d]
      /\ job'[c] = Idle /\ ~Active(c) /\ ~Active(c)'
      /\ UNCHANGED <<saved, hook, doubt>>
  BY DEF Succeed, IInv, TypeOK, Active, Underway, Idle
<1>2. \A d \in Call : /\ Active(d)' <=> Active(d)
                      /\ Active(d) => job'[d] = job[d]
  BY <1>1 DEF Active
<1>3. Copied' = Copied /\ Copy' = Copy
  BY <1>1 DEF Copied, Copy, hook, Ids
<1>4. LookupOrCopy' /\ HeardOnce'
  BY <1>1 DEF IInv, LookupOrCopy, HeardOnce, hook
<1>5. Doubted'
  BY <1>1, <1>2, <1>3 DEF IInv, Doubted, hook, Ids
<1>6. Outstanding'
  BY <1>1, <1>2, <1>3 DEF IInv, Outstanding
<1>7. Agreed'
  BY <1>1, <1>2, <1>3 DEF IInv, Agreed
<1> QED
  BY <1>4, <1>5, <1>6, <1>7 DEF IInv

LEMMA HookStep ==
    ASSUME IInv, TypeOK', Hook
    PROVE  IInv'
<1>0. UNCHANGED <<saved, job>> /\ \A c \in Call : Active(c)' <=> Active(c)
  BY DEF Hook, SessionGone, SessionBack, ReadIds, IdsArrive, LookupFails, hook, Active
<1>1. HeardOnce'
  BY <1>0 DEF IInv, HeardOnce
<1>2. CASE SessionGone
  BY <1>0, <1>1, <1>2, SavedAssumption
     DEF SessionGone, IInv, LookupOrCopy, Copied, Doubted, Outstanding, Agreed, Ids
<1>3. CASE SessionBack
  BY <1>0, <1>1, <1>3, SavedAssumption
     DEF SessionBack, IInv, LookupOrCopy, Copied, Doubted, Outstanding, Agreed, Ids
<1>4. CASE ReadIds
  <2>1. ids = NoIds /\ ids' = NoIds /\ lookup' = saved /\ Copy' = saved
    BY <1>4, SavedAssumption DEF ReadIds, IInv, LookupOrCopy, Ids, Copy
  <2>2. \A c \in Call : Active(c) => job[c].listing \in doubt'
    BY <1>4 DEF ReadIds, Busy, Active
  <2>3. LookupOrCopy'
    BY <1>4, <2>1, SavedAssumption DEF ReadIds, IInv, LookupOrCopy, Ids
  <2>4. Doubted' /\ Outstanding' /\ Agreed'
    BY <1>0, <2>1, <2>2 DEF Doubted, Outstanding, Agreed
  <2> QED
    BY <1>1, <2>3, <2>4 DEF IInv
<1>5. CASE IdsArrive
  <2>1. /\ ids = NoIds /\ lookup \in Ids /\ ids' = lookup /\ lookup' = NoIds
        /\ Copied /\ Copied' /\ Copy' = Copy /\ authenticated /\ authenticated'
        /\ UNCHANGED doubt
    BY <1>5, SavedAssumption DEF IdsArrive, IInv, LookupOrCopy, Ids, Copy, Copied, TypeOK
  <2>2. LookupOrCopy'
    BY <2>1 DEF LookupOrCopy
  <2>3. Doubted'
    BY <1>0, <2>1, SavedAssumption DEF IInv, Doubted, Ids
  <2>4. Outstanding' /\ Agreed'
    BY <1>0, <2>1 DEF IInv, Outstanding, Agreed
  <2> QED
    BY <1>1, <2>2, <2>3, <2>4 DEF IInv
<1>6. CASE LookupFails
  <2>1. /\ ids' = {} /\ lookup' = NoIds /\ doubt' = Listing
        /\ authenticated' /\ authenticated
    BY <1>6 DEF LookupFails, IInv, LookupOrCopy, TypeOK
  <2>2. \A c \in Call : Active(c) => job[c].listing \in Listing
    BY DEF Active, Underway, Idle, IInv, TypeOK, Jobs
  <2>3. LookupOrCopy'
    BY <2>1 DEF LookupOrCopy
  <2>4. Doubted' /\ Outstanding' /\ Agreed'
    BY <1>0, <2>1, <2>2 DEF Doubted, Outstanding, Agreed
  <2> QED
    BY <1>1, <2>3, <2>4 DEF IInv
<1> QED
  BY <1>2, <1>3, <1>4, <1>5, <1>6 DEF Hook

\* The invariant of the bookmarks at both ends.
THEOREM Invariance == Spec => []IInv
<1>1. IInv /\ TypeOK' /\ [Next]_vars => IInv'
  <2> SUFFICES ASSUME IInv, TypeOK', [Next]_vars PROVE IInv'
    OBVIOUS
  <2>1. CASE UNCHANGED vars
    BY <2>1 DEF vars, hook, IInv, LookupOrCopy, HeardOnce, Doubted, Outstanding, Agreed,
                Copied, Copy, Active, Ids
  <2>2. ASSUME NEW c \in Call, Serve(c) \/ ServerFails(c) PROVE IInv'
    BY <2>2, ServedStep
  <2>3. ASSUME NEW c \in Call, Hear(c) PROVE IInv'
    BY <2>3, HeardStep, SucceedStep DEF Hear
  <2>4. ASSUME NEW c \in Call, NEW l \in Listing, Toggle(c, l) PROVE IInv'
    BY <2>4, ToggleStep
  <2>5. CASE Hook
    BY <2>5, HookStep
  <2> QED
    BY <2>1, <2>2, <2>3, <2>4, <2>5 DEF Next
<1> QED
  BY <1>1, InvariantInitially, TypeCorrect, PTL DEF Spec

\* For any number of listings and calls, however answers and failures are reordered and
\* the session flickers: where no call is under way the hearts show the rows, except
\* where an answer was lost or the lookup failed or came too early.
THEOREM HeartsAgree == Spec => []MirrorAgrees
<1>1. IInv => MirrorAgrees
  <2> SUFFICES ASSUME IInv, ids # NoIds, NEW l \in Listing, l \notin doubt \cup Busy(Underway)
               PROVE  l \in ids <=> l \in saved
    BY DEF MirrorAgrees
  <2>1. \A c \in Call : Active(c) => job[c].listing # l
    BY DEF Busy, Active
  <2> QED
    BY <2>1 DEF IInv, Agreed, Copied, Copy
<1> QED
  BY <1>1, Invariance, PTL

----------------------------------------------------------------------------
(* The other limit: the requests of a window.                              *)

\* The hits in each store that were let through, told apart by their numbers.
Passed == { h \in Store \X (1 .. Limit) : h[2] <= counted[h[1]] }

\* No request is let through but by a count of its own, and none of the instances
\* counts before Redis has failed.
LimitInv ==
    /\ LimitTypeOK
    /\ accepted = Cardinality(Passed)
    /\ ~fellBack => \A i \in Store \ {"redis"} : counted[i] = 0

LEMMA StoresAreFinite ==
    ASSUME NEW S \in SUBSET Store
    PROVE  /\ IsFiniteSet(S \X (1 .. Limit))
           /\ Cardinality(S \X (1 .. Limit)) = Cardinality(S) * Limit
           /\ Cardinality(S) \in Nat
           /\ Cardinality(Store) <= Cardinality(Instance) + 1
           /\ Cardinality(Instance) \in Nat
<1>1. IsFiniteSet(Instance) /\ Limit \in Nat
  BY LimitAssumption
<1>2. /\ IsFiniteSet(Store)
      /\ Cardinality(Store) <= Cardinality(Instance) + 1
      /\ Cardinality(Instance) \in Nat
  BY <1>1, FS_AddElement, FS_CardinalityType DEF Store
<1>3. IsFiniteSet(S) /\ Cardinality(S) \in Nat
  BY <1>2, FS_Subset, FS_CardinalityType
<1>4. IsFiniteSet(1 .. Limit) /\ Cardinality(1 .. Limit) = Limit
  BY <1>1, FS_Interval
<1> QED
  BY <1>2, <1>3, <1>4, FS_Product

LEMMA LimitInvInit == LimitInit => LimitInv
<1> SUFFICES ASSUME LimitInit
             PROVE  LimitInv
  OBVIOUS
<1>1. Limit \in Nat
  BY LimitAssumption
<1>2. Passed = {}
  BY <1>1 DEF LimitInit, Passed
<1>3. LimitTypeOK
  <2>1. 0 \in 0 .. Limit + 1
    BY <1>1
  <2> QED
    BY <2>1 DEF LimitInit, LimitTypeOK
<1> QED
  BY <1>2, <1>3, FS_EmptySet DEF LimitInit, LimitInv

LEMMA HitIsCounted ==
    ASSUME LimitInv, NEW x \in Store, Hit(x)
    PROVE  /\ counted' \in [Store -> 0 .. Limit + 1]
           /\ accepted' \in Nat
           /\ accepted' = Cardinality(Passed')
           /\ \A y \in Store \ {x} : counted'[y] = counted[y]
<1>1. /\ Limit \in Nat /\ counted \in [Store -> 0 .. Limit + 1] /\ accepted \in Nat
      /\ accepted = Cardinality(Passed)
  BY LimitAssumption DEF LimitInv, LimitTypeOK
<1>2. /\ counted' = [counted EXCEPT ![x] = @ + 1]
      /\ counted[x] \in Nat /\ counted[x] <= Limit
  BY <1>1 DEF Hit
<1>3. counted' \in [Store -> 0 .. Limit + 1]
  BY <1>1, <1>2
<1>4. IsFiniteSet(Passed)
  BY StoresAreFinite, FS_Subset DEF Passed
<1>5. CASE counted[x] < Limit
  <2> DEFINE h == <<x, counted[x] + 1>>
  <2>1. h \in Store \X (1 .. Limit) /\ h \notin Passed
    BY <1>1, <1>2, <1>5 DEF Passed
  <2>2. Passed' = Passed \cup {h}
    <3>1. ASSUME NEW g \in Store \X (1 .. Limit)
          PROVE  g[2] <= counted'[g[1]] <=> g[2] <= counted[g[1]] \/ g = h
      <4>1. PICK y \in Store, k \in 1 .. Limit : g = <<y, k>>
        OBVIOUS
      <4>2. CASE y = x
        BY <1>1, <1>2, <4>1, <4>2
      <4>3. CASE y # x
        BY <1>1, <1>2, <4>1, <4>3
      <4> QED
        BY <4>2, <4>3
    <3> HIDE DEF h
    <3> QED
      BY <2>1, <3>1 DEF Passed
  <2> HIDE DEF h
  <2>3. Cardinality(Passed') = Cardinality(Passed) + 1
    BY <1>4, <2>1, <2>2, FS_AddElement
  <2> QED
    BY <1>1, <1>2, <1>3, <1>5, <2>3 DEF Hit
<1>6. CASE ~(counted[x] < Limit)
  <2>1. Passed' = Passed
    <3>1. ASSUME NEW g \in Store \X (1 .. Limit)
          PROVE  g[2] <= counted'[g[1]] <=> g[2] <= counted[g[1]]
      <4>1. PICK y \in Store, k \in 1 .. Limit : g = <<y, k>>
        OBVIOUS
      <4>2. CASE y = x
        BY <1>1, <1>2, <1>6, <4>1, <4>2
      <4>3. CASE y # x
        BY <1>1, <1>2, <4>1, <4>3
      <4> QED
        BY <4>2, <4>3
    <3> QED
      BY <3>1 DEF Passed
  <2> QED
    BY <1>1, <1>2, <1>3, <1>6, <2>1 DEF Hit
<1> QED
  BY <1>5, <1>6

LEMMA LimitStep ==
    ASSUME LimitInv, [LimitNext]_limitVars
    PROVE  LimitInv'
<1>1. CASE UNCHANGED limitVars
  BY <1>1 DEF LimitInv, LimitTypeOK, Passed, limitVars
<1>2. CASE RedisMoves
  BY <1>2 DEF RedisMoves, LimitInv, LimitTypeOK, Passed
<1>3. ASSUME NEW i \in Instance, Increment(i)
      PROVE  LimitInv'
  <2>1. CASE redis /\ Hit("redis") /\ UNCHANGED <<redis, fellBack>>
    <3>1. "redis" \in Store
      BY DEF Store
    <3> QED
      BY <2>1, <3>1, HitIsCounted DEF LimitInv, LimitTypeOK
  <2>2. CASE FallBack(i)
    <3>1. i \in Store
      BY DEF Store
    <3> QED
      BY <2>2, <3>1, HitIsCounted DEF FallBack, LimitInv, LimitTypeOK
  <2> QED
    BY <1>3, <2>1, <2>2 DEF Increment
<1> QED
  BY <1>1, <1>2, <1>3 DEF LimitNext

LEMMA CountsAreBudgets ==
    ASSUME LimitInv
    PROVE  BudgetHolds
<1>1. Limit \in Nat /\ accepted = Cardinality(Passed)
  BY LimitAssumption DEF LimitInv
<1>2. CASE fellBack
  <2>1. Passed \in SUBSET (Store \X (1 .. Limit))
    BY DEF Passed
  <2>2. accepted <= Cardinality(Store) * Limit
    BY <1>1, <2>1, StoresAreFinite, FS_Subset, ZenonT(40)
  <2>3. /\ Cardinality(Store) \in Nat /\ Cardinality(Instance) \in Nat
        /\ Cardinality(Store) <= Cardinality(Instance) + 1
    BY StoresAreFinite
  <2>4. \A a, b, n \in Nat : a <= b => a * n <= n * b
    OBVIOUS
  <2>5. Cardinality(Store) * Limit <= Limit * (Cardinality(Instance) + 1)
    BY <1>1, <2>3, <2>4
  <2>6. accepted \in Nat /\ Cardinality(Store) * Limit \in Nat
    BY <1>1, <2>3 DEF LimitInv, LimitTypeOK
  <2> QED
    BY <1>1, <1>2, <2>2, <2>3, <2>5, <2>6 DEF BudgetHolds
<1>3. CASE ~fellBack
  <2> DEFINE mine == {"redis"} \X (1 .. Limit)
  <2>1. Passed \in SUBSET mine
    BY <1>1, <1>3 DEF Passed, LimitInv
  <2>2. "redis" \in Store
    BY DEF Store
  <2>3. IsFiniteSet(mine) /\ Cardinality(mine) = Limit
    <3>1. Cardinality({"redis"}) = 1
      BY FS_Singleton
    <3> QED
      BY <1>1, <2>2, <3>1, StoresAreFinite
  <2> HIDE DEF mine
  <2>4. accepted <= Limit
    BY <1>1, <2>1, <2>3, FS_Subset
  <2> QED
    BY <1>1, <1>3, <2>4 DEF BudgetHolds
<1> QED
  BY <1>2, <1>3

LEMMA BudgetIsKept == LimitInit /\ [][LimitNext]_limitVars => []BudgetHolds
BY LimitInvInit, LimitStep, CountsAreBudgets, PTL

\* The rest of the server.
CONSTANTS MaxAttempts, BaseDelay, MaxDelay, RetryAttempts, Escaped
VARIABLES database, phase, attempt, delay, failures,
          trustsAnyProxy, fatalHandled, closing, checking

Srv == INSTANCE Server

\* However often Redis comes and goes, and however many instances serve the caller: the
\* requests let through are at most one budget, and one more for each instance once an
\* increment has been made in memory (common/throttler/redis-throttler-storage.ts).
THEOREM ServerKeepsTheBudget == Srv!Spec => []BudgetHolds
<1>1. Srv!Init => LimitInit
  BY DEF Srv!Init, Srv!LimitInit, LimitInit, Srv!Store, Store
<1>2. [Srv!Next]_(Srv!vars) => [LimitNext]_limitVars
  BY DEF Srv!Next, Srv!vars, Srv!limitVars, limitVars, Srv!LimitNext, LimitNext,
         Srv!RedisMoves, RedisMoves, Srv!Increment, Increment, Srv!FallBack, FallBack,
         Srv!Hit, Hit
<1> QED
  BY <1>1, <1>2, BudgetIsKept, PTL DEF Srv!Spec
============================================================================
