---------------------- MODULE SellerVerificationProofs ----------------------
(***************************************************************************)
(* Proofs about SellerVerification, for any set of sellers, staff and      *)
(* requests in flight, and histories of any length.  The invariant has     *)
(* three layers: requests read a status they accept, what they read is     *)
(* stale only if a later row says why, and a status that is, or was read   *)
(* as, pending or verified has the rows that led to it.  A fourth, which   *)
(* needs that no transaction is retried after its save, ties the note and  *)
(* the status to the history as long as the history does not fork.         *)
(***************************************************************************)
EXTENDS SellerVerification, TLAPS

InFlight(s) == pc[s] # "idle"

Fits(r) ==
    /\ r.op = "request" => r.from \in {"unverified", "rejected"} /\ r.actor = r.seller
    /\ r.op \in {"approve", "reject"} => r.from = "pending" /\ r.actor \in Staff
    /\ ~CommitFaults => r.dirty

WellFormed ==
    /\ TypeOK
    /\ \A s \in Slot : InFlight(s) => Fits(req[s])

DatedRead(s) ==
    /\ req[s].seen <= Len(events[req[s].seller])
    /\ kycStatus[req[s].seller] # req[s].from => MovedSince(s, kycStatus[req[s].seller])

Dated == \A s \in Slot : InFlight(s) => DatedRead(s)

AskedFor(u) == \E i \in DOMAIN events[u] : events[u][i].to = "pending" /\ events[u][i].by = u

DecidedOn(u) ==
    \E i, j \in DOMAIN events[u] :
        /\ i < j
        /\ events[u][i].to = "pending"  /\ events[u][i].by = u
        /\ events[u][j].to = "verified" /\ events[u][j].by \in Staff

PastOf(u, st) ==
    /\ st = "pending" => AskedFor(u)
    /\ st = "verified" => DecidedOn(u)

Vouched ==
    /\ \A u \in Seller : PastOf(u, kycStatus[u])
    /\ \A s \in Slot : InFlight(s) => PastOf(req[s].seller, req[s].from)

IInv == WellFormed /\ Dated /\ Vouched

\* What the last row of an unforked history says is what the document holds.
InStep(u) ==
    /\ events[u] = << >> => kycStatus[u] = "unverified"
    /\ events[u] # << >> => kycStatus[u] = events[u][Len(events[u])].to
    /\ ~HistoryForks(u) => (hasNote[u] <=> kycStatus[u] = "rejected")

Noted ==
    /\ \A u \in Seller : InStep(u)
    /\ \A s \in Slot :
           InFlight(s) /\ ~HistoryForks(req[s].seller)
               => (req[s].noted <=> req[s].from = "rejected")

----------------------------------------------------------------------------

LEMMA Operations == Operation = {"request", "approve", "reject"}
BY DEF Operation, Target

LEMMA TargetOf ==
    ASSUME NEW op \in Operation
    PROVE  /\ Target[op] \in KycStatus
           /\ Target[op] = "pending" <=> op = "request"
           /\ Target[op] = "verified" <=> op = "approve"
           /\ Target[op] = "rejected" <=> op = "reject"
BY Operations DEF Target, KycStatus

LEMMA AppendedRow ==
    ASSUME NEW rows \in Seq(Event), NEW row \in Event
    PROVE  /\ DOMAIN rows = 1 .. Len(rows) /\ Len(rows) \in Nat
           /\ DOMAIN Append(rows, row) = 1 .. Len(rows) + 1
           /\ Len(Append(rows, row)) = Len(rows) + 1
           /\ \A i \in 1 .. Len(rows) : Append(rows, row)[i] = rows[i]
           /\ Append(rows, row)[Len(rows) + 1] = row
           /\ Append(rows, row) # << >>
OBVIOUS

\* What every new request has in common.
Arrives(s) ==
    \E r \in Request :
        /\ pc' = [pc EXCEPT ![s] = "commit"] /\ req' = [req EXCEPT ![s] = r]
        /\ Fits(r) /\ pc[s] = "idle"
        /\ r.from = kycStatus[r.seller] /\ r.noted = hasNote[r.seller]
        /\ r.seen = Len(events[r.seller])
        /\ UNCHANGED <<kycStatus, hasNote, events>>

LEMMA RequestArrives ==
    ASSUME TypeOK, NEW s \in Slot, NEW u \in Seller,
           \/ RequestVerification(s, u)
           \/ \E actor \in Staff : Approve(s, actor, u) \/ Reject(s, actor, u)
    PROVE  Arrives(s)
<1>1. Len(events[u]) \in Nat /\ kycStatus[u] \in KycStatus /\ hasNote[u] \in BOOLEAN
  BY DEF TypeOK
<1>2. CASE RequestVerification(s, u)
  BY <1>1, <1>2, Operations
  DEF RequestVerification, CanRequestVerificationFrom, Begin, Arrives, Request, Fits, users
<1>3. CASE \E actor \in Staff : Approve(s, actor, u) \/ Reject(s, actor, u)
  <2>1. PICK actor \in Staff : Approve(s, actor, u) \/ Reject(s, actor, u)
    BY <1>3
  <2>2. CASE Approve(s, actor, u)
    BY <1>1, <2>2, Operations
    DEF Approve, CanReviewVerificationFrom, Begin, Arrives, Request, Fits, users
  <2>3. CASE Reject(s, actor, u)
    BY <1>1, <2>3, Operations
    DEF Reject, CanReviewVerificationFrom, Begin, Arrives, Request, Fits, users
  <2> QED
    BY <2>1, <2>2, <2>3
<1> QED
  BY <1>2, <1>3

LEMMA StepCases ==
    ASSUME TypeOK, [Next]_vars
    PROVE  \/ \E s \in Slot : Arrives(s) \/ Commit(s) \/ RetryAfterSave(s) \/ Abort(s)
           \/ UNCHANGED vars
BY RequestArrives DEF Next

\* What a commit does, and to whom.
LEMMA CommitFacts ==
    ASSUME WellFormed, NEW s \in Slot, Commit(s)
    PROVE  /\ InFlight(s) /\ req[s] \in Request /\ req[s].seller \in Seller /\ Fits(req[s])
           /\ HistoryRow(req[s]) \in Event
           /\ HistoryRow(req[s]).from = req[s].from
           /\ HistoryRow(req[s]).to = Target[req[s].op]
           /\ HistoryRow(req[s]).by = req[s].actor
           /\ events' = [events EXCEPT ![req[s].seller] = Append(@, HistoryRow(req[s]))]
           /\ kycStatus' = [kycStatus EXCEPT ![req[s].seller] =
                                IF req[s].dirty THEN Target[req[s].op] ELSE @]
           /\ \A t \in Slot \ {s} : pc'[t] = pc[t] /\ req'[t] = req[t]
           /\ pc'[s] = "idle"
<1>1. InFlight(s) /\ req[s] \in Request /\ req[s].seller \in Seller /\ Fits(req[s])
  BY DEF Commit, WellFormed, TypeOK, Request, InFlight
<1>2. /\ HistoryRow(req[s]) \in Event
      /\ HistoryRow(req[s]).from = req[s].from
      /\ HistoryRow(req[s]).to = Target[req[s].op]
      /\ HistoryRow(req[s]).by = req[s].actor
  BY <1>1, TargetOf DEF HistoryRow, Event, Request
<1>3. /\ \A t \in Slot \ {s} : pc'[t] = pc[t] /\ req'[t] = req[t]
      /\ pc'[s] = "idle"
  BY DEF Commit, Answer, WellFormed, TypeOK
<1> QED
  BY <1>1, <1>2, <1>3 DEF Commit, WrittenStatus

LEMMA WellFormedInit == Init => WellFormed
BY DEF Init, WellFormed, TypeOK, InFlight, KycStatus

LEMMA WellFormedStep ==
    ASSUME WellFormed, [Next]_vars
    PROVE  WellFormed'
<1> USE DEF InFlight
<1>1. ASSUME NEW s \in Slot, Arrives(s)
      PROVE  WellFormed'
  BY <1>1 DEF Arrives, WellFormed, TypeOK, Fits
<1>2. ASSUME NEW s \in Slot, Commit(s)
      PROVE  WellFormed'
  <2> DEFINE u == req[s].seller
             row == HistoryRow(req[s])
  <2>1. u \in Seller /\ row \in Event /\ req[s].op \in Operation
    BY <1>2, CommitFacts DEF Request
  <2>2. events' = [events EXCEPT ![u] = Append(@, row)]
    BY <1>2, CommitFacts
  <2>3. kycStatus' \in [Seller -> KycStatus]
    <3>1. Target[req[s].op] \in KycStatus
      BY <2>1, TargetOf
    <3> QED
      BY <1>2, <2>1, <3>1, CommitFacts DEF WellFormed, TypeOK
  <2>4. hasNote' \in [Seller -> BOOLEAN]
    BY <1>2, <2>1 DEF Commit, WrittenNote, LeavesNote, WellFormed, TypeOK
  <2>5. pc' \in [Slot -> {"idle", "commit"}] /\ req' \in [Slot -> Request \cup {NoRequest}]
    BY <1>2 DEF Commit, Answer, WellFormed, TypeOK
  <2>6. \A t \in Slot : pc'[t] # "idle" => req'[t] \in Request /\ Fits(req'[t])
    BY <1>2, CommitFacts DEF WellFormed, TypeOK
  <2> HIDE DEF u, row
  <2>7. Append(events[u], row) \in Seq(Event)
    BY <2>1 DEF WellFormed, TypeOK
  <2>8. events' \in [Seller -> Seq(Event)]
    BY <2>1, <2>2, <2>7 DEF WellFormed, TypeOK
  <2> QED
    BY <2>3, <2>4, <2>5, <2>6, <2>8 DEF WellFormed, TypeOK, Fits
<1>3. ASSUME NEW s \in Slot, RetryAfterSave(s)
      PROVE  WellFormed'
  <2> DEFINE r == [req[s] EXCEPT !.dirty = FALSE]
  <2>1. req[s] \in Request /\ r \in Request
    BY <1>3 DEF RetryAfterSave, WellFormed, TypeOK, Request
  <2>2. r.op = req[s].op /\ r.from = req[s].from /\ r.actor = req[s].actor
        /\ r.seller = req[s].seller
    BY <2>1 DEF Request
  <2>3. Fits(r)
    BY <1>3, <2>1, <2>2 DEF RetryAfterSave, WellFormed, Fits
  <2>4. req' = [req EXCEPT ![s] = r] /\ UNCHANGED <<kycStatus, hasNote, events, pc>>
    BY <1>3 DEF RetryAfterSave, users
  <2> HIDE DEF r
  <2> QED
    BY <2>1, <2>3, <2>4 DEF WellFormed, TypeOK, Fits
<1>4. ASSUME NEW s \in Slot, Abort(s)
      PROVE  WellFormed'
  BY <1>4 DEF Abort, Answer, users, WellFormed, TypeOK, Fits
<1>5. CASE UNCHANGED vars
  BY <1>5 DEF vars, WellFormed, TypeOK, Fits
<1> QED
  BY <1>1, <1>2, <1>3, <1>4, <1>5, StepCases DEF WellFormed

----------------------------------------------------------------------------
(* Dated and Vouched.                                                      *)

\* A seller's document and history, when request s commits.
LEMMA SellerStep ==
    ASSUME WellFormed, NEW s \in Slot, Commit(s), NEW u \in Seller
    PROVE  \/ /\ u # req[s].seller
              /\ kycStatus'[u] = kycStatus[u] /\ hasNote'[u] = hasNote[u]
              /\ events'[u] = events[u]
           \/ \E row \in Event :
                 /\ u = req[s].seller /\ row = HistoryRow(req[s])
                 /\ kycStatus'[u] = IF req[s].dirty THEN row.to ELSE kycStatus[u]
                 /\ DOMAIN events[u] = 1 .. Len(events[u]) /\ Len(events[u]) \in Nat
                 /\ DOMAIN events'[u] = 1 .. Len(events[u]) + 1
                 /\ Len(events'[u]) = Len(events[u]) + 1
                 /\ \A i \in 1 .. Len(events[u]) : events'[u][i] = events[u][i]
                 /\ events'[u][Len(events[u]) + 1] = row
                 /\ events'[u] # << >>
<1>1. CASE u # req[s].seller
  BY <1>1 DEF Commit, WellFormed, TypeOK
<1>2. CASE u = req[s].seller
  <2> DEFINE row == HistoryRow(req[s])
  <2>1. row \in Event /\ row.to = Target[req[s].op]
    BY CommitFacts
  <2>2. events[u] \in Seq(Event) /\ events \in [Seller -> Seq(Event)]
    BY DEF WellFormed, TypeOK
  <2>3. events' = [events EXCEPT ![u] = Append(@, row)]
    BY <1>2, CommitFacts
  <2>4. kycStatus' = [kycStatus EXCEPT ![u] = IF req[s].dirty THEN Target[req[s].op] ELSE @]
    BY <1>2, CommitFacts
  <2>5. kycStatus'[u] = IF req[s].dirty THEN row.to ELSE kycStatus[u]
    BY <2>1, <2>4 DEF WellFormed, TypeOK
  <2> HIDE DEF row
  <2>6. events'[u] = Append(events[u], row)
    BY <2>2, <2>3
  <2> QED
    BY <1>2, <2>1, <2>2, <2>5, <2>6, AppendedRow, SMTT(40) DEF row
<1> QED
  BY <1>1, <1>2

LEMMA HistoryGrows ==
    ASSUME WellFormed, NEW s \in Slot, Commit(s), NEW u \in Seller
    PROVE  /\ DOMAIN events[u] \subseteq DOMAIN events'[u]
           /\ \A k \in DOMAIN events[u] : events'[u][k] = events[u][k]
BY SellerStep

LEMMA DatedInit == Init => Dated
BY DEF Init, Dated, InFlight

LEMMA DatedStep ==
    ASSUME WellFormed, Dated, WellFormed', [Next]_vars
    PROVE  Dated'
<1> SUFFICES ASSUME NEW t \in Slot, InFlight(t)'
             PROVE  DatedRead(t)'
  BY DEF Dated
<1>1. ASSUME NEW s \in Slot, Arrives(s)
      PROVE  DatedRead(t)'
  <2>1. PICK r \in Request :
            /\ pc' = [pc EXCEPT ![s] = "commit"] /\ req' = [req EXCEPT ![s] = r]
            /\ r.from = kycStatus[r.seller] /\ r.seen = Len(events[r.seller])
            /\ UNCHANGED <<kycStatus, events>>
    BY <1>1 DEF Arrives
  <2>2. CASE t = s
    <3>1. req'[t] = r /\ events[r.seller] \in Seq(Event)
      BY <2>1, <2>2 DEF WellFormed, TypeOK, Request
    <3> QED
      BY <2>1, <3>1 DEF DatedRead
  <2>3. CASE t # s
    BY <2>1, <2>3 DEF Dated, DatedRead, InFlight, MovedSince, WellFormed, TypeOK
  <2> QED
    BY <2>2, <2>3
<1>2. ASSUME NEW s \in Slot, Commit(s)
      PROVE  DatedRead(t)'
  <2>1. t # s /\ InFlight(t) /\ req'[t] = req[t]
    BY <1>2, CommitFacts DEF InFlight
  <2> DEFINE u == req[t].seller
  <2>2. u \in Seller /\ req[t].seen \in Nat /\ DatedRead(t)
    BY <2>1 DEF WellFormed, TypeOK, Request, InFlight, Dated
  <2>3. CASE /\ kycStatus'[u] = kycStatus[u]
             /\ events'[u] = events[u]
    BY <2>1, <2>2, <2>3 DEF DatedRead, MovedSince
  <2>4. CASE \E row \in Event :
                 /\ kycStatus'[u] = IF req[s].dirty THEN row.to ELSE kycStatus[u]
                 /\ DOMAIN events[u] = 1 .. Len(events[u]) /\ Len(events[u]) \in Nat
                 /\ DOMAIN events'[u] = 1 .. Len(events[u]) + 1
                 /\ Len(events'[u]) = Len(events[u]) + 1
                 /\ \A i \in 1 .. Len(events[u]) : events'[u][i] = events[u][i]
                 /\ events'[u][Len(events[u]) + 1] = row
    <3>1. req[t].seen <= Len(events[u]) /\ Len(events'[u]) = Len(events[u]) + 1
      BY <2>2, <2>4 DEF DatedRead
    <3>2. kycStatus'[u] # req[t].from => MovedSince(t, kycStatus[u])'
      <4>1. CASE kycStatus'[u] = kycStatus[u]
        BY <2>1, <2>2, <2>4, <4>1 DEF DatedRead, MovedSince
      <4>2. CASE kycStatus'[u] # kycStatus[u]
        <5>1. /\ events'[u][Len(events[u]) + 1].to = kycStatus'[u]
              /\ Len(events[u]) + 1 \in DOMAIN events'[u]
              /\ Len(events[u]) + 1 > req[t].seen
          BY <2>2, <2>4, <3>1, <4>2
        <5> QED
          BY <2>1, <5>1 DEF MovedSince
      <4> QED
        BY <4>1, <4>2
    <3> QED
      BY <2>1, <2>2, <2>4, <3>1, <3>2 DEF DatedRead
  <2> QED
    BY <1>2, <2>2, <2>3, <2>4, SellerStep, SMTT(40)
<1>3. ASSUME NEW s \in Slot, RetryAfterSave(s)
      PROVE  DatedRead(t)'
  <2>1. /\ UNCHANGED <<kycStatus, events, pc>> /\ InFlight(t)
        /\ req'[t].from = req[t].from
        /\ req'[t].seen = req[t].seen
        /\ req'[t].seller = req[t].seller
    BY <1>3 DEF RetryAfterSave, users, WellFormed, TypeOK, Request, InFlight
  <2> QED
    BY <2>1 DEF Dated, DatedRead, MovedSince
<1>4. ASSUME NEW s \in Slot, Abort(s)
      PROVE  DatedRead(t)'
  <2>1. t # s /\ InFlight(t) /\ req'[t] = req[t] /\ UNCHANGED <<kycStatus, events>>
    BY <1>4 DEF Abort, Answer, users, WellFormed, TypeOK, InFlight
  <2> QED
    BY <2>1 DEF Dated, DatedRead, MovedSince
<1>5. CASE UNCHANGED vars
  BY <1>5 DEF vars, Dated, DatedRead, InFlight, MovedSince
<1> QED
  BY <1>1, <1>2, <1>3, <1>4, <1>5, StepCases DEF WellFormed

LEMMA VouchedInit == Init => Vouched
BY DEF Init, Vouched, InFlight, PastOf

LEMMA VouchedStep ==
    ASSUME WellFormed, Vouched, WellFormed', [Next]_vars
    PROVE  Vouched'
<1>1. ASSUME UNCHANGED <<kycStatus, events>>,
             \A t \in Slot : InFlight(t)' =>
                 \/ req'[t].from = kycStatus[req'[t].seller]
                 \/ /\ InFlight(t)
                    /\ req'[t].seller = req[t].seller /\ req'[t].from = req[t].from
      PROVE  Vouched'
  <2>1. \A t \in Slot : InFlight(t)' => req'[t].seller \in Seller
    BY DEF WellFormed, TypeOK, Request, InFlight
  <2> QED
    BY <1>1, <2>1 DEF Vouched, PastOf, AskedFor, DecidedOn
<1>2. ASSUME NEW s \in Slot, Arrives(s)
      PROVE  Vouched'
  BY <1>1, <1>2 DEF Arrives, InFlight, WellFormed, TypeOK
<1>3. ASSUME NEW s \in Slot, Commit(s)
      PROVE  Vouched'
  <2>1. ASSUME NEW u \in Seller
        PROVE  /\ AskedFor(u) => AskedFor(u)'
               /\ DecidedOn(u) => DecidedOn(u)'
    <3>1. /\ DOMAIN events[u] \subseteq DOMAIN events'[u]
          /\ \A i \in DOMAIN events[u] : events'[u][i] = events[u][i]
      BY <1>3, HistoryGrows
    <3> QED
      BY <3>1 DEF AskedFor, DecidedOn
  <2>2. ASSUME NEW u \in Seller
        PROVE  PastOf(u, kycStatus[u])'
    <3>1. CASE kycStatus'[u] = kycStatus[u]
      BY <2>1, <3>1 DEF Vouched, PastOf
    <3>2. CASE kycStatus'[u] # kycStatus[u]
      <4>1. PICK row \in Event :
                /\ u = req[s].seller /\ row = HistoryRow(req[s]) /\ kycStatus'[u] = row.to
                /\ DOMAIN events[u] = 1 .. Len(events[u]) /\ Len(events[u]) \in Nat
                /\ DOMAIN events'[u] = 1 .. Len(events[u]) + 1
                /\ \A i \in 1 .. Len(events[u]) : events'[u][i] = events[u][i]
                /\ events'[u][Len(events[u]) + 1] = row
        BY <1>3, <3>2, SellerStep
      <4>2. /\ row.to = Target[req[s].op] /\ row.by = req[s].actor
            /\ req[s].op \in Operation /\ Fits(req[s]) /\ InFlight(s)
        BY <1>3, <4>1, CommitFacts DEF Request
      <4>3. CASE req[s].op = "request"
        <5>1. row.to = "pending" /\ row.by = u
          BY <4>1, <4>2, <4>3, TargetOf DEF Fits
        <5>2. AskedFor(u)'
          BY <4>1, <5>1 DEF AskedFor
        <5> QED
          BY <4>1, <5>1, <5>2 DEF PastOf
      <4>4. CASE req[s].op = "approve"
        <5>1. row.to = "verified" /\ row.by \in Staff
          BY <4>1, <4>2, <4>4, TargetOf DEF Fits
        <5>2. AskedFor(u)
          BY <4>1, <4>2, <4>4 DEF Vouched, PastOf, Fits
        <5>3. PICK i \in 1 .. Len(events[u]) :
                  events[u][i].to = "pending" /\ events[u][i].by = u
          BY <4>1, <5>2 DEF AskedFor
        <5> DEFINE j == Len(events[u]) + 1
        <5>4. /\ i \in DOMAIN events'[u] /\ j \in DOMAIN events'[u] /\ i < j
              /\ events'[u][i].to = "pending"  /\ events'[u][i].by = u
              /\ events'[u][j].to = "verified" /\ events'[u][j].by \in Staff
          <6>1. i \in Nat /\ i < j /\ i \in 1 .. j /\ j \in 1 .. j
            BY <4>1, <5>3
          <6>2. DOMAIN events'[u] = 1 .. j
            BY <4>1
          <6>3. events'[u][i] = events[u][i] /\ events'[u][j] = row
            BY <4>1, <5>3
          <6> QED
            BY <5>1, <5>3, <6>1, <6>2, <6>3
        <5> HIDE DEF j
        <5>5. DecidedOn(u)'
          BY <5>4 DEF DecidedOn
        <5> QED
          BY <4>1, <5>1, <5>5 DEF PastOf
      <4>5. CASE req[s].op = "reject"
        BY <4>1, <4>2, <4>5, TargetOf DEF PastOf
      <4> QED
        BY <4>2, <4>3, <4>4, <4>5, Operations
    <3> QED
      BY <3>1, <3>2
  <2>3. ASSUME NEW t \in Slot, InFlight(t)'
        PROVE  PastOf(req[t].seller, req[t].from)'
    <3>1. InFlight(t) /\ req'[t] = req[t] /\ req[t].seller \in Seller
      BY <1>3, <2>3, CommitFacts DEF InFlight, WellFormed, TypeOK, Request
    <3> QED
      BY <2>1, <3>1 DEF Vouched, PastOf
  <2> QED
    BY <2>2, <2>3 DEF Vouched
<1>4. ASSUME NEW s \in Slot, RetryAfterSave(s)
      PROVE  Vouched'
  <2>1. /\ UNCHANGED <<kycStatus, events, pc>>
        /\ \A t \in Slot : InFlight(t) =>
               req'[t].from = req[t].from /\ req'[t].seller = req[t].seller
    BY <1>4 DEF RetryAfterSave, users, WellFormed, TypeOK, Request, InFlight
  <2> QED
    BY <1>1, <2>1 DEF InFlight
<1>5. ASSUME NEW s \in Slot, Abort(s)
      PROVE  Vouched'
  BY <1>1, <1>5 DEF Abort, Answer, users, WellFormed, TypeOK, InFlight
<1>6. CASE UNCHANGED vars
  BY <1>1, <1>6 DEF vars, InFlight
<1> QED
  BY <1>2, <1>3, <1>4, <1>5, <1>6, StepCases DEF WellFormed

----------------------------------------------------------------------------
(* The theorems.                                                           *)

\* The layers hold together.
THEOREM Invariance == Spec => []IInv
<1>1. Init => IInv
  BY WellFormedInit, DatedInit, VouchedInit DEF IInv
<1>2. IInv /\ [Next]_vars => IInv'
  BY WellFormedStep, DatedStep, VouchedStep DEF IInv
<1> QED
  BY <1>1, <1>2, PTL DEF Spec

\* The documents, their histories and the requests in flight keep their types.
THEOREM TypeCorrect == Spec => []TypeOK
<1>1. IInv => TypeOK
  BY DEF IInv, WellFormed
<1> QED
  BY <1>1, Invariance, PTL

\* A decision is taken on a stale status only if what moved it overlapped it.
THEOREM ReadsAreDated == Spec => []StaleOnlyByOverlap
<1>1. IInv => StaleOnlyByOverlap
  BY DEF IInv, Dated, DatedRead, InFlight, StaleOnlyByOverlap
<1> QED
  BY <1>1, Invariance, PTL

\* Nobody passes the gate who did not ask, and whom staff did not then approve.
THEOREM VerifiedIsDecided == Spec => []VerifiedByStaff
<1>1. IInv => VerifiedByStaff
  BY DEF IInv, Vouched, PastOf, DecidedOn, VerifiedByStaff, CanSubmitListings
<1> QED
  BY <1>1, Invariance, PTL

\* A verification is lost only to a request older than it.
THEOREM VerifiedHolds == Spec => VerifiedHoldsForLaterRequests
<1>1. ASSUME IInv, [Next]_vars, NEW u \in Seller,
             kycStatus[u] = "verified", kycStatus'[u] # "verified"
      PROVE  \E s \in Slot :
                 pc[s] = "commit" /\ req[s].seller = u /\ MovedSince(s, "verified")
  <2>1. WellFormed
    BY <1>1 DEF IInv
  <2>2. PICK s \in Slot : Commit(s)
    BY <1>1, <2>1, StepCases DEF WellFormed, Arrives, RetryAfterSave, Abort, users, vars
  <2>3. req[s].seller = u
    BY <1>1, <2>1, <2>2, SellerStep
  <2>4. req[s].from # "verified"
    <3>1. Fits(req[s]) /\ req[s].op \in Operation
      BY <2>1, <2>2, CommitFacts DEF Request
    <3> QED
      BY <3>1, Operations DEF Fits
  <2> QED
    BY <1>1, <2>2, <2>3, <2>4 DEF Commit, IInv, Dated, DatedRead, InFlight
<1>2. IInv /\ [Next]_vars =>
          [\A u \in Seller :
              kycStatus[u] = "verified" /\ kycStatus'[u] # "verified" =>
                  \E s \in Slot :
                      pc[s] = "commit" /\ req[s].seller = u /\ MovedSince(s, "verified")]_vars
  BY <1>1
<1> QED
  BY <1>2, Invariance, PTL DEF Spec, VerifiedHoldsForLaterRequests

----------------------------------------------------------------------------
(* The note, and the ledger, when no transaction is retried after its save.*)

LEMMA NotedInit == Init => Noted
BY DEF Init, Noted, InStep, HistoryForks, InFlight

\* A fork does not go away.
LEMMA ForksStay ==
    ASSUME WellFormed, NEW s \in Slot, Commit(s), NEW u \in Seller, HistoryForks(u)
    PROVE  HistoryForks(u)'
<1>1. PICK i \in DOMAIN events[u] : i > 1 /\ events[u][i].from # events[u][i - 1].to
  BY DEF HistoryForks
<1>2. DOMAIN events[u] = 1 .. Len(events[u]) /\ Len(events[u]) \in Nat
  BY AppendedRow DEF WellFormed, TypeOK
<1>3. i \in DOMAIN events[u] /\ i - 1 \in DOMAIN events[u]
  BY <1>1, <1>2
<1>4. /\ DOMAIN events[u] \subseteq DOMAIN events'[u]
      /\ \A k \in DOMAIN events[u] : events'[u][k] = events[u][k]
  BY HistoryGrows
<1> QED
  BY <1>1, <1>3, <1>4 DEF HistoryForks

LEMMA NotedStep ==
    ASSUME ~CommitFaults, WellFormed, Dated, Noted, WellFormed', [Next]_vars
    PROVE  Noted'
<1>1. ASSUME NEW s \in Slot, Arrives(s)
      PROVE  Noted'
  <2>1. PICK r \in Request :
            /\ req' = [req EXCEPT ![s] = r] /\ pc' = [pc EXCEPT ![s] = "commit"]
            /\ r.from = kycStatus[r.seller] /\ r.noted = hasNote[r.seller]
            /\ UNCHANGED <<kycStatus, hasNote, events>>
    BY <1>1 DEF Arrives
  <2>2. ASSUME NEW t \in Slot, InFlight(t)', ~HistoryForks(req'[t].seller)
        PROVE  req'[t].noted <=> req'[t].from = "rejected"
    <3>1. CASE t = s
      BY <2>1, <2>2, <3>1 DEF Noted, InStep, Request, WellFormed, TypeOK
    <3>2. CASE t # s
      BY <2>1, <2>2, <3>2 DEF Noted, InFlight, WellFormed, TypeOK
    <3> QED
      BY <3>1, <3>2
  <2> QED
    BY <2>1, <2>2 DEF Noted, InStep, HistoryForks
<1>2. ASSUME NEW s \in Slot, Commit(s)
      PROVE  Noted'
  <2>1. ASSUME NEW u \in Seller
        PROVE  InStep(u)'
    <3>1. CASE u # req[s].seller
      <4>1. kycStatus'[u] = kycStatus[u] /\ hasNote'[u] = hasNote[u] /\ events'[u] = events[u]
        BY <1>2, <3>1, SellerStep
      <4> QED
        BY <4>1 DEF Noted, InStep, HistoryForks
    <3>2. CASE u = req[s].seller
      <4>1. PICK row \in Event :
                /\ row = HistoryRow(req[s])
                /\ kycStatus'[u] = IF req[s].dirty THEN row.to ELSE kycStatus[u]
                /\ DOMAIN events[u] = 1 .. Len(events[u]) /\ Len(events[u]) \in Nat
                /\ DOMAIN events'[u] = 1 .. Len(events[u]) + 1
                /\ Len(events'[u]) = Len(events[u]) + 1
                /\ \A i \in 1 .. Len(events[u]) : events'[u][i] = events[u][i]
                /\ events'[u][Len(events[u]) + 1] = row
                /\ events'[u] # << >>
        BY <1>2, <3>2, SellerStep
      <4>2. /\ row.from = req[s].from /\ row.to = Target[req[s].op]
            /\ req[s] \in Request /\ req[s].op \in Operation
            /\ Fits(req[s]) /\ InFlight(s) /\ req[s].dirty
        BY <1>2, <4>1, CommitFacts DEF Request, Fits
      <4>3. kycStatus'[u] = events'[u][Len(events'[u])].to
        BY <4>1, <4>2
      <4>4. ASSUME ~HistoryForks(u)'
            PROVE  hasNote'[u] <=> kycStatus'[u] = "rejected"
        <5>1. ~HistoryForks(u)
          BY <1>2, <4>4, ForksStay
        <5>2. req[s].from = kycStatus[u]
          <6>1. CASE events[u] = << >>
            <7>1. kycStatus[u] # req[s].from => MovedSince(s, kycStatus[u])
              BY <3>2, <4>2 DEF Dated, DatedRead
            <7>2. ~MovedSince(s, kycStatus[u])
              BY <3>2, <6>1 DEF MovedSince
            <7> QED
              BY <7>1, <7>2
          <6>2. CASE events[u] # << >>
            <7>1. Len(events[u]) >= 1
              BY <6>2 DEF WellFormed, TypeOK
            <7>2. Len(events[u]) + 1 \in DOMAIN events'[u] /\ Len(events[u]) + 1 > 1
              BY <4>1, <7>1
            <7>3. \A k \in DOMAIN events'[u] : k > 1 => events'[u][k].from = events'[u][k - 1].to
              BY <4>4 DEF HistoryForks
            <7>4. Len(events[u]) \in Nat /\ Len(events[u]) + 1 - 1 = Len(events[u])
              BY <4>1
            <7>5. events'[u][Len(events[u]) + 1].from = events'[u][Len(events[u])].to
              BY <7>2, <7>3, <7>4
            <7>6. events'[u][Len(events[u])] = events[u][Len(events[u])]
              BY <4>1, <7>1
            <7>7. row.from = events[u][Len(events[u])].to
              BY <4>1, <7>5, <7>6
            <7> QED
              BY <4>2, <6>2, <7>7 DEF Noted, InStep
          <6> QED
            BY <6>1, <6>2
        <5>3. req[s].noted = hasNote[u]
          <6>1. req[s].noted \in BOOLEAN /\ hasNote[u] \in BOOLEAN
            BY <4>2 DEF Request, WellFormed, TypeOK
          <6>2. req[s].noted <=> req[s].from = "rejected"
            BY <3>2, <4>2, <5>1 DEF Noted
          <6>3. hasNote[u] <=> kycStatus[u] = "rejected"
            BY <5>1 DEF Noted, InStep
          <6> QED
            BY <5>2, <6>1, <6>2, <6>3
        <5>4. hasNote'[u] = (req[s].op = "reject")
          <6>1. hasNote'[u] = WrittenNote(req[s])
            BY <1>2, <3>2 DEF Commit, WellFormed, TypeOK
          <6>2. hasNote[u] \in BOOLEAN
            BY DEF WellFormed, TypeOK
          <6> QED
            BY <3>2, <4>2, <5>3, <6>1, <6>2 DEF WrittenNote, LeavesNote
        <5>5. kycStatus'[u] = "rejected" <=> req[s].op = "reject"
          BY <4>1, <4>2, TargetOf
        <5> QED
          BY <5>4, <5>5
      <4> QED
        BY <4>1, <4>3, <4>4 DEF InStep
    <3> QED
      BY <3>1, <3>2
  <2>2. ASSUME NEW t \in Slot, InFlight(t)', ~HistoryForks(req[t].seller)'
        PROVE  req'[t].noted <=> req'[t].from = "rejected"
    <3>1. /\ InFlight(t) /\ req'[t] = req[t] /\ req[t].seller \in Seller
          /\ req'[t].seller = req[t].seller
      BY <1>2, <2>2, CommitFacts DEF InFlight, WellFormed, TypeOK, Request
    <3>2. ~HistoryForks(req[t].seller)
      <4> DEFINE u == req[t].seller
      <4>1. u \in Seller /\ req'[t].seller = u
        BY <3>1
      <4>2. \A w \in Seller : HistoryForks(w) => HistoryForks(w)'
        BY <1>2, ForksStay
      <4> HIDE DEF u
      <4>3. ~HistoryForks(u)
        BY <2>2, <4>1, <4>2 DEF HistoryForks
      <4> QED
        BY <4>3 DEF u
    <3> QED
      BY <3>1, <3>2 DEF Noted
  <2> QED
    BY <2>1, <2>2 DEF Noted
<1>3. ASSUME NEW s \in Slot, RetryAfterSave(s)
      PROVE  Noted'
  BY <1>3 DEF RetryAfterSave
<1>4. ASSUME NEW s \in Slot, Abort(s)
      PROVE  Noted'
  BY <1>4 DEF Abort, Answer, users, Noted, InStep, HistoryForks, InFlight, WellFormed, TypeOK
<1>5. CASE UNCHANGED vars
  BY <1>5 DEF vars, Noted, InStep, HistoryForks, InFlight
<1> QED
  BY <1>1, <1>2, <1>3, <1>4, <1>5, StepCases DEF WellFormed

\* A note is left on a seller who is not rejected only if requests overlapped.
THEOREM NoteNeedsOverlap ==
    ASSUME ~CommitFaults
    PROVE  Spec => []NoteOutlivesRejectionOnlyByOverlap
<1>1. Init => Noted
  BY NotedInit
<1>2. IInv /\ IInv' /\ Noted /\ [Next]_vars => Noted'
  BY NotedStep DEF IInv
<1>3. Noted => NoteOutlivesRejectionOnlyByOverlap
  BY DEF Noted, InStep, NoteOutlivesRejectionOnlyByOverlap
<1> QED
  BY <1>1, <1>2, <1>3, Invariance, PTL DEF Spec

----------------------------------------------------------------------------
(* What the rows show.                                                     *)

\* A row that verified the seller is staff's, and comes after the seller's own
\* request.
VerifyingRow(u, j) ==
    /\ events[u][j].by \in Staff
    /\ \E i \in DOMAIN events[u] :
           i < j /\ events[u][i].to = "pending" /\ events[u][i].by = u

RowsAreDecided ==
    \A u \in Seller : \A j \in DOMAIN events[u] :
        events[u][j].to = "verified" => VerifyingRow(u, j)

LEMMA RowsAreDecidedStep ==
    ASSUME IInv, RowsAreDecided, [Next]_vars
    PROVE  RowsAreDecided'
<1>1. WellFormed /\ Vouched
  BY DEF IInv
<1>2. ASSUME NEW s \in Slot, Commit(s)
      PROVE  RowsAreDecided'
  <2> SUFFICES ASSUME NEW u \in Seller, NEW j \in DOMAIN events'[u], events'[u][j].to = "verified"
               PROVE  VerifyingRow(u, j)'
    BY DEF RowsAreDecided
  <2>1. CASE j \in DOMAIN events[u]
    <3>1. /\ DOMAIN events[u] \subseteq DOMAIN events'[u]
          /\ \A k \in DOMAIN events[u] : events'[u][k] = events[u][k]
      BY <1>1, <1>2, HistoryGrows
    <3>2. VerifyingRow(u, j)
      BY <2>1, <3>1 DEF RowsAreDecided
    <3> QED
      BY <2>1, <3>1, <3>2 DEF VerifyingRow
  <2>2. CASE j \notin DOMAIN events[u]
    <3>1. /\ u = req[s].seller
          /\ DOMAIN events[u] = 1 .. Len(events[u]) /\ Len(events[u]) \in Nat
          /\ DOMAIN events'[u] = 1 .. Len(events[u]) + 1
          /\ \A i \in 1 .. Len(events[u]) : events'[u][i] = events[u][i]
          /\ events'[u][Len(events[u]) + 1] = HistoryRow(req[s])
      BY <1>1, <1>2, <2>2, SellerStep
    <3>2. j = Len(events[u]) + 1
      BY <2>2, <3>1
    <3>3. /\ InFlight(s) /\ req[s] \in Request /\ Fits(req[s])
          /\ HistoryRow(req[s]).to = Target[req[s].op]
          /\ HistoryRow(req[s]).by = req[s].actor
      BY <1>1, <1>2, CommitFacts
    <3>4. req[s].op \in Operation
      BY <3>3 DEF Request
    <3>5. req[s].op = "approve"
      BY <3>1, <3>2, <3>3, <3>4, TargetOf
    <3>6. req[s].actor \in Staff /\ AskedFor(u)
      BY <1>1, <3>1, <3>3, <3>5 DEF Fits, Vouched, PastOf
    <3>7. PICK i \in DOMAIN events[u] : events[u][i].to = "pending" /\ events[u][i].by = u
      BY <3>6 DEF AskedFor
    <3>8. i \in DOMAIN events'[u] /\ i < j /\ events'[u][i] = events[u][i]
      BY <3>1, <3>2, <3>7
    <3> QED
      BY <3>1, <3>2, <3>3, <3>6, <3>7, <3>8 DEF VerifyingRow
  <2> QED
    BY <2>1, <2>2
<1>3. ASSUME NEW s \in Slot, Arrives(s) \/ RetryAfterSave(s) \/ Abort(s)
      PROVE  UNCHANGED events
  BY <1>3 DEF Arrives, RetryAfterSave, Abort, users
<1>4. CASE UNCHANGED events
  BY <1>4 DEF RowsAreDecided, VerifyingRow
<1> QED
  BY <1>1, <1>2, <1>3, <1>4, StepCases DEF WellFormed, vars

\* No row of a history verifies a seller who had not asked, or at the hand of anybody
\* but staff (seller-verification.service.ts approve), also where the status has moved
\* on since.
THEOREM HistoryIsDecided == Spec => []RowsAreDecided
<1>1. Init => RowsAreDecided
  BY DEF Init, RowsAreDecided
<1>2. IInv /\ RowsAreDecided /\ [Next]_vars => RowsAreDecided'
  BY RowsAreDecidedStep
<1> QED
  BY <1>1, <1>2, Invariance, PTL DEF Spec

\* Status and history move together: verification implements AuditedStatus.
THEOREM HistoryRefinesLedger ==
    ASSUME ~CommitFaults
    PROVE  Spec => HistoryIsTheLedger
<1>1. Init => Ledger!AuditInit
  BY DEF Init, Ledger!AuditInit
<1>2. ASSUME IInv, [Next]_vars
      PROVE  [Ledger!AuditNext]_(Ledger!auditVars)
  <2>1. WellFormed
    BY <1>2 DEF IInv
  <2>2. ASSUME NEW s \in Slot, Commit(s)
        PROVE  Ledger!AuditNext
    <3> DEFINE u == req[s].seller
               row == HistoryRow(req[s])
    <3>1. /\ u \in Seller /\ row \in Event /\ req[s].dirty
          /\ row.to = Target[req[s].op]
          /\ events' = [events EXCEPT ![u] = Append(@, row)]
          /\ kycStatus' = [kycStatus EXCEPT ![u] = IF req[s].dirty THEN Target[req[s].op] ELSE @]
      BY <2>1, <2>2, CommitFacts DEF Fits
    <3>2. kycStatus' = [kycStatus EXCEPT ![u] = row.to]
      BY <3>1
    <3>3. kycStatus[u] \in KycStatus
      BY <2>1, <3>1 DEF WellFormed, TypeOK
    <3> HIDE DEF u, row
    <3>4. Ledger!Record(u)
      BY <3>1, <3>2, <3>3 DEF Ledger!Record, Ledger!Row, Event
    <3> QED
      BY <3>1, <3>4 DEF Ledger!AuditNext
  <2>3. ASSUME NEW s \in Slot, Arrives(s) \/ RetryAfterSave(s) \/ Abort(s)
        PROVE  UNCHANGED <<kycStatus, events>>
    BY <2>3 DEF Arrives, RetryAfterSave, Abort, users
  <2> QED
    BY <1>2, <2>1, <2>2, <2>3, StepCases DEF WellFormed, Ledger!auditVars, vars
<1>3. IInv /\ [Next]_vars => [Ledger!AuditNext]_(Ledger!auditVars)
  BY <1>2
<1> QED
  BY <1>1, <1>3, Invariance, PTL DEF Spec, HistoryIsTheLedger, Ledger!AuditSpec
=============================================================================
