---------------------------- MODULE WebTabProofs ----------------------------
(***************************************************************************)
(* Proofs about WebTab: signing out holds, for any number of sign-ins, runs*)
(* and polls, and what reading the catalog promises, for any finite set of *)
(* listings, any ages and prices, any page size and any number of moves.   *)
(*                                                                         *)
(* The tab's invariant is TabInv.  The catalog's is CatalogInv: by age,    *)
(* the cursor parts what was shown from what is still owed; by price, the  *)
(* rows that will be shown twice or were passed over are counted by where  *)
(* they stand in the order (Rank), which a move shifts across the offset   *)
(* by one row at most.                                                     *)
(***************************************************************************)
EXTENDS WebTab, FiniteSetTheorems, TLAPS

----------------------------------------------------------------------------
(* The orders of the catalog.                                              *)

Sort == {"newest", "price_asc"}

LEMMA Order ==
    ASSUME NEW sort \in Sort
    PROVE  /\ \A a \in Listing : ~Precedes(sort, a, a)
           /\ \A a, b \in Listing : a # b => Precedes(sort, a, b) \/ Precedes(sort, b, a)
           /\ \A a, b, c \in Listing :
                  Precedes(sort, a, b) /\ Precedes(sort, b, c) => Precedes(sort, a, c)
<1>1. /\ Listing \subseteq Nat
      /\ \A l \in Listing : CreatedAt[l] \in Nat /\ Price[l] \in Nat
  BY PagingAssumption
<1>2. CASE sort = "newest"
  BY <1>1, <1>2 DEF Precedes, Newer
<1>3. CASE sort = "price_asc"
  BY <1>1, <1>3 DEF Precedes, Cheaper
<1> QED
  BY <1>2, <1>3 DEF Sort

\* The rows that come before l.
Before(sort, rows, l) == { k \in rows : Precedes(sort, k, l) }

Rank(sort, rows, l) == Cardinality(Before(sort, rows, l))

LEMMA RowsAreFinite ==
    ASSUME NEW rows \in SUBSET Listing
    PROVE  IsFiniteSet(rows) /\ Cardinality(rows) \in Nat
BY PagingAssumption, FS_Subset, FS_CardinalityType

LEMMA Fewer ==
    ASSUME NEW S \in SUBSET Listing, NEW T \in SUBSET S
    PROVE  Cardinality(T) <= Cardinality(S)
BY RowsAreFinite, FS_Subset

LEMMA StrictlyFewer ==
    ASSUME NEW S \in SUBSET Listing, NEW T \in SUBSET S, NEW x \in S, x \notin T
    PROVE  Cardinality(T) < Cardinality(S)
<1>1. T # S
  OBVIOUS
<1>2. IsFiniteSet(S) /\ Cardinality(S) \in Nat /\ Cardinality(T) \in Nat
  BY RowsAreFinite
<1> QED
  BY <1>1, <1>2, FS_Subset

\* At most one more: no two of S are new.
LEMMA OneMore ==
    ASSUME NEW S \in SUBSET Listing, NEW T \in SUBSET Listing,
           \A a, b \in S \ T : a = b
    PROVE  Cardinality(S) <= Cardinality(T) + 1
<1>1. IsFiniteSet(T) /\ Cardinality(T) \in Nat /\ Cardinality(S) \in Nat
  BY RowsAreFinite
<1>2. CASE S \subseteq T
  BY <1>1, <1>2, Fewer
<1>3. CASE ~(S \subseteq T)
  <2>1. PICK x \in S : x \notin T
    BY <1>3
  <2>2. S \subseteq T \cup {x} /\ T \cup {x} \in SUBSET Listing
    BY <2>1
  <2>3. Cardinality(S) <= Cardinality(T \cup {x})
    BY <2>2, Fewer
  <2>4. Cardinality(T \cup {x}) = Cardinality(T) + 1
    BY <1>1, <2>1, FS_AddElement
  <2> QED
    BY <2>3, <2>4
<1> QED
  BY <1>2, <1>3

LEMMA RankIs ==
    ASSUME NEW sort \in Sort, NEW rows \in SUBSET Listing, NEW l \in Listing
    PROVE  Before(sort, rows, l) \in SUBSET rows /\ Rank(sort, rows, l) \in Nat
<1>1. Before(sort, rows, l) \in SUBSET rows
  BY DEF Before
<1> QED
  BY <1>1, RowsAreFinite DEF Rank

\* What comes before a comes before all that a precedes.
LEMMA BeforeGrows ==
    ASSUME NEW sort \in Sort, NEW rows \in SUBSET Listing, NEW a \in rows, NEW b \in Listing,
           Precedes(sort, a, b)
    PROVE  /\ Before(sort, rows, a) \subseteq Before(sort, rows, b)
           /\ a \in Before(sort, rows, b) \ Before(sort, rows, a)
           /\ Rank(sort, rows, a) < Rank(sort, rows, b)
<1>1. /\ Before(sort, rows, a) \subseteq Before(sort, rows, b)
      /\ a \in Before(sort, rows, b) \ Before(sort, rows, a)
  BY Order DEF Before
<1>2. Before(sort, rows, b) \in SUBSET Listing
  BY RankIs
<1> QED
  BY <1>1, <1>2, StrictlyFewer DEF Rank

LEMMA RankOrders ==
    ASSUME NEW sort \in Sort, NEW rows \in SUBSET Listing, NEW a \in rows, NEW b \in rows
    PROVE  /\ Rank(sort, rows, a) = Rank(sort, rows, b) => a = b
           /\ Rank(sort, rows, a) < Rank(sort, rows, b) => Precedes(sort, a, b)
<1>1. Rank(sort, rows, a) \in Nat /\ Rank(sort, rows, b) \in Nat
  BY RankIs
<1>2. a # b => Precedes(sort, a, b) \/ Precedes(sort, b, a)
  BY Order
<1>3. /\ Precedes(sort, a, b) => Rank(sort, rows, a) < Rank(sort, rows, b)
      /\ Precedes(sort, b, a) => Rank(sort, rows, b) < Rank(sort, rows, a)
  BY BeforeGrows
<1> QED
  BY <1>1, <1>2, <1>3

\* The rows have a first one and a last one.
LEMMA FirstRow ==
    ASSUME NEW sort \in Sort, NEW rows \in SUBSET Listing, rows # {}
    PROVE  \E m \in rows : Before(sort, rows, m) = {}
<1> DEFINE Sets == { Before(sort, rows, l) : l \in rows }
           R    == StrictSubsetOrdering(rows)
<1>1. IsWellFoundedOn(R, SUBSET rows)
  BY RowsAreFinite, FS_StrictSubsetOrderingWellFounded, FS_FiniteSubsetsOfFinite
<1>2. Sets \subseteq SUBSET rows /\ Sets # {}
  BY DEF Before
<1>3. PICK B \in Sets : \A C \in Sets : <<C, B>> \notin R
  <2> HIDE DEF Sets, R
  <2> QED
    BY <1>1, <1>2, WFMin
<1>4. PICK m \in rows : B = Before(sort, rows, m)
  OBVIOUS
<1>5. ASSUME NEW k \in Before(sort, rows, m)
      PROVE  FALSE
  <2>1. k \in rows /\ Precedes(sort, k, m)
    BY <1>5 DEF Before
  <2>2. /\ Before(sort, rows, k) \subseteq B /\ Before(sort, rows, k) # B
    BY <1>4, <2>1, BeforeGrows
  <2>3. Before(sort, rows, k) \in Sets
    BY <2>1
  <2>4. Before(sort, rows, k) \in SUBSET rows /\ B \in SUBSET rows
    BY <1>2, <2>3
  <2>5. <<Before(sort, rows, k), B>> \in R
    BY <2>2, <2>4 DEF StrictSubsetOrdering
  <2> QED
    BY <1>3, <2>3, <2>5
<1> QED
  BY <1>5

LEMMA LastRow ==
    ASSUME NEW sort \in Sort, NEW rows \in SUBSET Listing, rows # {}
    PROVE  \E m \in rows : \A k \in rows \ {m} : Precedes(sort, k, m)
<1> DEFINE Sets == { rows \ Before(sort, rows, l) : l \in rows }
           R    == StrictSubsetOrdering(rows)
<1>1. IsWellFoundedOn(R, SUBSET rows)
  BY RowsAreFinite, FS_StrictSubsetOrderingWellFounded, FS_FiniteSubsetsOfFinite
<1>2. Sets \subseteq SUBSET rows /\ Sets # {}
  OBVIOUS
<1>3. PICK B \in Sets : \A C \in Sets : <<C, B>> \notin R
  <2> HIDE DEF Sets, R
  <2> QED
    BY <1>1, <1>2, WFMin
<1>4. PICK m \in rows : B = rows \ Before(sort, rows, m)
  OBVIOUS
<1>5. ASSUME NEW k \in rows, Precedes(sort, m, k)
      PROVE  FALSE
  <2> DEFINE C == rows \ Before(sort, rows, k)
  <2>1. C \subseteq B /\ C # B
    BY <1>4, <1>5, BeforeGrows
  <2>2. C \in Sets /\ C \in SUBSET rows /\ B \in SUBSET rows
    BY <1>2
  <2>3. <<C, B>> \in R
    BY <2>1, <2>2 DEF StrictSubsetOrdering
  <2> QED
    BY <1>3, <2>2, <2>3
<1> QED
  BY <1>5, Order

----------------------------------------------------------------------------
(* A page of the scan by age.                                              *)

LEMMA FirstOfIs ==
    ASSUME NEW sort, NEW rows, NEW n
    PROVE  FirstOf(sort, rows, n) = { l \in rows : Rank(sort, rows, l) < n }
BY DEF FirstOf, Rank, Before

LEMMA LimitIs == Limit \in Nat /\ Limit >= 1
BY PagingAssumption

\* The cursor after a page is its last row, unless there was none to show.
LEMMA CursorIs ==
    ASSUME NEW rest \in SUBSET Listing, rest # {}
    PROVE  \E m \in FirstOf("newest", rest, Limit) :
               /\ LastOf("newest", FirstOf("newest", rest, Limit)) = {m}
               /\ \A k \in FirstOf("newest", rest, Limit) \ {m} : Newer(k, m)
<1> DEFINE items == FirstOf("newest", rest, Limit)
<1>1. "newest" \in Sort /\ items \in SUBSET rest
  BY DEF Sort, FirstOf
<1>2. items # {}
  <2>1. PICK f \in rest : Before("newest", rest, f) = {}
    BY <1>1, FirstRow
  <2>2. Rank("newest", rest, f) = 0
    BY <2>1, FS_EmptySet DEF Rank
  <2> QED
    BY <2>2, FirstOfIs, LimitIs
<1>3. PICK m \in items : \A k \in items \ {m} : Precedes("newest", k, m)
  BY <1>1, <1>2, LastRow
<1>4. \A k \in items \ {m} : ~Precedes("newest", m, k)
  BY <1>1, <1>3, Order
<1>5. LastOf("newest", items) = {m}
  BY <1>3, <1>4 DEF LastOf
<1> QED
  BY <1>3, <1>5 DEF Precedes

\* What a page leaves out comes after its last row, and then there is more to come.
LEMMA LeftForLater ==
    ASSUME NEW rest \in SUBSET Listing, NEW l \in rest \ FirstOf("newest", rest, Limit)
    PROVE  /\ Cardinality(rest) > Limit
           /\ AfterCursor(LastOf("newest", FirstOf("newest", rest, Limit)), l)
<1> DEFINE items == FirstOf("newest", rest, Limit)
<1>1. "newest" \in Sort /\ l \in Listing
  BY DEF Sort
<1>2. Rank("newest", rest, l) \in Nat /\ Rank("newest", rest, l) >= Limit
  BY <1>1, FirstOfIs, RankIs, LimitIs
<1>3. Before("newest", rest, l) \in SUBSET rest /\ l \notin Before("newest", rest, l)
  BY <1>1, Order DEF Before
<1>4. Rank("newest", rest, l) < Cardinality(rest)
  BY <1>3, StrictlyFewer DEF Rank
<1>5. Cardinality(rest) \in Nat
  BY RowsAreFinite
<1>6. PICK m \in items : LastOf("newest", items) = {m}
  BY CursorIs
<1>7. m \in rest /\ Rank("newest", rest, m) < Limit
  BY FirstOfIs
<1>8. Precedes("newest", m, l)
  BY <1>1, <1>2, <1>7, RankIs, LimitIs, RankOrders
<1> QED
  BY <1>2, <1>4, <1>5, <1>6, <1>8, LimitIs DEF AfterCursor, Precedes

----------------------------------------------------------------------------
(* A page of a scan by offset.                                             *)

LEMMA Disjoint ==
    ASSUME NEW S, NEW T, IsFiniteSet(S), IsFiniteSet(T), S \cap T = {}
    PROVE  Cardinality(S \cup T) = Cardinality(S) + Cardinality(T)
<1> DEFINE common == S \cap T
<1>1. Cardinality(S) \in Nat /\ Cardinality(T) \in Nat
  BY FS_CardinalityType
<1>2. Cardinality(common) = 0
  BY FS_EmptySet
<1>3. Cardinality(S \cup T) = Cardinality(S) + Cardinality(T) - Cardinality(common)
  BY FS_Union
<1> HIDE DEF common
<1> QED
  BY <1>1, <1>2, <1>3

\* Before an offset there are as many rows as it says, if there are rows after it.
LEMMA HeadIs ==
    ASSUME NEW sort \in Sort, NEW rows \in SUBSET Listing, NEW n \in Nat,
           NEW head, head = FirstOf(sort, rows, n), NEW l \in rows \ head
    PROVE  /\ Cardinality(head) = n
           /\ Before(sort, rows, l) = head \cup Before(sort, rows \ head, l)
<1> DEFINE rest == rows \ head
<1>1. /\ head \in SUBSET Listing /\ rest \in SUBSET Listing /\ rest # {}
      /\ \A k \in head : k \in rows /\ Rank(sort, rows, k) < n
      /\ \A k \in rest : k \in rows /\ Rank(sort, rows, k) >= n
      /\ \A k \in rows : Rank(sort, rows, k) \in Nat
  <2>1. \A k \in rows : Rank(sort, rows, k) \in Nat
    BY RankIs
  <2>2. head = { k \in rows : Rank(sort, rows, k) < n }
    BY FirstOfIs
  <2> QED
    BY <2>1, <2>2
<1>2. ASSUME NEW k \in rest
      PROVE  Before(sort, rows, k) = head \cup Before(sort, rest, k)
  <2>1. ASSUME NEW h \in head
        PROVE  Precedes(sort, h, k)
    <3>1. h \in rows /\ k \in rows /\ Rank(sort, rows, h) < Rank(sort, rows, k)
      BY <1>1
    <3> QED
      BY <3>1, RankOrders
  <2> QED
    BY <1>1, <2>1 DEF Before
<1>3. Cardinality(head) >= n
  <2>1. PICK f \in rest : Before(sort, rest, f) = {}
    BY <1>1, FirstRow
  <2>2. Before(sort, rows, f) = head
    BY <1>2, <2>1
  <2> QED
    BY <1>1, <2>2 DEF Rank
<1>4. Cardinality(head) <= n
  <2>1. CASE head = {}
    BY <2>1, FS_EmptySet
  <2>2. CASE head # {}
    <3>1. PICK m \in head : \A k \in head \ {m} : Precedes(sort, k, m)
      BY <1>1, <2>2, LastRow
    <3>2. /\ head \ {m} \in SUBSET Before(sort, rows, m)
          /\ Before(sort, rows, m) \in SUBSET Listing
      BY <1>1, <3>1 DEF Before
    <3>3. Cardinality(head \ {m}) <= Rank(sort, rows, m)
      BY <3>2, Fewer DEF Rank
    <3>4. IsFiniteSet(head) /\ Cardinality(head) \in Nat
      BY <1>1, RowsAreFinite
    <3>5. Cardinality(head \ {m}) = Cardinality(head) - 1
      BY <3>4, FS_RemoveElement
    <3>6. Rank(sort, rows, m) \in Nat /\ Rank(sort, rows, m) < n
      BY <1>1, RankIs
    <3> QED
      BY <3>3, <3>4, <3>5, <3>6
  <2> QED
    BY <2>1, <2>2
<1>5. Cardinality(head) \in Nat
  BY <1>1, RowsAreFinite
<1> QED
  BY <1>2, <1>3, <1>4, <1>5

\* The page at an offset has the rows whose rank is in its window.
LEMMA WindowIs ==
    ASSUME NEW sort \in Sort, NEW rows \in SUBSET Listing, NEW n \in Nat, NEW l \in rows
    PROVE  LET rest  == rows \ FirstOf(sort, rows, n)
               items == FirstOf(sort, rest, Limit)
           IN  /\ l \in items <=> n <= Rank(sort, rows, l) /\ Rank(sort, rows, l) < n + Limit
               /\ Cardinality(rest) <= Limit => Rank(sort, rows, l) < n + Limit
<1> DEFINE head  == FirstOf(sort, rows, n)
           rest  == rows \ head
           items == FirstOf(sort, rest, Limit)
<1>1. /\ head \in SUBSET Listing /\ rest \in SUBSET Listing
      /\ l \in head <=> Rank(sort, rows, l) < n
      /\ Rank(sort, rows, l) \in Nat
  BY FirstOfIs, RankIs
<1>2. l \in items <=> l \in rest /\ Rank(sort, rest, l) < Limit
  BY FirstOfIs
<1>3. CASE l \in head
  BY <1>1, <1>2, <1>3, LimitIs
<1>4. CASE l \in rest
  <2>1. Cardinality(head) = n /\ Before(sort, rows, l) = head \cup Before(sort, rest, l)
    <3>1. l \in rows \ head
      BY <1>4
    <3> QED
      BY <3>1, HeadIs
  <2>2. Before(sort, rest, l) \in SUBSET rest /\ l \notin Before(sort, rest, l)
    BY <1>4, Order DEF Before
  <2>3. head \cap Before(sort, rest, l) = {}
    BY <2>2
  <2>4. /\ IsFiniteSet(head) /\ IsFiniteSet(Before(sort, rest, l))
        /\ Rank(sort, rest, l) \in Nat /\ Cardinality(rest) \in Nat
    BY <1>1, <2>2, RowsAreFinite DEF Rank
  <2> HIDE DEF head
  <2>5. Rank(sort, rows, l) = n + Rank(sort, rest, l)
    BY <2>1, <2>3, <2>4, Disjoint DEF Rank
  <2>6. Rank(sort, rest, l) < Cardinality(rest)
    BY <1>1, <1>4, <2>2, StrictlyFewer DEF Rank
  <2> QED
    BY <1>1, <1>2, <1>4, <2>4, <2>5, <2>6, LimitIs DEF head
<1> QED
  BY <1>3, <1>4

----------------------------------------------------------------------------
(* The tab is signed out for good.                                         *)

\* A run that asks has not asked as often as it may.
RunsInv == run \in Runs /\ \A r \in Run : run[r].at = "asking" => run[r].polls < MaxPolls

\* While the user is leaving, the app is shown, where no run of /complete is live: what
\* the calls have torn down, nothing brings back.
TabInv ==
    /\ TabTypeOK
    /\ RunsInv
    /\ page # "complete" => current = 0
    /\ leaving = "logout" => /\ page = "app"
                             /\ apiOut = "ok" => ~cookie
                             /\ clerkOut = "ok" => ~clerk
    /\ SignOutHolds

LEMMA TabInvInit == ASSUME TabInit PROVE TabInv
<1>1. TabTypeOK
  <2>1. 0 \in 0..MaxPolls /\ 0 \in 0..MaxRuns /\ 0 \in 0..MaxSignIns
    BY BridgeAssumption
  <2>2. run \in Runs
    BY <2>1 DEF TabInit, Runs, Stage
  <2> QED
    BY <2>1, <2>2 DEF TabInit, TabTypeOK
<1>2. RunsInv
  BY <1>1 DEF TabInit, TabTypeOK, RunsInv
<1> QED
  BY <1>1, <1>2 DEF TabInit, TabInv, SignOutHolds

\* A run that moves on to anything but asking.
LEMMA MovesOn ==
    ASSUME TabInv, NEW r \in Run, NEW step \in Stage \ {"asking"}, Move(r, step)
    PROVE  RunsInv'
<1>1. run \in Runs /\ run' = [run EXCEPT ![r].at = step]
  BY DEF TabInv, RunsInv, Move
<1>2. run' \in Runs
  BY <1>1 DEF Runs
<1>3. \A q \in Run : run'[q].at = "asking" => run'[q] = run[q]
  BY <1>1 DEF Runs
<1> QED
  BY <1>2, <1>3 DEF TabInv, RunsInv

LEMMA RunsKeepTabInv ==
    ASSUME TabInv, NEW r \in Run, RunSteps(r)
    PROVE  TabInv'
<1> USE DEF TabInv, TabTypeOK, SignOutHolds, bridge, logout
<1>1. {"over", "posting", "welcomed", "refused"} \subseteq Stage \ {"asking"}
  BY DEF Stage
<1>2. ShowsFailure(r) => screen' \in {"spinner", "failed", "choosing", "promoting"}
  BY DEF ShowsFailure
<1>3. RunsInv' => run' \in Runs
  BY DEF RunsInv
<1>4. CASE Poll(r)
  <2>1. CASE Move(r, "over")
    BY <1>1, <1>2, <1>3, <1>4, <2>1, MovesOn DEF Poll
  <2>2. CASE run[r].polls < MaxPolls /\ Move(r, "asking") /\ UNCHANGED screen
    <3>1. run \in Runs /\ run' = [run EXCEPT ![r].at = "asking"]
      BY <2>2 DEF RunsInv, Move
    <3>2. run' \in Runs /\ run'[r].polls = run[r].polls
      BY <3>1 DEF Runs, Stage
    <3>3. \A q \in Run \ {r} : run'[q] = run[q]
      BY <3>1 DEF Runs
    <3>4. RunsInv'
      BY <2>2, <3>2, <3>3 DEF RunsInv
    <3> QED
      BY <1>3, <1>4, <2>2, <3>4 DEF Poll
  <2> QED
    BY <1>4, <2>1, <2>2 DEF Poll
<1>5. CASE AskToken(r)
  <2>1. CASE Move(r, "over") \/ Move(r, "posting")
    <3>1. RunsInv'
      BY <1>1, <2>1, MovesOn
    <3> QED
      BY <1>3, <1>5, <3>1 DEF AskToken
  <2>2. CASE run' = [run EXCEPT ![r] = [at |-> "polling", polls |-> Counted(run[r].polls)]]
    <3>1. run \in Runs /\ run[r].at = "asking" /\ run[r].polls < MaxPolls
      BY <1>5 DEF RunsInv, AskToken
    <3>2. Counted(run[r].polls) \in 0..MaxPolls
      BY <3>1, BridgeAssumption DEF Runs, Counted
    <3>3. [at |-> "polling", polls |-> Counted(run[r].polls)] \in [ at : Stage, polls : 0..MaxPolls ]
      BY <3>2 DEF Stage
    <3>4. run' \in Runs /\ run'[r].at = "polling"
      BY <2>2, <3>1, <3>3 DEF Runs
    <3>5. \A q \in Run \ {r} : run'[q] = run[q]
      BY <2>2, <3>1 DEF Runs
    <3>6. RunsInv'
      BY <3>4, <3>5 DEF RunsInv
    <3> QED
      BY <1>3, <1>5, <3>6 DEF AskToken
  <2> QED
    BY <1>5, <2>1, <2>2 DEF AskToken
<1>6. CASE Answered(r)
  <2>1. page = "complete" /\ leaving # "logout" /\ ~out
    BY <1>6 DEF Answered, Aborted, Run
  <2>2. RunsInv'
    BY <1>1, <1>6, MovesOn DEF Answered
  <2> QED
    BY <1>3, <1>6, <2>1, <2>2 DEF Answered
<1>7. CASE NotAnswered(r) \/ NotExchanged(r)
  <2>1. RunsInv'
    BY <1>1, <1>7, MovesOn DEF NotAnswered, NotExchanged
  <2> QED
    BY <1>2, <1>3, <1>7, <2>1 DEF NotAnswered, NotExchanged
<1>8. CASE Exchanged(r)
  <2>1. page = "complete" /\ leaving # "logout" /\ ~out
    BY <1>8 DEF Exchanged, Aborted, Run
  <2>2. RunsInv'
    BY <1>1, <1>8, MovesOn DEF Exchanged
  <2> QED
    BY <1>3, <1>8, <2>1, <2>2, BridgeAssumption DEF Exchanged, Unmount
<1> QED
  BY <1>4, <1>5, <1>6, <1>7, <1>8 DEF RunSteps

LEMMA MountStarts ==
    ASSUME TabInv, \E r \in Run : Starts(r)
    PROVE  RunsInv' /\ run' \in Runs /\ current' \in 0..MaxRuns
<1>1. PICK r \in Run : Move(r, "polling") /\ current' = r
  BY DEF Starts, Move
<1>2. "polling" \in Stage \ {"asking"}
  BY DEF Stage
<1>3. RunsInv'
  BY <1>1, <1>2, MovesOn
<1>4. current' \in 0..MaxRuns
  BY <1>1, BridgeAssumption DEF Run
<1> QED
  BY <1>3, <1>4 DEF RunsInv

LEMMA TabKeepsTabInv ==
    ASSUME TabInv, Bridge \/ SignOut \/ Moves
    PROVE  TabInv'
<1> USE DEF TabInv, TabTypeOK, RunsInv, SignOutHolds, bridge, logout
<1>1. CASE \E r \in Run : RunSteps(r)
  BY <1>1, RunsKeepTabInv
<1>2. CASE Rerun
  BY <1>2, MountStarts DEF Rerun
<1>3. CASE ChooseBuyer
  BY <1>3, BridgeAssumption DEF ChooseBuyer, Unmount
<1>4. CASE ChooseSeller
  BY <1>4 DEF ChooseSeller
<1>5. CASE Promoted
  BY <1>5, BridgeAssumption DEF Promoted, Unmount
<1>6. CASE BackToSignIn
  BY <1>6 DEF BackToSignIn
<1>7. CASE Recovered
  <2>1. CASE clerk' = FALSE /\ Unmount("login")
    <3>1. current' \in 0..MaxRuns
      BY <2>1, BridgeAssumption DEF Unmount
    <3> QED
      BY <1>7, <2>1, <3>1 DEF Recovered, Unmount
  <2>2. CASE UNCHANGED <<page, clerk, current>>
    BY <1>7, <2>2 DEF Recovered
  <2> QED
    BY <1>7, <2>1, <2>2 DEF Recovered
<1>8. CASE Logout
  BY <1>8 DEF Logout
<1>9. CASE ApiSignsOut
  <2>1. CASE apiOut' = "ok" /\ cookie' = FALSE
    BY <1>9, <2>1 DEF ApiSignsOut
  <2>2. CASE apiOut' = "failed" /\ UNCHANGED cookie
    BY <1>9, <2>2 DEF ApiSignsOut
  <2> QED
    BY <1>9, <2>1, <2>2 DEF ApiSignsOut
<1>10. CASE ClerkSignsOut
  BY <1>10 DEF ClerkSignsOut, ClerkEnds
<1>11. CASE Redirect
  <2>1. out' => ~cookie' /\ ~clerk'
    BY <1>11 DEF Redirect
  <2> QED
    BY <1>11, <2>1, BridgeAssumption DEF Redirect, Unmount
<1>12. CASE TurnAway
  BY <1>12, BridgeAssumption DEF TurnAway, Unmount
<1>13. CASE SessionEnds
  BY <1>13 DEF SessionEnds
<1>14. CASE SignIn
  <2>1. signIns' \in 0..MaxSignIns
    BY <1>14, BridgeAssumption DEF SignIn
  <2> QED
    BY <1>14, <2>1, MountStarts DEF SignIn, Mount
<1>15. CASE BounceBack
  BY <1>15, MountStarts DEF BounceBack, Mount
<1> QED
  BY <1>1, <1>2, <1>3, <1>4, <1>5, <1>6, <1>7, <1>8, <1>9, <1>10, <1>11, <1>12, <1>13,
     <1>14, <1>15 DEF Bridge, SignOut, Moves

LEMMA TabStands ==
    ASSUME TabInv, UNCHANGED tab
    PROVE  TabInv'
BY DEF TabInv, TabTypeOK, RunsInv, SignOutHolds, tab, bridge, logout

\* What a tab does keeps TabInv, and the catalog has no part in it.
THEOREM TabInvariance == Spec => []TabInv
<1>1. Init => TabInv
  BY TabInvInit DEF Init
<1>2. TabInv /\ [Next]_vars => TabInv'
  BY TabKeepsTabInv, TabStands DEF Next, Catalog, vars
<1> QED
  BY <1>1, <1>2, PTL DEF Spec

\* A tab that signed out of both sessions stays out until the user signs in: at every
\* step of it the login page is shown without either session, whatever run of an
\* earlier visit to /complete still waits for an answer (use-logout.ts 17-20,
\* session-bridge.tsx 63-135).
THEOREM SignedOutStaysOut == Spec => []SignOutHolds
<1>1. TabInv => SignOutHolds
  BY DEF TabInv
<1> QED
  BY <1>1, TabInvariance, PTL

----------------------------------------------------------------------------
(* The scan by age.                                                        *)

\* What the next page may rely on: the cursor parts what was shown from what stayed and
\* is still to be shown.
Parted(s, stayed) ==
    \A l \in Listing :
        /\ s.shown[l] <= 1
        /\ s.shown[l] = 1 => ~AfterCursor(s.last, l)
        /\ l \in stayed /\ s.shown[l] = 0 => AfterCursor(s.last, l)

KeysetInv(s, stayed) ==
    s.sort = "newest" =>
        /\ s.phase = "more" => Parted(s, stayed)
        /\ \A l \in Listing : /\ s.shown[l] <= 1
                              /\ l \in stayed /\ s.shown[l] = 0 => s.phase = "more"

LEMMA PageIsTyped ==
    ASSUME NEW s \in Scans, public \in SUBSET Listing
    PROVE  Page(s) \in Scans /\ Page(s).sort = s.sort
<1> DEFINE rest  == Rest(s)
           items == FirstOf(s.sort, rest, Limit)
           more  == [s EXCEPT !.phase  = IF Cardinality(rest) > Limit THEN "more" ELSE "end",
                              !.last   = IF s.sort = "newest" THEN LastOf(s.sort, items)
                                                              ELSE {},
                              !.offset = IF s.sort = "newest" THEN 0
                                                              ELSE NextOffset(s.offset),
                              !.shown  = [l \in Listing |->
                                             IF l \in items THEN s.shown[l] + 1
                                                            ELSE s.shown[l]]]
<1>1. Page(s) \in {[s EXCEPT !.phase = "refused"], more}
  BY DEF Page
<1>2. LastOf(s.sort, items) \in SUBSET Listing
  BY DEF LastOf, FirstOf, Rest
<1>3. NextOffset(s.offset) \in Nat
  BY LimitIs DEF NextOffset, Scans
<1> HIDE DEF items, rest
<1>4. [l \in Listing |-> IF l \in items THEN s.shown[l] + 1 ELSE s.shown[l]]
          \in [Listing -> Nat]
  BY DEF Scans
<1>5. more \in Scans /\ more.sort = s.sort
  BY <1>2, <1>3, <1>4 DEF Scans
<1>6. [s EXCEPT !.phase = "refused"] \in Scans
  BY DEF Scans
<1>7. [s EXCEPT !.phase = "refused"].sort = s.sort
  BY DEF Scans
<1> HIDE DEF more
<1> QED
  BY <1>1, <1>5, <1>6, <1>7

\* What a page of a scan does, field by field.
LEMMA KeysetPageIs ==
    ASSUME NEW s \in Scans, s.sort = "newest"
    PROVE  LET rest  == { l \in public : AfterCursor(s.last, l) }
               items == FirstOf("newest", rest, Limit)
           IN  /\ Page(s).phase = IF Cardinality(rest) > Limit THEN "more" ELSE "end"
               /\ Page(s).last = LastOf("newest", items)
               /\ \A l \in Listing : Page(s).shown[l] = IF l \in items THEN s.shown[l] + 1
                                                                       ELSE s.shown[l]
BY DEF Page, Rest, Scans

LEMMA KeysetPage ==
    ASSUME NEW s \in Scans, s.sort = "newest", NEW stayed \in SUBSET public,
           public \in SUBSET Listing, Parted(s, stayed)
    PROVE  KeysetInv(Page(s), stayed)
<1> DEFINE rest  == { l \in public : AfterCursor(s.last, l) }
           items == FirstOf("newest", rest, Limit)
           p     == Page(s)
<1>1. /\ p.phase = IF Cardinality(rest) > Limit THEN "more" ELSE "end"
      /\ p.last = LastOf("newest", items)
      /\ \A l \in Listing : p.shown[l] = IF l \in items THEN s.shown[l] + 1 ELSE s.shown[l]
  BY KeysetPageIs
<1>2. rest \in SUBSET Listing /\ items \in SUBSET rest
  BY DEF FirstOf
<1>3. s.last \in SUBSET Listing /\ \A l \in Listing : s.shown[l] \in Nat
  BY DEF Scans
<1>4. \A l \in rest : AfterCursor(s.last, l)
  OBVIOUS
<1>5. \A l \in stayed : AfterCursor(s.last, l) => l \in rest
  OBVIOUS
<1>6. \A l \in rest \ items : p.phase = "more" /\ AfterCursor(p.last, l)
  BY <1>1, <1>2, LeftForLater
<1>7. Cardinality(rest) > Limit => \E m \in items : /\ p.last = {m}
                                                    /\ \A k \in items \ {m} : Newer(k, m)
  <2>1. rest = {} => ~(Cardinality(rest) > Limit)
    BY FS_EmptySet, LimitIs
  <2> QED
    BY <1>1, <1>2, <2>1, CursorIs
<1> HIDE DEF rest, items, p
<1>8. ASSUME NEW l \in Listing
      PROVE  /\ p.shown[l] <= 1
             /\ l \in stayed /\ p.shown[l] = 0 => p.phase = "more" /\ AfterCursor(p.last, l)
  BY <1>1, <1>2, <1>3, <1>4, <1>5, <1>6, <1>8 DEF Parted
<1>9. ASSUME NEW l \in Listing, p.shown[l] = 1, p.phase = "more"
      PROVE  ~AfterCursor(p.last, l)
  <2>1. PICK m \in items : p.last = {m} /\ \A k \in items \ {m} : Newer(k, m)
    BY <1>1, <1>7, <1>9
  <2>2. SUFFICES ASSUME Newer(m, l)
                 PROVE  FALSE
    BY <2>1 DEF AfterCursor
  <2>3. \A a, b, c \in Listing : /\ ~Newer(a, a)
                                 /\ Newer(a, b) /\ Newer(b, c) => Newer(a, c)
    BY Order DEF Sort, Precedes
  <2>4. CASE l \in items
    BY <1>2, <2>1, <2>2, <2>3, <2>4
  <2>5. CASE l \notin items
    <3>1. ~AfterCursor(s.last, l)
      BY <1>1, <1>9, <2>5 DEF Parted
    <3>2. AfterCursor(s.last, m) /\ m \in Listing
      BY <1>2, <1>4, <2>1
    <3> QED
      BY <1>3, <2>2, <2>3, <3>1, <3>2 DEF AfterCursor
  <2> QED
    BY <2>4, <2>5
<1> QED
  BY <1>8, <1>9 DEF KeysetInv, Parted, p

----------------------------------------------------------------------------
(* The scan by price.                                                      *)

RankOf(rows, l) == Rank("price_asc", rows, l)

\* The rows that stayed and are shown twice, or will be; and those that were never
\* shown, and will not be.
Again(s, rows, stayed) ==
    { l \in stayed : \/ s.shown[l] > 1
                     \/ s.shown[l] >= 1 /\ RankOf(rows, l) >= s.offset }

Missed(s, rows, stayed) ==
    { l \in stayed : s.shown[l] = 0 /\ RankOf(rows, l) < s.offset }

NotShown(s, stayed) == { l \in stayed : s.shown[l] = 0 }

OffsetInv(s, rows, h) ==
    s.sort = "price_asc" =>
        /\ Cardinality(Again(s, rows, h.stayed)) <= h.entered
        /\ Cardinality(Missed(s, rows, h.stayed)) <= h.left
        /\ s.phase = "end" => Cardinality(NotShown(s, h.stayed)) <= h.left

\* A row that enters moves a row down by one at most, and none up.
LEMMA RankMoves ==
    ASSUME NEW rows \in SUBSET Listing, NEW x \in Listing, x \notin rows, NEW l \in rows
    PROVE  /\ RankOf(rows, l) \in Nat /\ RankOf(rows \cup {x}, l) \in Nat
           /\ RankOf(rows, l) <= RankOf(rows \cup {x}, l)
           /\ RankOf(rows \cup {x}, l) <= RankOf(rows, l) + 1
<1> DEFINE old == Before("price_asc", rows, l)
           new == Before("price_asc", rows \cup {x}, l)
<1>1. old \in SUBSET Listing /\ new \in SUBSET Listing /\ old \in SUBSET new
  BY DEF Before
<1>2. \A a, b \in new \ old : a = b
  BY DEF Before
<1>3. "price_asc" \in Sort /\ rows \cup {x} \in SUBSET Listing
  BY DEF Sort
<1>4. RankOf(rows, l) \in Nat /\ RankOf(rows \cup {x}, l) \in Nat
  BY <1>3, RankIs DEF RankOf
<1>5. Cardinality(old) <= Cardinality(new) /\ Cardinality(new) <= Cardinality(old) + 1
  <2> HIDE DEF old, new
  <2> QED
    BY <1>1, <1>2, Fewer, OneMore
<1> QED
  BY <1>4, <1>5 DEF RankOf, Rank

LEMMA RanksDiffer ==
    ASSUME NEW rows \in SUBSET Listing, NEW a \in rows, NEW b \in rows,
           RankOf(rows, a) = RankOf(rows, b)
    PROVE  a = b
BY RankOrders DEF Sort, RankOf

LEMMA EnteringKeepsOffsetInv ==
    ASSUME NEW s \in Scans, NEW rows \in SUBSET Listing, NEW h \in Histories,
           h.stayed \in SUBSET rows, NEW x \in Listing, x \notin rows, OffsetInv(s, rows, h)
    PROVE  OffsetInv(s, rows \cup {x}, [h EXCEPT !.entered = @ + 1])
<1> SUFFICES ASSUME s.sort = "price_asc"
             PROVE  OffsetInv(s, rows \cup {x}, [h EXCEPT !.entered = @ + 1])
  BY DEF OffsetInv
<1> DEFINE new == rows \cup {x}
           h2  == [h EXCEPT !.entered = @ + 1]
<1>1. /\ h2.stayed = h.stayed /\ h2.entered = h.entered + 1 /\ h2.left = h.left
      /\ h.entered \in Nat /\ h.left \in Nat /\ s.offset \in Nat
      /\ \A l \in Listing : s.shown[l] \in Nat
  BY DEF Histories, Scans
<1>2. \A l \in h.stayed : /\ l \in rows /\ l \in Listing
                          /\ RankOf(rows, l) \in Nat /\ RankOf(new, l) \in Nat
                          /\ RankOf(rows, l) <= RankOf(new, l)
                          /\ RankOf(new, l) <= RankOf(rows, l) + 1
  BY RankMoves
<1>3. \A a, b \in h.stayed : RankOf(rows, a) = RankOf(rows, b) => a = b
  BY RanksDiffer
<1>4. /\ Again(s, rows, h.stayed) \in SUBSET Listing
      /\ Again(s, new, h.stayed) \in SUBSET Listing
      /\ Missed(s, rows, h.stayed) \in SUBSET Listing
  BY DEF Again, Missed
<1> HIDE DEF new, h2
<1>5. \A l \in Again(s, new, h.stayed) \ Again(s, rows, h.stayed) :
          l \in h.stayed /\ RankOf(rows, l) + 1 = s.offset
  BY <1>1, <1>2 DEF Again
<1>6. \A a, b \in Again(s, new, h.stayed) \ Again(s, rows, h.stayed) : a = b
  BY <1>1, <1>2, <1>3, <1>5
<1>7. Cardinality(Again(s, new, h.stayed)) <= Cardinality(Again(s, rows, h.stayed)) + 1
  BY <1>4, <1>6, OneMore
<1>8. Missed(s, new, h.stayed) \in SUBSET Missed(s, rows, h.stayed)
  BY <1>1, <1>2 DEF Missed
<1>9. Cardinality(Missed(s, new, h.stayed)) <= Cardinality(Missed(s, rows, h.stayed))
  BY <1>4, <1>8, Fewer
<1>10. /\ Cardinality(Again(s, new, h.stayed)) \in Nat
       /\ Cardinality(Again(s, rows, h.stayed)) \in Nat
       /\ Cardinality(Missed(s, new, h.stayed)) \in Nat
       /\ Cardinality(Missed(s, rows, h.stayed)) \in Nat
  BY <1>4, <1>8, RowsAreFinite
<1>11. OffsetInv(s, new, h2)
  BY <1>1, <1>7, <1>9, <1>10 DEF OffsetInv
<1> QED
  BY <1>11 DEF new, h2

LEMMA LeavingKeepsOffsetInv ==
    ASSUME NEW s \in Scans, NEW rows \in SUBSET Listing, NEW h \in Histories,
           h.stayed \in SUBSET rows, NEW x \in rows, OffsetInv(s, rows, h)
    PROVE  OffsetInv(s, rows \ {x}, [h EXCEPT !.stayed = @ \ {x}, !.left = @ + 1])
<1> SUFFICES ASSUME s.sort = "price_asc"
             PROVE  OffsetInv(s, rows \ {x}, [h EXCEPT !.stayed = @ \ {x}, !.left = @ + 1])
  BY DEF OffsetInv
<1> DEFINE new  == rows \ {x}
           stay == h.stayed \ {x}
           h2   == [h EXCEPT !.stayed = @ \ {x}, !.left = @ + 1]
<1>1. /\ h2.stayed = stay /\ h2.entered = h.entered /\ h2.left = h.left + 1
      /\ h.entered \in Nat /\ h.left \in Nat /\ s.offset \in Nat
      /\ \A l \in Listing : s.shown[l] \in Nat
  BY DEF Histories, Scans
<1>2. \A l \in stay : /\ l \in rows /\ l \in Listing
                      /\ RankOf(rows, l) \in Nat /\ RankOf(new, l) \in Nat
                      /\ RankOf(new, l) <= RankOf(rows, l)
                      /\ RankOf(rows, l) <= RankOf(new, l) + 1
  <2>1. new \cup {x} = rows /\ x \notin new /\ new \in SUBSET Listing
    OBVIOUS
  <2>2. \A l \in stay : l \in new
    OBVIOUS
  <2> HIDE DEF new
  <2> QED
    BY <2>1, <2>2, RankMoves
<1>3. \A a, b \in stay : RankOf(rows, a) = RankOf(rows, b) => a = b
  BY RanksDiffer
<1>4. /\ Again(s, rows, h.stayed) \in SUBSET Listing
      /\ Missed(s, new, stay) \in SUBSET Listing
      /\ Missed(s, rows, h.stayed) \in SUBSET Listing
      /\ NotShown(s, h.stayed) \in SUBSET Listing
      /\ NotShown(s, stay) \in SUBSET NotShown(s, h.stayed)
      /\ stay \in SUBSET h.stayed
  BY DEF Again, Missed, NotShown
<1> HIDE DEF new, stay, h2
<1>5. Again(s, new, stay) \in SUBSET Again(s, rows, h.stayed)
  BY <1>1, <1>2, <1>4 DEF Again
<1>6. \A l \in Missed(s, new, stay) \ Missed(s, rows, h.stayed) :
          l \in stay /\ RankOf(rows, l) = s.offset
  BY <1>1, <1>2, <1>4 DEF Missed
<1>7. \A a, b \in Missed(s, new, stay) \ Missed(s, rows, h.stayed) : a = b
  BY <1>3, <1>6
<1>8. /\ Cardinality(Missed(s, new, stay)) <= Cardinality(Missed(s, rows, h.stayed)) + 1
      /\ Cardinality(Again(s, new, stay)) <= Cardinality(Again(s, rows, h.stayed))
      /\ Cardinality(NotShown(s, stay)) <= Cardinality(NotShown(s, h.stayed))
  BY <1>4, <1>5, <1>7, OneMore, Fewer
<1>9. /\ Cardinality(Again(s, new, stay)) \in Nat
      /\ Cardinality(Again(s, rows, h.stayed)) \in Nat
      /\ Cardinality(Missed(s, new, stay)) \in Nat
      /\ Cardinality(Missed(s, rows, h.stayed)) \in Nat
      /\ Cardinality(NotShown(s, stay)) \in Nat
      /\ Cardinality(NotShown(s, h.stayed)) \in Nat
  BY <1>4, <1>5, RowsAreFinite
<1>10. OffsetInv(s, new, h2)
  BY <1>1, <1>8, <1>9 DEF OffsetInv
<1> QED
  BY <1>10 DEF new, h2

\* A page adds to neither set: what it shows lies past the offset, and what it skips
\* lay before it.
LEMMA PageKeepsOffsetInv ==
    ASSUME NEW s \in Scans, public \in SUBSET Listing, NEW h \in Histories,
           h.stayed \in SUBSET public, OffsetInv(s, public, h), s.phase # "end"
    PROVE  OffsetInv(Page(s), public, h)
<1> DEFINE rest  == public \ FirstOf("price_asc", public, s.offset)
           items == FirstOf("price_asc", rest, Limit)
           p     == Page(s)
<1>1. Page(s).sort = s.sort
  BY PageIsTyped
<1> SUFFICES ASSUME s.sort = "price_asc"
             PROVE  OffsetInv(Page(s), public, h)
  BY <1>1 DEF OffsetInv
<1>2. CASE s.offset > MaxOffset
  <2>1. Page(s) = [s EXCEPT !.phase = "refused"]
    BY <1>2 DEF Page
  <2>2. p.sort = s.sort /\ p.phase = "refused" /\ p.offset = s.offset /\ p.shown = s.shown
    BY <2>1 DEF Scans
  <2> HIDE DEF p
  <2>3. /\ Again(p, public, h.stayed) = Again(s, public, h.stayed)
        /\ Missed(p, public, h.stayed) = Missed(s, public, h.stayed)
    BY <2>2 DEF Again, Missed
  <2>4. OffsetInv(p, public, h)
    BY <2>2, <2>3 DEF OffsetInv
  <2> QED
    BY <2>4 DEF p
<1>3. CASE ~(s.offset > MaxOffset)
  <2>1. /\ p.sort = "price_asc"
        /\ p.phase = IF Cardinality(rest) > Limit THEN "more" ELSE "end"
        /\ p.offset = s.offset + Limit
        /\ \A l \in Listing : p.shown[l] = IF l \in items THEN s.shown[l] + 1 ELSE s.shown[l]
    BY <1>3 DEF Page, Rest, NextOffset, Scans
  <2>2. /\ s.offset \in Nat /\ Limit \in Nat /\ h.left \in Nat /\ h.entered \in Nat
        /\ \A l \in Listing : s.shown[l] \in Nat
    BY LimitIs DEF Scans, Histories
  <2>3. \A l \in h.stayed :
            /\ l \in Listing /\ RankOf(public, l) \in Nat
            /\ l \in items <=> /\ s.offset <= RankOf(public, l)
                               /\ RankOf(public, l) < s.offset + Limit
            /\ Cardinality(rest) <= Limit => RankOf(public, l) < s.offset + Limit
    BY <2>2, WindowIs, RankIs DEF Sort, RankOf
  <2>4. Cardinality(rest) \in Nat
    BY RowsAreFinite
  <2> HIDE DEF rest, items, p
  <2>5. Again(p, public, h.stayed) \in SUBSET Again(s, public, h.stayed)
    BY <2>1, <2>2, <2>3 DEF Again
  <2>6. Missed(p, public, h.stayed) \in SUBSET Missed(s, public, h.stayed)
    BY <2>1, <2>2, <2>3 DEF Missed
  <2>7. p.phase = "end" =>
            NotShown(p, h.stayed) \in SUBSET Missed(s, public, h.stayed)
    BY <2>1, <2>2, <2>3, <2>4 DEF Missed, NotShown
  <2>8. /\ Again(s, public, h.stayed) \in SUBSET Listing
        /\ Missed(s, public, h.stayed) \in SUBSET Listing
        /\ Again(p, public, h.stayed) \in SUBSET Listing
        /\ Missed(p, public, h.stayed) \in SUBSET Listing
        /\ NotShown(p, h.stayed) \in SUBSET Listing
    BY DEF Again, Missed, NotShown
  <2>9. /\ Cardinality(Again(p, public, h.stayed)) <= Cardinality(Again(s, public, h.stayed))
        /\ Cardinality(Missed(p, public, h.stayed))
               <= Cardinality(Missed(s, public, h.stayed))
        /\ p.phase = "end" => Cardinality(NotShown(p, h.stayed))
                                  <= Cardinality(Missed(s, public, h.stayed))
    BY <2>5, <2>6, <2>7, <2>8, Fewer
  <2>10. /\ Cardinality(Again(s, public, h.stayed)) \in Nat
         /\ Cardinality(Again(p, public, h.stayed)) \in Nat
         /\ Cardinality(Missed(s, public, h.stayed)) \in Nat
         /\ Cardinality(Missed(p, public, h.stayed)) \in Nat
         /\ Cardinality(NotShown(p, h.stayed)) \in Nat
    BY <2>8, RowsAreFinite
  <2>11. OffsetInv(p, public, h)
    BY <2>1, <2>2, <2>9, <2>10 DEF OffsetInv
  <2> QED
    BY <2>11 DEF p
<1> QED
  BY <1>2, <1>3

----------------------------------------------------------------------------
(* The catalog while the tab shows it.                                     *)

CatalogInv ==
    /\ CatalogTypeOK
    /\ history.stayed \subseteq public
    /\ KeysetInv(scan, history.stayed)
    /\ OffsetInv(scan, public, history)

LEMMA NothingToCount ==
    ASSUME NEW s \in Scans, NEW rows \in SUBSET Listing, NEW h \in Histories,
           s.offset = 0, \A l \in Listing : s.shown[l] = 0,
           s.phase # "end", h.stayed \in SUBSET Listing
    PROVE  OffsetInv(s, rows, h)
<1>1. \A l \in h.stayed : s.shown[l] = 0 /\ ~(s.shown[l] > 1) /\ ~(s.shown[l] >= 1)
  OBVIOUS
<1>2. Again(s, rows, h.stayed) = {}
  BY <1>1 DEF Again
<1>3. "price_asc" \in Sort
  BY DEF Sort
<1>4. ASSUME NEW l \in h.stayed
      PROVE  ~(RankOf(rows, l) < s.offset)
  <2>1. l \in Listing
    OBVIOUS
  <2>2. RankOf(rows, l) \in Nat
    BY <1>3, <2>1, RankIs DEF RankOf
  <2> QED
    BY <2>2
<1>5. Missed(s, rows, h.stayed) = {}
  BY <1>4 DEF Missed
<1>6. h.entered \in Nat /\ h.left \in Nat
  BY DEF Histories
<1> QED
  BY <1>2, <1>5, <1>6, FS_EmptySet DEF OffsetInv

LEMMA BlankIs ==
    /\ NoScan \in Scans /\ NoHistory \in Histories /\ NoHistory.stayed = {}
    /\ NoScan.offset = 0 /\ NoScan.phase = "off"
    /\ \A l \in Listing : NoScan.shown[l] = 0
    /\ KeysetInv(NoScan, {})
BY DEF NoScan, NoHistory, Scans, Histories, KeysetInv

LEMMA NothingShown ==
    ASSUME NEW rows \in SUBSET Listing
    PROVE  OffsetInv(NoScan, rows, NoHistory)
BY BlankIs, NothingToCount

LEMMA CatalogInvInit == Init => CatalogInv
<1> SUFFICES ASSUME Init
             PROVE  CatalogInv
  OBVIOUS
<1>1. public \in SUBSET Listing /\ moves = 0 /\ scan = NoScan /\ history = NoHistory
  BY DEF Init, CatalogInit
<1>2. CatalogTypeOK
  BY <1>1, BlankIs, PagingAssumption DEF CatalogTypeOK
<1>3. OffsetInv(scan, public, history)
  BY <1>1, NothingShown
<1> QED
  BY <1>1, <1>2, <1>3, BlankIs DEF CatalogInv

LEMMA VisitKeepsCatalogInv ==
    ASSUME CatalogInv, Visit
    PROVE  CatalogInv'
<1>1. CASE UNCHANGED catalog
  BY <1>1 DEF CatalogInv, CatalogTypeOK, catalog
<1>2. CASE /\ public' \in SUBSET Listing
           /\ moves' = 0
           /\ scan' = NoScan
           /\ history' = NoHistory
  <2>1. CatalogTypeOK'
    <3>1. 0 \in 0..MaxMoves
      BY PagingAssumption
    <3> QED
      BY <1>2, <3>1, BlankIs DEF CatalogTypeOK
  <2>2. KeysetInv(scan', history'.stayed) /\ OffsetInv(scan', public', history')
    BY <1>2, BlankIs, NothingShown
  <2>3. history'.stayed \subseteq public'
    BY <1>2, BlankIs
  <2> QED
    BY <2>1, <2>2, <2>3 DEF CatalogInv
<1> QED
  BY <1>1, <1>2 DEF Visit

LEMMA BrowsingKeepsCatalogInv ==
    ASSUME CatalogInv, NEW sort \in Sort, Browse(sort)
    PROVE  CatalogInv'
<1> DEFINE s == [NoScan EXCEPT !.sort = sort]
           h == [NoHistory EXCEPT !.stayed = public]
<1>1. scan' = Page(s) /\ history' = h /\ public' = public /\ moves' = moves
  BY DEF Browse
<1>2. /\ public \in SUBSET Listing
      /\ s \in Scans /\ s.sort = sort /\ s.offset = 0 /\ s.phase = "off" /\ s.last = {}
      /\ \A l \in Listing : s.shown[l] = 0
  BY DEF CatalogInv, CatalogTypeOK, NoScan, Scans, Sort
<1>3. h \in Histories /\ h.stayed = public
  BY <1>2 DEF NoHistory, Histories
<1> HIDE DEF s, h
<1>4. Parted(s, public)
  BY <1>2 DEF Parted, AfterCursor
<1>5. OffsetInv(s, public, h)
  BY <1>2, <1>3, NothingToCount
<1>6. Page(s) \in Scans /\ Page(s).sort = sort
  BY <1>2, PageIsTyped
<1>7. KeysetInv(Page(s), public)
  <2>1. CASE sort = "newest"
    BY <1>2, <1>4, <2>1, KeysetPage
  <2>2. CASE sort # "newest"
    BY <1>6, <2>2 DEF KeysetInv
  <2> QED
    BY <2>1, <2>2
<1>8. OffsetInv(Page(s), public, h)
  BY <1>2, <1>3, <1>5, PageKeepsOffsetInv
<1>9. CatalogTypeOK'
  BY <1>1, <1>3, <1>6 DEF CatalogInv, CatalogTypeOK
<1> QED
  BY <1>1, <1>3, <1>7, <1>8, <1>9 DEF CatalogInv

LEMMA LoadingKeepsCatalogInv ==
    ASSUME CatalogInv, LoadMore
    PROVE  CatalogInv'
<1>1. /\ scan.phase = "more" /\ scan' = Page(scan)
      /\ public' = public /\ moves' = moves /\ history' = history
  BY DEF LoadMore
<1>2. /\ scan \in Scans /\ public \in SUBSET Listing /\ history \in Histories
      /\ history.stayed \in SUBSET public
      /\ KeysetInv(scan, history.stayed) /\ OffsetInv(scan, public, history)
  BY DEF CatalogInv, CatalogTypeOK
<1>3. Page(scan) \in Scans /\ Page(scan).sort = scan.sort
  BY <1>2, PageIsTyped
<1>4. KeysetInv(Page(scan), history.stayed)
  <2>1. CASE scan.sort = "newest"
    <3>1. Parted(scan, history.stayed)
      BY <1>1, <1>2, <2>1 DEF KeysetInv
    <3> QED
      BY <1>2, <2>1, <3>1, KeysetPage
  <2>2. CASE scan.sort # "newest"
    BY <1>3, <2>2 DEF KeysetInv
  <2> QED
    BY <2>1, <2>2
<1>5. OffsetInv(Page(scan), public, history)
  BY <1>1, <1>2, PageKeepsOffsetInv
<1>6. CatalogTypeOK'
  BY <1>1, <1>3 DEF CatalogInv, CatalogTypeOK
<1> QED
  BY <1>1, <1>2, <1>4, <1>5, <1>6 DEF CatalogInv

\* Fewer listings that stayed: the scan by age owes fewer.
LEMMA FewerStay ==
    ASSUME NEW s, NEW stayed, NEW fewer \in SUBSET stayed, KeysetInv(s, stayed)
    PROVE  KeysetInv(s, fewer)
BY DEF KeysetInv, Parted

LEMMA MovingKeepsCatalogInv ==
    ASSUME CatalogInv, NEW l \in Listing, Enters(l) \/ Leaves(l)
    PROVE  CatalogInv'
<1>1. /\ scan \in Scans /\ public \in SUBSET Listing /\ history \in Histories
      /\ history.stayed \in SUBSET public
      /\ KeysetInv(scan, history.stayed) /\ OffsetInv(scan, public, history)
  BY DEF CatalogInv, CatalogTypeOK
<1>2. moves' \in 0..MaxMoves
  BY PagingAssumption DEF CatalogInv, CatalogTypeOK, Enters, Leaves
<1>3. CASE Enters(l)
  <2>1. /\ l \notin public /\ public' = public \cup {l} /\ scan' = scan
        /\ history' = [history EXCEPT !.entered = @ + 1]
    BY <1>3 DEF Enters
  <2>2. history' \in Histories /\ history'.stayed = history.stayed
    BY <1>1, <2>1 DEF Histories
  <2>3. OffsetInv(scan', public', history')
    BY <1>1, <2>1, EnteringKeepsOffsetInv
  <2>4. CatalogTypeOK'
    BY <1>1, <1>2, <2>1, <2>2 DEF CatalogTypeOK
  <2> QED
    BY <1>1, <2>1, <2>2, <2>3, <2>4 DEF CatalogInv
<1>4. CASE Leaves(l)
  <2>1. /\ l \in public /\ public' = public \ {l} /\ scan' = scan
        /\ history' = [history EXCEPT !.stayed = @ \ {l}, !.left = @ + 1]
    BY <1>4 DEF Leaves
  <2>2. history' \in Histories /\ history'.stayed = history.stayed \ {l}
    <3>1. history.stayed \ {l} \in SUBSET Listing
      BY <1>1
    <3>2. history.left + 1 \in Nat
      BY <1>1 DEF Histories
    <3> QED
      BY <1>1, <2>1, <3>1, <3>2 DEF Histories
  <2>3. OffsetInv(scan', public', history')
    BY <1>1, <2>1, LeavingKeepsOffsetInv
  <2>4. KeysetInv(scan', history'.stayed)
    BY <1>1, <2>1, <2>2, FewerStay
  <2>5. CatalogTypeOK'
    BY <1>1, <1>2, <2>1, <2>2 DEF CatalogTypeOK
  <2> QED
    BY <1>1, <2>1, <2>2, <2>3, <2>4, <2>5 DEF CatalogInv
<1> QED
  BY <1>3, <1>4

LEMMA StepKeepsCatalogInv ==
    ASSUME CatalogInv, [Next]_vars
    PROVE  CatalogInv'
<1>1. CASE Visit
  BY <1>1, VisitKeepsCatalogInv
<1>2. CASE Catalog
  BY <1>2, BrowsingKeepsCatalogInv, LoadingKeepsCatalogInv, MovingKeepsCatalogInv
     DEF Catalog, Sort
<1>3. CASE UNCHANGED vars
  BY <1>3 DEF vars, CatalogInv, CatalogTypeOK, catalog
<1> QED
  BY <1>1, <1>2, <1>3 DEF Next

\* Visits, pages, and listings that come and go keep CatalogInv.
THEOREM CatalogInvariance == Spec => []CatalogInv
BY CatalogInvInit, StepKeepsCatalogInv, PTL DEF Spec

\* The state of the tab and of its catalog keeps its types.
THEOREM TypeCorrect == Spec => []TypeOK
<1>1. TabInv /\ CatalogInv => TypeOK
  BY DEF TabInv, CatalogInv, TypeOK
<1> QED
  BY <1>1, TabInvariance, CatalogInvariance, PTL

\* However many listings enter and leave a catalog of any size, and whichever of them
\* were created together: read by age, none is on two pages, and at the end none that
\* stayed public is missing (listings.service.ts 243-264).
THEOREM ScansByAgeAreExact == Spec => []KeysetScanIsExact
<1>1. CatalogInv => KeysetScanIsExact
  <2> SUFFICES ASSUME CatalogInv, scan.sort = "newest"
               PROVE  Repeated = {} /\ (scan.phase = "end" => Skipped = {})
    BY DEF KeysetScanIsExact
  <2>1. \A l \in Listing : scan.shown[l] \in Nat /\ scan.shown[l] <= 1
    BY DEF CatalogInv, CatalogTypeOK, Scans, KeysetInv
  <2>2. scan.phase = "end" => \A l \in history.stayed : scan.shown[l] # 0
    BY DEF CatalogInv, CatalogTypeOK, KeysetInv
  <2> QED
    BY <2>1, <2>2 DEF Repeated, Skipped
<1> QED
  BY <1>1, CatalogInvariance, PTL

\* Read by price, the pages show no more listings twice than have entered meanwhile,
\* and miss no more of those that stayed than have left (listings.service.ts 223-241).
THEOREM ScansByPriceDrift == Spec => []OffsetScanDrifts
<1>1. CatalogInv => OffsetScanDrifts
  <2> SUFFICES ASSUME CatalogInv, scan.sort # "newest"
               PROVE  /\ Cardinality({ l \in history.stayed : scan.shown[l] > 1 })
                             <= history.entered
                      /\ scan.phase = "end" => Cardinality(Skipped) <= history.left
    BY DEF OffsetScanDrifts
  <2> DEFINE twice == { l \in history.stayed : scan.shown[l] > 1 }
             again == Again(scan, public, history.stayed)
  <2>1. /\ scan.sort = "price_asc" /\ OffsetInv(scan, public, history)
        /\ history.stayed \in SUBSET Listing /\ history.entered \in Nat
    BY DEF CatalogInv, CatalogTypeOK, Scans, Histories
  <2>2. twice \in SUBSET again /\ again \in SUBSET Listing
    BY <2>1 DEF Again
  <2>3. Skipped = NotShown(scan, history.stayed)
    BY DEF Skipped, NotShown
  <2> HIDE DEF twice, again
  <2>4. /\ Cardinality(twice) <= Cardinality(again)
        /\ Cardinality(twice) \in Nat /\ Cardinality(again) \in Nat
    BY <2>2, Fewer, RowsAreFinite
  <2>5. Cardinality(again) <= history.entered
    BY <2>1 DEF OffsetInv, again
  <2> QED
    BY <2>1, <2>3, <2>4, <2>5 DEF OffsetInv, twice
<1> QED
  BY <1>1, CatalogInvariance, PTL
===========================================================================
