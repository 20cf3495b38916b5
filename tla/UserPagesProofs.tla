--------------------------- MODULE UserPagesProofs ---------------------------
(***************************************************************************)
(* Proofs about UserPages, for every set of requests, identifiers and      *)
(* addresses and every page size: the steps beside the walk are those of   *)
(* UserAccounts, and a walk over the pages misses no user unless one is    *)
(* deleted.                                                                *)
(***************************************************************************)
EXTENDS UserPages, UserAccountsProofs, FiniteSetTheorems

allVars == << vars, pageVars >>

\* The whole state is of its type, and the database has generated finitely many ids.
PagesTypeInv ==
  /\ TypeInv
  /\ IsFiniteSet(used)
  /\ createdAt \in [Ids -> Nat]
  /\ walk \in Walk

\* The user u is on a page already read, or still after the first n rows.
Ahead(u, n) == u \in Users /\ (u \in walk.seen \/ Place(u) > n)

\* What a walk has read: all of the pages before the one it asks for, and the one it has
\* found; and at least one page is left while it goes on.
NothingBehind ==
  /\ walk.at = "found" => walk.page >= 1 /\ walk.limit >= 1
  /\ walk.at = "asked" /\ ~walk.shrunk =>
       \A u \in walk.there : Ahead(u, Offset(AtLeastOne(walk.page), AtLeastOne(walk.limit)))
  /\ walk.at = "found" /\ ~walk.shrunk =>
       \A u \in walk.there : Ahead(u, Offset(walk.page, walk.limit) + walk.limit)
  /\ WalkMissesNobody

-----------------------------------------------------------------------------
(* Arithmetic of pages.                                                    *)

LEMMA AtLeastOneBound ==
  ASSUME NEW n \in Int
  PROVE  AtLeastOne(n) \in Nat \ {0} /\ (n >= 1 => AtLeastOne(n) = n)
BY DEF AtLeastOne

LEMMA OffsetInt ==
  ASSUME NEW page \in Int, NEW limit \in Int
  PROVE  Offset(page, limit) \in Int
BY DEF Offset

\* The next page begins where this one ends.
LEMMA OffsetNext ==
  ASSUME NEW page \in Int, NEW limit \in Int
  PROVE  Offset(page + 1, limit) = Offset(page, limit) + limit
<1>1. (page + 1) - 1 = page
  OBVIOUS
<1>2. page * limit = (page - 1) * limit + limit
  OBVIOUS
<1> QED BY <1>1, <1>2 DEF Offset

\* The pages up to the last one hold all rows.
LEMMA TotalPagesHold ==
  ASSUME NEW total \in Nat, NEW limit \in Nat \ {0}, NEW page \in Nat \ {0},
         ~HasNextPage(page, total, limit)
  PROVE  total <= Offset(page, limit) + limit
<1> DEFINE n == total + limit - 1
           q == n \div limit
<1>1. n \in Nat
  OBVIOUS
<1>2. q \in Int /\ n < limit * (q + 1)
  BY <1>1
<1>3. page >= q
  BY <1>2 DEF HasNextPage, TotalPages
<1> HIDE DEF q
<1>4. limit * (q + 1) = limit * q + limit
  BY <1>2
<1>5. limit * q <= limit * page
  <2>1. limit * (page - q) >= 0
    BY <1>2, <1>3
  <2>2. limit * (page - q) = limit * page - limit * q
    BY <1>2
  <2> QED BY <1>2, <2>1, <2>2
<1>6. Offset(page, limit) + limit = limit * page
  BY DEF Offset
<1>7. limit * q \in Int /\ limit * page \in Int
  BY <1>2
<1> QED BY <1>2, <1>4, <1>5, <1>6, <1>7

-----------------------------------------------------------------------------
(* Places.                                                                 *)

\* There are finitely many users, and the place of each is between 1 and their number.
LEMMA PlaceBounds ==
  ASSUME PagesTypeInv
  PROVE  /\ IsFiniteSet(Users) /\ Cardinality(Users) \in Nat
         /\ \A u \in Users : Place(u) \in Nat /\ Place(u) >= 1 /\ Place(u) <= Cardinality(Users)
<1>1. Users \subseteq used
  BY DEF PagesTypeInv, TypeInv, RowsUsed, Users
<1>2. IsFiniteSet(Users) /\ Cardinality(Users) \in Nat
  BY <1>1, FS_Subset, FS_CardinalityType DEF PagesTypeInv
<1>3. ASSUME NEW u \in Users
      PROVE  Place(u) \in Nat /\ Place(u) >= 1 /\ Place(u) <= Cardinality(Users)
  <2> DEFINE S == { v \in Users : createdAt[v] >= createdAt[u] }
  <2>1. S \subseteq Users /\ u \in S
    BY DEF PagesTypeInv, Users
  <2>2. IsFiniteSet(S) /\ Cardinality(S) <= Cardinality(Users)
    BY <1>2, <2>1, FS_Subset
  <2>3. Cardinality(S) \in Nat /\ Cardinality(S) # 0
    BY <2>1, <2>2, FS_CardinalityType, FS_EmptySet
  <2> QED BY <2>2, <2>3 DEF Place
<1> QED BY <1>2, <1>3

\* While nobody is deleted the users keep their stamps, and new ones move them back only.
LEMMA PlaceGrows ==
  ASSUME PagesTypeInv, PagesTypeInv', Users \subseteq Users',
         \A v \in Users : createdAt'[v] = createdAt[v],
         NEW u \in Users
  PROVE  Place(u) \in Nat /\ Place(u)' \in Nat /\ Place(u)' >= Place(u)
<1> DEFINE S == { v \in Users : createdAt[v] >= createdAt[u] }
           T == { v \in Users' : createdAt'[v] >= createdAt'[u] }
<1>1. S \subseteq T
  OBVIOUS
<1>2. IsFiniteSet(Users')
  <2>1. Users' \subseteq used' /\ IsFiniteSet(used')
    BY DEF PagesTypeInv, TypeInv, RowsUsed, Users
  <2> QED BY <2>1, FS_Subset
<1>3. IsFiniteSet(T)
  BY <1>2, FS_Subset
<1>4. IsFiniteSet(S) /\ Cardinality(S) <= Cardinality(T)
  BY <1>1, <1>3, FS_Subset
<1>5. Cardinality(S) \in Nat /\ Cardinality(T) \in Nat
  BY <1>3, <1>4, FS_CardinalityType
<1> QED BY <1>4, <1>5 DEF Place

-----------------------------------------------------------------------------
(* Types.                                                                  *)

LEMMA PagesTypeInit == PagesInit => PagesTypeInv
<1> SUFFICES ASSUME PagesInit PROVE PagesTypeInv
  OBVIOUS
<1>1. TypeInv
  BY TypeInit DEF PagesInit
<1>2. IsFiniteSet(used)
  BY FS_EmptySet DEF PagesInit, Init
<1> QED BY <1>1, <1>2 DEF PagesInit, PagesTypeInv, Walk

\* Every step is one of UserAccounts or leaves its state alone.
LEMMA StepOfAccounts == [PagesNext]_allVars => [Next]_vars
BY DEF PagesNext, AccountStep, WalkBegins, PageFind, PageCount, allVars, vars

\* A step of the accounts generates at most one id.
LEMMA UsedStep ==
  ASSUME TypeInv, [Next]_vars
  PROVE  used' = used \/ \E u \in Ids : used' = used \cup {u}
BY DEF Next, vars, RegisterFind, RegisterInsert, RegisterReply, LoginFind, LoginReply,
       UpdateWrite, UpdateRead, UpdateReply, Delete, Lookup, LookupReply, DatabaseFails, Dispatch,
       EmitFails, Crash

LEMMA PagesTypeStep == PagesTypeInv /\ [PagesNext]_allVars => PagesTypeInv'
<1> SUFFICES ASSUME PagesTypeInv, [PagesNext]_allVars PROVE PagesTypeInv'
  OBVIOUS
<1> USE DEF PagesTypeInv
<1>1. TypeInv'
  BY StepOfAccounts, TypeStep
<1>2. IsFiniteSet(used') /\ Cardinality(used') \in Nat
  BY StepOfAccounts, UsedStep, FS_AddElement, FS_CardinalityType
<1>3. CASE AccountStep
  <2>1. createdAt' \in [Ids -> Nat]
    BY <1>2, <1>3 DEF AccountStep
  <2>2. walk' \in Walk
    <3> DEFINE gone == walk.shrunk \/ (Walking /\ \E u \in Users : rows'[u] = None)
               at == IF crashes' # crashes THEN Interrupted ELSE walk.at
    <3>1. walk' = [walk EXCEPT !.shrunk = gone, !.at = at]
      BY <1>3 DEF AccountStep
    <3>2. gone \in BOOLEAN /\ at \in {"idle", "asked", "found", "done"}
      BY DEF Walk, Interrupted
    <3> HIDE DEF gone, at
    <3> QED BY <3>1, <3>2 DEF Walk
  <2> QED BY <1>1, <1>2, <2>1, <2>2
<1>4. ASSUME NEW page \in FirstPages, NEW limit \in Limits, WalkBegins(page, limit)
      PROVE  PagesTypeInv'
  BY <1>1, <1>2, <1>4, UserPagesAssumption DEF WalkBegins, Walk, Users
<1>5. CASE PageFind
  <2>1. AtLeastOne(walk.page) \in Int /\ AtLeastOne(walk.limit) \in Int
    BY AtLeastOneBound DEF Walk
  <2>2. \A page, limit : OnPage(page, limit) \subseteq Ids
    BY DEF OnPage, Users
  <2> QED BY <1>1, <1>2, <1>5, <2>1, <2>2 DEF PageFind, Walk
<1>6. CASE PageCount
  <2> DEFINE next == HasNextPage(walk.page, Cardinality(Users), walk.limit)
  <2>1. \/ walk' = [walk EXCEPT !.at = "asked", !.page = walk.page + 1]
        \/ walk' = [walk EXCEPT !.at = "done"]
    <3>1. CASE next
      BY <1>6, <3>1, Zenon DEF PageCount
    <3>2. CASE ~next
      BY <1>6, <3>2, Zenon DEF PageCount
    <3> QED BY <3>1, <3>2
  <2>2. walk.page + 1 \in Int
    BY DEF Walk
  <2>3. walk' \in Walk
    BY <2>1, <2>2, Zenon DEF Walk
  <2> QED BY <1>1, <1>2, <1>6, <2>3 DEF PageCount
<1>7. CASE UNCHANGED allVars
  BY <1>1, <1>7 DEF allVars, vars, pageVars
<1> QED BY <1>3, <1>4, <1>5, <1>6, <1>7 DEF PagesNext

LEMMA PagesTypeCorrect == PagesSpec => []PagesTypeInv
BY PagesTypeInit, PagesTypeStep, PTL DEF PagesSpec, allVars

-----------------------------------------------------------------------------
(* Nothing behind the walk is missed.                                      *)

\* What a user is ahead of does not change while nobody is deleted.
LEMMA AheadStays ==
  ASSUME PagesTypeInv, PagesTypeInv', Users \subseteq Users',
         \A v \in Users : createdAt'[v] = createdAt[v], walk'.seen = walk.seen,
         NEW u, NEW n \in Int, Ahead(u, n)
  PROVE  Ahead(u, n)'
<1>1. u \in Users /\ u \in Users'
  BY DEF Ahead
<1>2. Place(u) \in Nat /\ Place(u)' \in Nat /\ Place(u)' >= Place(u)
  BY <1>1, PlaceGrows
<1>3. CASE u \in walk.seen
  BY <1>1, <1>3 DEF Ahead
<1>4. CASE Place(u) > n
  <2>1. Place(u)' > n
    BY <1>2, <1>4
  <2> QED BY <1>1, <2>1 DEF Ahead
<1> QED BY <1>3, <1>4 DEF Ahead

LEMMA NothingBehindInit == PagesInit => NothingBehind
BY DEF PagesInit, NothingBehind, WalkMissesNobody

\* While no user is deleted the users stay where they are in the table.
LEMMA AccountsKeepUsers ==
  ASSUME PagesTypeInv, AccountStep, Walking, ~walk'.shrunk
  PROVE  /\ Users \subseteq Users'
         /\ \A v \in Users : createdAt'[v] = createdAt[v]
<1>1. \A u \in Users : rows'[u] # None
  BY DEF PagesTypeInv, AccountStep, Walk
<1>2. Users \subseteq Users'
  BY <1>1 DEF Users, Exists
<1>3. \A v \in Users : v \in Ids /\ v \in used
  BY DEF PagesTypeInv, TypeInv, RowsUsed, Users
<1>4. \A v \in Users : createdAt'[v] = createdAt[v]
  BY <1>3 DEF AccountStep
<1> QED BY <1>2, <1>4

\* A step of the accounts moves the walk nowhere, except that a crash repeats a page.
LEMMA AccountsMoveWalk ==
  ASSUME PagesTypeInv, AccountStep
  PROVE  /\ walk'.page = walk.page /\ walk'.limit = walk.limit
         /\ walk'.seen = walk.seen /\ walk'.there = walk.there /\ walk'.last = walk.last
         /\ walk'.at \in {walk.at, Interrupted}
         /\ ~walk'.shrunk => ~walk.shrunk
<1> DEFINE gone == walk.shrunk \/ (Walking /\ \E u \in Users : rows'[u] = None)
           at == IF crashes' # crashes THEN Interrupted ELSE walk.at
<1>1. walk' = [walk EXCEPT !.shrunk = gone, !.at = at]
  BY DEF AccountStep
<1>2. at \in {walk.at, Interrupted} /\ (~gone => ~walk.shrunk)
  OBVIOUS
<1> HIDE DEF gone, at
<1>3. /\ walk'.page = walk.page /\ walk'.limit = walk.limit
      /\ walk'.seen = walk.seen /\ walk'.there = walk.there /\ walk'.last = walk.last
  BY <1>1 DEF PagesTypeInv, Walk
<1>4. walk'.at = at /\ walk'.shrunk = gone
  BY <1>1, Zenon DEF PagesTypeInv, Walk
<1> QED BY <1>2, <1>3, <1>4

\* A step of the accounts leaves nobody behind.
LEMMA AccountsLeaveNobody ==
  ASSUME PagesTypeInv, PagesTypeInv', NothingBehind, AccountStep
  PROVE  NothingBehind'
<1> DEFINE page == AtLeastOne(walk.page)
           limit == AtLeastOne(walk.limit)
           start == Offset(page, limit)
<1>0. /\ walk.page \in Int /\ walk.limit \in Int
      /\ walk.at \in {"idle", "asked", "found", "done"}
  BY DEF PagesTypeInv, Walk
<1>1. /\ page \in Nat \ {0} /\ limit \in Nat \ {0}
      /\ walk.page >= 1 => page = walk.page
      /\ walk.limit >= 1 => limit = walk.limit
  BY <1>0, AtLeastOneBound
<1>2. start \in Int /\ start + limit \in Int
  BY <1>1, OffsetInt
<1>3. /\ walk'.page = walk.page /\ walk'.limit = walk.limit
      /\ walk'.seen = walk.seen /\ walk'.there = walk.there
      /\ walk'.at \in {walk.at, Interrupted}
      /\ ~walk'.shrunk => ~walk.shrunk
  BY AccountsMoveWalk
<1> HIDE DEF page, limit, start
<1>4. walk.at = "found" => page = walk.page /\ limit = walk.limit
  BY <1>1 DEF NothingBehind
<1>5. ASSUME walk.at = "found", ~walk.shrunk
      PROVE  \A u \in walk.there : Ahead(u, start + limit)
  BY <1>4, <1>5 DEF NothingBehind, start
<1>6. ASSUME walk.at = "asked", ~walk.shrunk
      PROVE  \A u \in walk.there : Ahead(u, start)
  BY <1>6 DEF NothingBehind, start, page, limit
<1>7. ASSUME Walking, ~walk'.shrunk, NEW n \in Int, NEW u, Ahead(u, n)
      PROVE  u \in Users' /\ (u \in walk'.seen \/ Place(u)' > n)
  <2>1. Ahead(u, n)'
    BY <1>3, <1>7, AccountsKeepUsers, AheadStays
  <2> QED BY <2>1 DEF Ahead
<1>8. CASE walk'.at = "found"
  <2>1. walk.at = "found"
    BY <1>3, <1>8 DEF Interrupted
  <2>2. walk'.page >= 1 /\ walk'.limit >= 1
    BY <1>3, <2>1 DEF NothingBehind
  <2>3. start' = start /\ limit' = limit
    BY <1>3 DEF start, page, limit
  <2>4. ASSUME ~walk'.shrunk, NEW u \in walk'.there
        PROVE  Ahead(u, start + limit)'
    <3>1. Ahead(u, start + limit)
      BY <1>3, <1>5, <2>1, <2>4
    <3>2. u \in Users' /\ (u \in walk'.seen \/ Place(u)' > start + limit)
      BY <1>2, <1>7, <2>1, <2>4, <3>1 DEF Walking
    <3> QED BY <2>3, <3>2 DEF Ahead
  <2>5. start + limit = Offset(walk'.page, walk'.limit) + walk'.limit
    BY <1>3, <1>4, <2>1 DEF start
  <2> QED BY <1>8, <2>2, <2>3, <2>4, <2>5 DEF NothingBehind, WalkMissesNobody
<1>9. CASE walk'.at = "asked"
  <2>1. start' = Offset(AtLeastOne(walk'.page), AtLeastOne(walk'.limit)) /\ start' = start
    BY <1>3 DEF start, page, limit
  <2>2. ASSUME ~walk'.shrunk, NEW u \in walk'.there
        PROVE  Ahead(u, start)'
    <3>1. CASE walk.at = "asked"
      <4>1. Ahead(u, start)
        BY <1>3, <1>6, <2>2, <3>1
      <4>2. u \in Users' /\ (u \in walk'.seen \/ Place(u)' > start)
        BY <1>2, <1>7, <2>2, <3>1, <4>1 DEF Walking
      <4> QED BY <2>1, <4>2 DEF Ahead
    <3>2. CASE walk.at = "found"
      <4>1. Ahead(u, start + limit)
        BY <1>3, <1>5, <2>2, <3>2
      <4>2. Ahead(u, start)
        BY <1>1, <1>2, <4>1, PlaceBounds DEF Ahead
      <4>3. u \in Users' /\ (u \in walk'.seen \/ Place(u)' > start)
        BY <1>2, <1>7, <2>2, <3>2, <4>2 DEF Walking
      <4> QED BY <2>1, <4>3 DEF Ahead
    <3> QED BY <1>0, <1>3, <1>9, <3>1, <3>2 DEF Interrupted
  <2> QED BY <1>9, <2>1, <2>2 DEF NothingBehind, WalkMissesNobody
<1>10. CASE walk'.at = "done"
  <2>1. walk.at = "done"
    BY <1>3, <1>10 DEF Interrupted
  <2> QED BY <1>3, <1>10, <2>1 DEF NothingBehind, WalkMissesNobody
<1>11. CASE walk'.at = "idle"
  BY <1>11 DEF NothingBehind, WalkMissesNobody
<1> QED BY <1>0, <1>3, <1>8, <1>9, <1>10, <1>11 DEF Interrupted

\* The walk itself leaves the table alone.
LEMMA SamePlaces ==
  ASSUME UNCHANGED << vars, createdAt >>
  PROVE  Users' = Users /\ \A u : Place(u)' = Place(u)
<1>1. rows' = rows /\ createdAt' = createdAt
  BY DEF vars
<1>2. Users' = Users
  BY <1>1 DEF Users, Exists
<1> QED BY <1>1, <1>2 DEF Place

\* All users are after the 0 rows before the first page.
LEMMA BeginLeavesNobody ==
  ASSUME PagesTypeInv, NEW page \in FirstPages, NEW limit \in Limits,
         WalkBegins(page, limit)
  PROVE  NothingBehind'
<1>1. /\ walk' = [walk EXCEPT !.at = "asked", !.page = page, !.limit = limit,
                             !.there = Users]
      /\ UNCHANGED << vars, createdAt >>
  BY DEF WalkBegins
<1>2. /\ walk'.at = "asked" /\ walk'.page = page /\ walk'.limit = limit
      /\ walk'.there = Users
  BY <1>1 DEF PagesTypeInv, Walk
<1>3. AtLeastOne(page) = 1 /\ AtLeastOne(limit) \in Int
  BY UserPagesAssumption, AtLeastOneBound DEF AtLeastOne
<1>4. Offset(1, AtLeastOne(limit)) = 0
  BY <1>3 DEF Offset
<1>5. ASSUME NEW u \in Users
      PROVE  Ahead(u, 0)'
  <2>1. Place(u) > 0
    BY PlaceBounds
  <2> QED BY <1>1, <2>1, SamePlaces DEF Ahead
<1>6. Offset(AtLeastOne(walk'.page), AtLeastOne(walk'.limit)) = 0
  BY <1>2, <1>3, <1>4
<1>7. \A u \in walk'.there : u \in Users' /\ (u \in walk'.seen \/ Place(u)' > 0)
  BY <1>2, <1>5 DEF Ahead
<1> QED BY <1>2, <1>6, <1>7 DEF NothingBehind, WalkMissesNobody, Ahead

\* Who is after the rows before a page is on it or after its rows.
LEMMA FindLeavesNobody ==
  ASSUME PagesTypeInv, NothingBehind, PageFind
  PROVE  NothingBehind'
<1> DEFINE page == AtLeastOne(walk.page)
           limit == AtLeastOne(walk.limit)
           start == Offset(page, limit)
<1>1. page \in Nat \ {0} /\ limit \in Nat \ {0} /\ start \in Int
  BY AtLeastOneBound, OffsetInt DEF PagesTypeInv, Walk
<1>2. walk.at = "asked"
  BY DEF PageFind
<1>3. ~walk.shrunk => \A u \in walk.there : Ahead(u, start)
  BY <1>2 DEF NothingBehind
<1> HIDE DEF page, limit
<1>4. /\ walk' = [walk EXCEPT !.at = "found", !.page = page, !.limit = limit,
                             !.seen = walk.seen \cup OnPage(page, limit),
                             !.last = OnPage(page, limit)]
      /\ UNCHANGED << vars, createdAt >>
  BY Zenon DEF PageFind, page, limit
<1>5. /\ walk'.at = "found" /\ walk'.page = page /\ walk'.limit = limit
      /\ walk'.seen = walk.seen \cup OnPage(page, limit)
      /\ walk'.there = walk.there
  BY <1>4 DEF PagesTypeInv, Walk
<1>6. walk'.shrunk = walk.shrunk
  BY <1>4, Zenon DEF PagesTypeInv, Walk
<1>7. ASSUME ~walk.shrunk, NEW u \in walk.there
      PROVE  u \in Users' /\ (u \in walk'.seen \/ Place(u)' > start + limit)
  <2>1. u \in Users /\ (u \in walk.seen \/ Place(u) > start)
    BY <1>3, <1>7 DEF Ahead
  <2>2. u \in OnPage(page, limit) \/ u \in walk.seen \/ Place(u) > start + limit
    BY <1>1, <2>1, PlaceBounds DEF OnPage
  <2> QED BY <1>4, <1>5, <2>1, <2>2, SamePlaces
<1>8. start + limit = Offset(walk'.page, walk'.limit) + walk'.limit
  BY <1>5
<1> HIDE DEF start
<1> QED BY <1>1, <1>5, <1>6, <1>7, <1>8 DEF NothingBehind, WalkMissesNobody, Ahead

\* The next page begins where this one ends; and nobody is after the rows of the last.
LEMMA CountLeavesNobody ==
  ASSUME PagesTypeInv, NothingBehind, PageCount
  PROVE  NothingBehind'
<1> DEFINE next == HasNextPage(walk.page, Cardinality(Users), walk.limit)
           end == Offset(walk.page, walk.limit) + walk.limit
<1>1. walk.at = "found" /\ UNCHANGED << vars, createdAt >>
  BY DEF PageCount
<1>2. walk.page \in Nat \ {0} /\ walk.limit \in Nat \ {0}
  BY <1>1 DEF NothingBehind, PagesTypeInv, Walk
<1>3. ~walk.shrunk => \A u \in walk.there : u \in Users /\ (u \in walk.seen \/ Place(u) > end)
  BY <1>1 DEF NothingBehind, Ahead
<1>4. Users' = Users /\ \A u : Place(u)' = Place(u)
  BY <1>1, SamePlaces
<1>5. CASE next
  <2>1. walk' = [walk EXCEPT !.at = "asked", !.page = walk.page + 1]
    BY <1>5, Zenon DEF PageCount
  <2>2. /\ walk'.at = "asked" /\ walk'.page = walk.page + 1 /\ walk'.limit = walk.limit
        /\ walk'.seen = walk.seen /\ walk'.there = walk.there
    BY <2>1 DEF PagesTypeInv, Walk
  <2>3. walk'.shrunk = walk.shrunk
    BY <2>1, Zenon DEF PagesTypeInv, Walk
  <2>4. AtLeastOne(walk'.page) = walk.page + 1 /\ AtLeastOne(walk'.limit) = walk.limit
    BY <1>2, <2>2 DEF AtLeastOne
  <2>5. Offset(AtLeastOne(walk'.page), AtLeastOne(walk'.limit)) = end
    BY <1>2, <2>4, OffsetNext
  <2> QED BY <1>3, <1>4, <2>2, <2>3, <2>5 DEF NothingBehind, WalkMissesNobody, Ahead
<1>6. CASE ~next
  <2>1. walk' = [walk EXCEPT !.at = "done"]
    BY <1>6, Zenon DEF PageCount
  <2>2. walk'.at = "done" /\ walk'.seen = walk.seen /\ walk'.there = walk.there
    BY <2>1 DEF PagesTypeInv, Walk
  <2>3. walk'.shrunk = walk.shrunk
    BY <2>1, Zenon DEF PagesTypeInv, Walk
  <2>4. Cardinality(Users) <= end
    BY <1>2, <1>6, PlaceBounds, TotalPagesHold
  <2>5. end \in Int
    BY <1>2 DEF Offset
  <2> HIDE DEF end
  <2>6. \A u \in Users : ~(Place(u) > end)
    BY <2>4, <2>5, PlaceBounds
  <2> QED BY <1>3, <2>2, <2>3, <2>6 DEF NothingBehind, WalkMissesNobody
<1> QED BY <1>5, <1>6

LEMMA NothingBehindStep ==
  PagesTypeInv /\ PagesTypeInv' /\ NothingBehind /\ [PagesNext]_allVars => NothingBehind'
<1> SUFFICES ASSUME PagesTypeInv, PagesTypeInv', NothingBehind, [PagesNext]_allVars
             PROVE  NothingBehind'
  OBVIOUS
<1>1. CASE AccountStep
  BY <1>1, AccountsLeaveNobody
<1>2. ASSUME NEW page \in FirstPages, NEW limit \in Limits, WalkBegins(page, limit)
      PROVE  NothingBehind'
  BY <1>2, BeginLeavesNobody
<1>3. CASE PageFind
  BY <1>3, FindLeavesNobody
<1>4. CASE PageCount
  BY <1>4, CountLeavesNobody
<1>5. CASE UNCHANGED allVars
  <2>1. walk' = walk /\ Users' = Users /\ \A u : Place(u)' = Place(u)
    BY <1>5, SamePlaces DEF allVars, pageVars
  <2> QED BY <2>1 DEF NothingBehind, WalkMissesNobody, Ahead
<1> QED BY <1>1, <1>2, <1>3, <1>4, <1>5 DEF PagesNext

\* A walk over the pages of withPagination misses no user that was there when it began,
\* whatever is registered meanwhile and however often it is interrupted, unless some user
\* is deleted during the walk.
THEOREM WalkMissesNobodyCorrect == PagesSpec => []WalkMissesNobody
<1>1. PagesInit => NothingBehind
  BY NothingBehindInit
<1>2. PagesTypeInv /\ PagesTypeInv' /\ NothingBehind /\ [PagesNext]_allVars => NothingBehind'
  BY NothingBehindStep
<1>3. NothingBehind => WalkMissesNobody
  BY DEF NothingBehind
<1> QED BY <1>1, <1>2, <1>3, PagesTypeCorrect, PTL DEF PagesSpec, allVars

-----------------------------------------------------------------------------
(* No page is longer than asked for, and none that is announced is empty.  *)

\* No two rows have the same stamp: each is the number of ids generated when it was.
Stamped ==
  /\ \A u \in used : createdAt[u] <= Cardinality(used)
  /\ \A u, v \in used : createdAt[u] = createdAt[v] => u = v

\* While a walk is past its first page there are rows after those of the pages before.
RowsAhead ==
  Walking /\ walk.page > 1 /\ ~walk.shrunk =>
    Cardinality(Users) > Offset(walk.page, AtLeastOne(walk.limit))

LEMMA StampedStep == PagesTypeInv /\ PagesTypeInv' /\ Stamped /\ [PagesNext]_allVars => Stamped'
<1> SUFFICES ASSUME PagesTypeInv, PagesTypeInv', Stamped, [PagesNext]_allVars PROVE Stamped'
  OBVIOUS
<1>1. CASE UNCHANGED << used, createdAt >>
  BY <1>1 DEF Stamped
<1>2. CASE AccountStep
  <2> DEFINE n == Cardinality(used)
             k == Cardinality(used')
  <2>1. n \in Nat /\ createdAt \in [Ids -> Nat] /\ used \subseteq Ids /\ used' \subseteq Ids
    BY FS_CardinalityType DEF PagesTypeInv, TypeInv, TypeOK
  <2>2. createdAt' = [u \in Ids |-> IF u \in used' \ used THEN k ELSE createdAt[u]]
    BY <1>2 DEF AccountStep
  <2>3. \A u \in used : createdAt[u] <= n
    BY DEF Stamped
  <2>4. CASE used' = used
    <3>1. \A u \in used : createdAt'[u] = createdAt[u]
      BY <2>1, <2>2, <2>4
    <3> QED BY <2>4, <3>1 DEF Stamped
  <2>5. ASSUME NEW u \in Ids, u \notin used, used' = used \cup {u} PROVE Stamped'
    <3>1. k = n + 1
      BY <2>5, FS_AddElement DEF PagesTypeInv
    <3> HIDE DEF n, k
    <3>2. createdAt'[u] = n + 1 /\ \A v \in used : createdAt'[v] = createdAt[v]
      BY <2>1, <2>2, <2>5, <3>1
    <3>3. \A v \in used' : createdAt'[v] <= k
      BY <2>1, <2>3, <2>5, <3>1, <3>2
    <3>4. \A v \in used : createdAt'[v] # createdAt'[u]
      BY <2>1, <2>3, <3>2
    <3>5. \A v, w \in used' : createdAt'[v] = createdAt'[w] => v = w
      BY <2>5, <3>2, <3>4 DEF Stamped
    <3> QED BY <3>3, <3>5 DEF Stamped, k
  <2> QED BY <2>4, <2>5, StepOfAccounts, UsedStep DEF PagesTypeInv
<1> QED BY <1>1, <1>2 DEF PagesNext, WalkBegins, PageFind, PageCount, allVars, pageVars, vars

\* The places are the numbers from 1 to the number of users, each taken once.
LEMMA PlacesAreTaken ==
  ASSUME PagesTypeInv, Stamped
  PROVE  /\ \A u, v \in Users : Place(u) = Place(v) => u = v
         /\ \A n \in 1..Cardinality(Users) : \E u \in Users : Place(u) = n
<1> DEFINE N == Cardinality(Users)
           From(u) == { v \in Users : createdAt[v] >= createdAt[u] }
           f == [u \in Users |-> Place(u)]
<1>1. /\ IsFiniteSet(Users) /\ N \in Nat
      /\ \A u \in Users : Place(u) \in Nat /\ Place(u) >= 1 /\ Place(u) <= N
  BY PlaceBounds
<1>2. /\ Users \subseteq used /\ \A u \in Users : createdAt[u] \in Nat
      /\ \A u, v \in Users : createdAt[u] = createdAt[v] => u = v
  BY DEF PagesTypeInv, TypeInv, RowsUsed, Users, Stamped
<1>3. ASSUME NEW u \in Users, NEW v \in Users, createdAt[u] > createdAt[v] PROVE Place(u) # Place(v)
  <2>1. From(u) \subseteq From(v) /\ v \in From(v) /\ v \notin From(u)
    BY <1>2, <1>3
  <2>2. IsFiniteSet(From(v))
    BY <1>1, FS_Subset
  <2>3. Cardinality(From(u)) # Cardinality(From(v))
    BY <2>1, <2>2, FS_Subset
  <2> QED BY <2>3 DEF Place
<1>4. ASSUME NEW u \in Users, NEW v \in Users, Place(u) = Place(v) PROVE u = v
  <2>1. ~(createdAt[u] > createdAt[v]) /\ ~(createdAt[v] > createdAt[u])
    BY <1>3, <1>4
  <2> QED BY <1>2, <2>1
<1>5. f \in Injection(Users, 1..N)
  <2>1. f \in [Users -> 1..N] /\ \A u \in Users : f[u] = Place(u)
    BY <1>1
  <2> HIDE DEF f, N
  <2> QED BY <1>4, <2>1 DEF Injection, IsInjective
<1>6. IsFiniteSet(1..N) /\ Cardinality(1..N) = N
  BY <1>1, FS_Interval
<1>7. f \in Surjection(Users, 1..N)
  <2> HIDE DEF f
  <2> QED BY <1>1, <1>5, <1>6, FS_Injection
<1>8. \A n \in 1..N : \E u \in Users : f[u] = n
  BY <1>7 DEF Surjection
<1> QED BY <1>4, <1>8

\* A page holds at most limit users, and it holds one if there are rows to skip to.
LEMMA PageHolds ==
  ASSUME PagesTypeInv, Stamped, NEW page \in Nat \ {0}, NEW limit \in Nat \ {0}
  PROVE  /\ Cardinality(OnPage(page, limit)) <= limit
         /\ Cardinality(Users) > Offset(page, limit) => OnPage(page, limit) # {}
<1> DEFINE start == Offset(page, limit)
           P == OnPage(page, limit)
           f == [u \in P |-> Place(u) - start]
<1>1. start \in Nat
  <2>1. (page - 1) * limit \in Nat
    <3>1. page - 1 \in Nat
      OBVIOUS
    <3> QED BY <3>1
  <2> QED BY <2>1 DEF Offset
<1>2. P = { u \in Users : Place(u) > start /\ Place(u) <= start + limit }
  BY DEF OnPage
<1>3. Cardinality(P) <= limit
  <2> HIDE DEF start, P
  <2>1. f \in [P -> 1..limit] /\ \A u \in P : f[u] = Place(u) - start
    BY <1>1, <1>2, PlaceBounds
  <2>2. \A u, v \in P : f[u] = f[v] => u = v
    BY <1>1, <1>2, <2>1, PlaceBounds, PlacesAreTaken
  <2> HIDE DEF f
  <2>3. f \in Injection(P, 1..limit)
    BY <2>1, <2>2 DEF Injection, IsInjective
  <2>4. IsFiniteSet(1..limit) /\ Cardinality(1..limit) = limit
    BY FS_Interval
  <2> QED BY <2>3, <2>4, FS_Injection
<1>4. ASSUME Cardinality(Users) > start PROVE P # {}
  <2> HIDE DEF start
  <2>1. start + 1 \in 1..Cardinality(Users)
    BY <1>1, <1>4, PlaceBounds
  <2>2. PICK u \in Users : Place(u) = start + 1
    BY <2>1, PlacesAreTaken
  <2>3. u \in P
    BY <1>1, <1>2, <2>2
  <2> QED BY <2>3
<1> QED BY <1>3, <1>4

\* hasNextPage is right about the rows that it counts.
LEMMA NextPageBegins ==
  ASSUME NEW total \in Nat, NEW limit \in Nat \ {0}, NEW page \in Nat \ {0},
         HasNextPage(page, total, limit)
  PROVE  total > Offset(page + 1, limit)
<1> DEFINE n == total + limit - 1
           q == n \div limit
<1>1. n \in Nat
  OBVIOUS
<1>2. q \in Int /\ limit * q <= n
  BY <1>1
<1>3. page + 1 <= q
  BY <1>2 DEF HasNextPage, TotalPages
<1> HIDE DEF q
<1>4. limit * (page + 1) <= limit * q
  <2>1. limit * (q - (page + 1)) >= 0
    BY <1>2, <1>3
  <2>2. limit * (q - (page + 1)) = limit * q - limit * (page + 1)
    BY <1>2
  <2> QED BY <1>2, <2>1, <2>2
<1>5. limit * (page + 1) = Offset(page + 1, limit) + limit
  BY DEF Offset
<1>6. Offset(page + 1, limit) \in Int /\ limit * q \in Int
  BY <1>2, OffsetInt
<1> QED BY <1>2, <1>4, <1>5, <1>6

PageThere == Stamped /\ RowsAhead /\ NextPageIsThere

LEMMA PageThereStep ==
  PagesTypeInv /\ PagesTypeInv' /\ NothingBehind /\ PageThere /\ [PagesNext]_allVars => PageThere'
<1> SUFFICES ASSUME PagesTypeInv, PagesTypeInv', NothingBehind, PageThere, [PagesNext]_allVars
             PROVE  PageThere'
  OBVIOUS
<1>1. Stamped /\ Stamped' /\ RowsAhead /\ NextPageIsThere
  BY StampedStep DEF PageThere
<1>2. /\ walk.page \in Int /\ walk.limit \in Int /\ AtLeastOne(walk.page) \in Nat \ {0}
      /\ AtLeastOne(walk.limit) \in Nat \ {0} /\ Cardinality(Users) \in Nat
      /\ walk.page >= 1 => AtLeastOne(walk.page) = walk.page
      /\ walk.limit >= 1 => AtLeastOne(walk.limit) = walk.limit
  BY AtLeastOneBound, PlaceBounds DEF PagesTypeInv, Walk
<1>3. CASE AccountStep
  <2>1. /\ walk'.page = walk.page /\ walk'.limit = walk.limit /\ walk'.last = walk.last
        /\ walk'.at \in {walk.at, Interrupted} /\ (~walk'.shrunk => ~walk.shrunk)
    BY <1>3, AccountsMoveWalk
  <2>2. NextPageIsThere'
    BY <1>1, <2>1 DEF NextPageIsThere, Interrupted
  <2>3. RowsAhead'
    <3> SUFFICES ASSUME walk'.at \in {"asked", "found"}, walk'.page > 1, ~walk'.shrunk
                 PROVE  Cardinality(Users') > Offset(walk'.page, AtLeastOne(walk'.limit))
      BY DEF RowsAhead, Walking
    <3>1. Walking
      BY <2>1 DEF Walking, Interrupted
    <3>2. Users \subseteq Users'
      BY <1>3, <3>1, AccountsKeepUsers
    <3>3. IsFiniteSet(Users')
      <4>1. Users' \subseteq used' /\ IsFiniteSet(used')
        BY DEF PagesTypeInv, TypeInv, RowsUsed, Users
      <4> QED BY <4>1, FS_Subset
    <3>4. Cardinality(Users) <= Cardinality(Users') /\ Cardinality(Users') \in Nat
      BY <3>2, <3>3, FS_Subset, FS_CardinalityType
    <3>5. Cardinality(Users) > Offset(walk.page, AtLeastOne(walk.limit))
      BY <1>1, <2>1, <3>1 DEF RowsAhead
    <3>6. Offset(walk.page, AtLeastOne(walk.limit)) \in Int
      <4> DEFINE limit == AtLeastOne(walk.limit)
      <4>1. walk.page \in Int /\ limit \in Int
        BY <1>2
      <4> HIDE DEF limit
      <4>2. Offset(walk.page, limit) \in Int
        BY <4>1, OffsetInt
      <4> QED BY <4>2 DEF limit
    <3> QED BY <1>2, <2>1, <3>4, <3>5, <3>6
  <2> QED BY <1>1, <2>2, <2>3 DEF PageThere
<1>4. ASSUME NEW page \in FirstPages, NEW limit \in Limits, WalkBegins(page, limit)
      PROVE  PageThere'
  <2>1. walk'.at = "asked" /\ walk'.page = page
    BY <1>4 DEF WalkBegins, PagesTypeInv, Walk
  <2>2. ~(page > 1)
    BY UserPagesAssumption
  <2> QED BY <1>1, <2>1, <2>2 DEF PageThere, RowsAhead, NextPageIsThere
<1>5. CASE PageFind
  <2> DEFINE page == AtLeastOne(walk.page)
             limit == AtLeastOne(walk.limit)
  <2>1. walk.at = "asked" /\ page \in Nat \ {0} /\ limit \in Nat \ {0}
    BY <1>2, <1>5 DEF PageFind
  <2>2. AtLeastOne(limit) = limit
    BY <2>1, AtLeastOneBound
  <2>3. page > 1 => walk.page = page
    BY <1>2 DEF AtLeastOne
  <2> HIDE DEF page, limit
  <2>4. /\ walk' = [walk EXCEPT !.at = "found", !.page = page, !.limit = limit,
                               !.seen = walk.seen \cup OnPage(page, limit),
                               !.last = OnPage(page, limit)]
        /\ UNCHANGED << vars, createdAt >>
    BY <1>5, Zenon DEF PageFind, page, limit
  <2>5. /\ walk'.at = "found" /\ walk'.page = page /\ walk'.limit = limit
        /\ walk'.last = OnPage(page, limit)
    BY <2>4 DEF PagesTypeInv, Walk
  <2>6. walk'.shrunk = walk.shrunk
    BY <2>4, Zenon DEF PagesTypeInv, Walk
  <2>7. page > 1 /\ ~walk.shrunk => Cardinality(Users) > Offset(page, limit)
    BY <1>1, <2>1, <2>3 DEF RowsAhead, Walking, limit
  <2>8. NextPageIsThere'
    BY <1>1, <2>1, <2>5, <2>6, <2>7, PageHolds DEF NextPageIsThere
  <2>9. RowsAhead'
    BY <2>2, <2>4, <2>5, <2>6, <2>7, SamePlaces DEF RowsAhead
  <2> QED BY <1>1, <2>8, <2>9 DEF PageThere
<1>6. CASE PageCount
  <2> DEFINE total == Cardinality(Users)
             next == HasNextPage(walk.page, total, walk.limit)
  <2>1. walk.at = "found" /\ walk.page \in Nat \ {0} /\ walk.limit \in Nat \ {0}
    BY <1>2, <1>6 DEF PageCount, NothingBehind
  <2>2. CASE next
    <3>1. walk' = [walk EXCEPT !.at = "asked", !.page = walk.page + 1]
      BY <1>6, <2>2, Zenon DEF PageCount
    <3>2. walk'.at = "asked" /\ walk'.page = walk.page + 1 /\ walk'.limit = walk.limit
      BY <3>1 DEF PagesTypeInv, Walk
    <3>3. total > Offset(walk.page + 1, walk.limit)
      BY <1>2, <2>1, <2>2, NextPageBegins
    <3>4. Users' = Users
      BY <1>6, SamePlaces DEF PageCount
    <3> QED BY <1>1, <1>2, <2>1, <3>2, <3>3, <3>4 DEF PageThere, RowsAhead, NextPageIsThere
  <2>3. CASE ~next
    <3>1. walk' = [walk EXCEPT !.at = "done"]
      BY <1>6, <2>3, Zenon DEF PageCount
    <3>2. walk'.at = "done"
      BY <3>1 DEF PagesTypeInv, Walk
    <3> QED BY <1>1, <3>2 DEF PageThere, RowsAhead, Walking, NextPageIsThere
  <2> QED BY <2>2, <2>3
<1>7. CASE UNCHANGED allVars
  <2>1. walk' = walk /\ Users' = Users
    BY <1>7, SamePlaces DEF allVars, pageVars
  <2> QED BY <1>1, <2>1 DEF PageThere, RowsAhead, Walking, NextPageIsThere
<1> QED BY <1>3, <1>4, <1>5, <1>6, <1>7 DEF PagesNext

LEMMA NothingBehindCorrect == PagesSpec => []NothingBehind
<1>1. PagesTypeInv /\ PagesTypeInv' /\ NothingBehind /\ [PagesNext]_allVars => NothingBehind'
  BY NothingBehindStep
<1> QED BY <1>1, NothingBehindInit, PagesTypeCorrect, PTL DEF PagesSpec, allVars

\* The page that hasNextPage announced has a user on it, and no page has more than limit,
\* unless a user is deleted during the walk.
THEOREM NextPageIsThereCorrect == PagesSpec => []NextPageIsThere
<1>1. PagesInit => PageThere
  <2> SUFFICES ASSUME PagesInit PROVE PageThere
    OBVIOUS
  <2>1. used = {} /\ walk.at = "idle"
    BY DEF PagesInit, Init
  <2> QED BY <2>1 DEF PageThere, Stamped, RowsAhead, Walking, NextPageIsThere
<1>2. PagesTypeInv /\ PagesTypeInv' /\ NothingBehind /\ PageThere /\ [PagesNext]_allVars => PageThere'
  BY PageThereStep
<1>3. PageThere => NextPageIsThere
  BY DEF PageThere
<1> QED BY <1>1, <1>2, <1>3, PagesTypeCorrect, NothingBehindCorrect, PTL DEF PagesSpec, allVars
=============================================================================
