------------------------------ MODULE UserPages ------------------------------
(***************************************************************************)
(* PostgresBaseRepository.withPagination over the users table of           *)
(* UserAccounts, with the order UserService.findAll asks for: the newest   *)
(* user first.  A caller walks the pages while rows come and go: it asks   *)
(* for a page, and for the next one as long as hasNextPage says so.  Each  *)
(* page is two queries with an await in between.  UserService.findAll is   *)
(* no such caller: it passes on none of what withPagination returns.       *)
(***************************************************************************)
EXTENDS UserAccounts, Integers, FiniteSets

CONSTANTS
  FirstPages, \* the page a walk asks for first
  Limits      \* the page sizes that walks ask for

\* A walk begins with the first page, which every page below it stands for.
ASSUME UserPagesAssumption ==
  /\ FirstPages \subseteq Int /\ \A page \in FirstPages : page <= 1
  /\ Limits \subseteq Int

VARIABLES
  createdAt, \* the column createdAt of the rows; no two rows have the same
  walk       \* how far the walk has got

pageVars == << createdAt, walk >>

\* "asked": the call begins; "found": between its two queries.
Walk ==
  [at : {"idle", "asked", "found", "done"}, page : Int, limit : Int,
   seen : SUBSET Ids,  \* the users on the pages so far
   there : SUBSET Ids, \* the users that were there when the walk began
   last : SUBSET Ids,  \* the users on the last page
   shrunk : BOOLEAN]   \* history: a user was deleted during the walk

PagesInit ==
  /\ Init
  /\ createdAt = [u \in Ids |-> 0]
  /\ walk = [at |-> "idle", page |-> 1, limit |-> 1, seen |-> {}, there |-> {},
             last |-> {}, shrunk |-> FALSE]

-----------------------------------------------------------------------------
(* withPagination.                                                         *)

\* Math.max(1, n)
AtLeastOne(n) == IF n < 1 THEN 1 ELSE n

\* (mutant) page counts from 0
OffsetFromZero(page, limit) == page * limit

\* `skip'
Offset(page, limit) == (page - 1) * limit

Users == { u \in Ids : Exists(u) }

\* The place of a user in the order `createdAt DESC'.
Place(u) == Cardinality({ v \in Users : createdAt[v] >= createdAt[u] })

\* `take' rows after `skip', or what there is.
OnPage(page, limit) ==
  { u \in Users : Place(u) > Offset(page, limit) /\ Place(u) <= Offset(page, limit) + limit }

\* Math.ceil(totalCount / limit)
TotalPages(total, limit) == (total + limit - 1) \div limit

\* (mutant) hasNextPage includes the last page
HasNextPageInclusive(page, total, limit) == page <= TotalPages(total, limit)

HasNextPage(page, total, limit) == page < TotalPages(total, limit)

\* Some caller of withPagination.
WalkBegins(page, limit) ==
  /\ walk.at = "idle"
  /\ walk' = [walk EXCEPT !.at = "asked", !.page = page, !.limit = limit,
                          !.there = Users]
  /\ UNCHANGED << vars, createdAt >>

\* Both arguments are raised to 1; then the rows of the page are read ...
PageFind ==
  LET page  == AtLeastOne(walk.page)
      limit == AtLeastOne(walk.limit)
  IN
  /\ walk.at = "asked"
  /\ walk' = [walk EXCEPT !.at = "found", !.page = page, !.limit = limit,
                          !.seen = @ \cup OnPage(page, limit),
                          !.last = OnPage(page, limit)]
  /\ UNCHANGED << vars, createdAt >>

\* ... and all rows counted, by which time the table may be another one.  The caller goes
\* on to the next page if there is one.
PageCount ==
  LET total == Cardinality(Users) IN
  /\ walk.at = "found"
  /\ walk' = IF HasNextPage(walk.page, total, walk.limit)
             THEN [walk EXCEPT !.at = "asked", !.page = @ + 1]
             ELSE [walk EXCEPT !.at = "done"]
  /\ UNCHANGED << vars, createdAt >>

Walking == walk.at \in {"asked", "found"}

\* A crash ends the call; the caller asks for the page again.
Interrupted == IF walk.at = "found" THEN "asked" ELSE walk.at

\* A step of the accounts; a new row is newer than all before it.
AccountStep ==
  /\ Next
  /\ createdAt' = [u \in Ids |-> IF u \in used' \ used THEN Cardinality(used') ELSE createdAt[u]]
  /\ walk' = [walk EXCEPT !.shrunk = @ \/ (Walking /\ \E u \in Users : rows'[u] = None),
                          !.at = IF crashes' # crashes THEN Interrupted ELSE @]

PagesNext ==
  \/ AccountStep
  \/ \E page \in FirstPages, limit \in Limits : WalkBegins(page, limit)
  \/ PageFind \/ PageCount

PagesSpec == PagesInit /\ [][PagesNext]_<< vars, pageVars >>

-----------------------------------------------------------------------------
(* Properties.                                                             *)

\* A walk over the pages misses no user that was there when it began, whatever is
\* registered meanwhile, between two pages or between the two queries of one.  Only a
\* deletion can make it miss somebody, who moves to a page already read.
WalkMissesNobody ==
  walk.at = "done" /\ ~walk.shrunk => walk.there \subseteq walk.seen

\* The page that hasNextPage announced is not empty, and no page is longer than asked
\* for, unless a user was deleted during the walk.
NextPageIsThere ==
  walk.at = "found" =>
    /\ Cardinality(walk.last) <= walk.limit
    /\ walk.page > 1 /\ ~walk.shrunk => walk.last # {}
=============================================================================
