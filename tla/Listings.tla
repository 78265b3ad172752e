----------------------------- MODULE Listings ------------------------------
(***************************************************************************)
(* The lists that clients read page by page.  Every listing takes the rows *)
(* that skip (page - 1) * limit leaves and says, from a count of the rows, *)
(* whether there is another page.  Nothing ties the two statements, or one *)
(* page to the next: other handlers write the table in between.            *)
(*                                                                         *)
(* A table is a rank for each of its rows, the place the order column      *)
(* gives it; equal ranks have no order, and PostgreSQL returns such rows   *)
(* in any.  The rows are those that the filters of the listing let through.*)
(***************************************************************************)
EXTENDS Handlers

CONSTANTS Entity, MaxRank,
          PageSize \* the limit that the client asks for

ASSUME ListingsAssumption == /\ NONE \notin Nat /\ IsFiniteSet(Entity)
                             /\ MaxRank \in Nat \ {0} /\ PageSize \in Nat \ {0}

\* A listing: the column it is ordered by, whether the client may name
\* another, and how it reads: page and count sent together, the count awaited
\* first, or all rows read once and cut in memory.
Paged(by, chosen, reads) == [by |-> by, chosen |-> chosen, reads |-> reads]

-----------------------------------------------------------------------------
\* The repositories.
UsersFindAll            == Paged("createdAt", TRUE, "together")
AuthFindAll             == Paged("createdAt", TRUE, "together")
AuditLogByUser          == Paged("createdAt", TRUE, "together")
AuditLogByAction        == Paged("createdAt", TRUE, "together")
AuditLogByResource      == Paged("createdAt", TRUE, "together")
AuditLogSearch          == Paged("createdAt", TRUE, "together")
ContentFindAll          == Paged("createdAt", TRUE, "together")
DocumentsFindAll        == Paged("createdAt", TRUE, "together")
FAQFindWithPagination   == Paged("order", FALSE, "together")
LinksFindWithPagination == Paged("order", FALSE, "together")
HeadersFindAll          == Paged("order", TRUE, "together")
HeadersFindActive       == Paged("order", FALSE, "together")
HeadersFindPublished    == Paged("order", FALSE, "together")
HeadersSearch           == Paged("order", FALSE, "together")
HeadersSearchInMemory   == Paged("order", FALSE, "once")
DepartmentsFindAll      == Paged("order", TRUE, "together")
DepartmentsFindActive   == Paged("order", FALSE, "together")
DepartmentsSearch       == Paged("order", FALSE, "together")
EmployeesFindAll        == Paged("order", TRUE, "together")
EmployeesFindActive     == Paged("order", FALSE, "together")
EmployeesSearch         == Paged("order", FALSE, "together")
EmployeesByHomepage     == Paged("order", FALSE, "together")
MediaFindAll            == Paged("createdAt", TRUE, "in turn")
AlbumsFindAll           == Paged("createdAt", FALSE, "together")
AlbumMediaFind          == Paged("createdAt", FALSE, "together")
MenusFindAll            == Paged("order, createdAt", TRUE, "together")
MenuItemsFindAll        == Paged("order", TRUE, "together")
IndicesFindAll          == Paged("createdAt", TRUE, "together")
IndicesSearch           == Paged("searchScore", TRUE, "together")
QueriesByUser           == Paged("createdAt", TRUE, "together")
SuggestionsFindAll      == Paged("frequency", TRUE, "together")
SlidersFindAll          == Paged("position", TRUE, "together")
SlidersFindActive       == Paged("position", FALSE, "together")
SlidersFindPublished    == Paged("position", FALSE, "together")
SlidersSearch           == Paged("position", FALSE, "together")

\* The services: a page keeps its rows and gains photos, links or counts.
EmployeesWithPosition        == EmployeesFindAll
EmployeesWithDetails         == EmployeesFindAll
EmployeePhotos              == EmployeesFindAll
ActiveEmployeePhotos        == EmployeesFindActive
SearchedEmployeePhotos      == EmployeesSearch
EmployeesByPosition         == Paged("order", FALSE, "once")
EmployeesByPositionWithPhoto == EmployeesByPosition
HomepageSection             == EmployeesByHomepage
FAQPages                    == FAQFindWithPagination
LinkPages                   == LinksFindWithPagination
DocumentsByFilter           == DocumentsFindAll
DocumentPages               == DocumentsFindAll
MediaByFilter               == MediaFindAll
MediaSearch                 == Paged("createdAt", FALSE, "in turn")
MediaPages                  == MediaFindAll
AlbumPages                  == AlbumsFindAll
AlbumMediaPages             == AlbumMediaFind

AllListings ==
  {UsersFindAll, AuthFindAll, AuditLogByUser, AuditLogByAction, AuditLogByResource,
   AuditLogSearch, ContentFindAll, DocumentsFindAll, FAQFindWithPagination,
   LinksFindWithPagination, HeadersFindAll, HeadersFindActive, HeadersFindPublished,
   HeadersSearch, HeadersSearchInMemory, DepartmentsFindAll, DepartmentsFindActive,
   DepartmentsSearch, EmployeesFindAll, EmployeesFindActive, EmployeesSearch,
   EmployeesByHomepage, MediaFindAll, AlbumsFindAll, AlbumMediaFind, MenusFindAll,
   MenuItemsFindAll, IndicesFindAll, IndicesSearch, QueriesByUser,
   SuggestionsFindAll, SlidersFindAll, SlidersFindActive, SlidersFindPublished,
   SlidersSearch, EmployeesWithPosition, EmployeesWithDetails, EmployeePhotos,
   ActiveEmployeePhotos, SearchedEmployeePhotos, EmployeesByPosition,
   EmployeesByPositionWithPhoto, HomepageSection, FAQPages, LinkPages,
   DocumentsByFilter, DocumentPages, MediaByFilter, MediaSearch, MediaPages,
   AlbumPages, AlbumMediaPages}

-----------------------------------------------------------------------------
VARIABLES column, \* the order of the listing that is walked
          reads,  \* how it reads
          rank,   \* the place of each row in that order, NONE when there is no row
          walk    \* the client's walk through the pages

listingVars == <<column, reads, rank, walk>>

\* A walk: its page, what the statements of that page have returned, the rows
\* shown so far, the rows there were at the start (history), and whether all
\* of them stood still and in order and no count was outdated (history).
Walks == [pc : {"idle", "reading", "done"}, page : Nat,
          total : Nat \cup {NONE}, fetched : BOOLEAN,
          seen : SUBSET Entity, due : SUBSET Entity, still : BOOLEAN]

WalkIdle == [pc |-> "idle", page |-> 0, total |-> NONE,
             fetched |-> FALSE, seen |-> {}, due |-> {}, still |-> TRUE]

Listed == {x \in Entity : rank[x] # NONE}

\* A row moves when the column changes; createdAt never does, and two rows may
\* share it (createMany).  The menus alone break ties by a second column.
Movable == column # "createdAt"
Unique  == column = "order, createdAt"

\* The places that x may take next to the other rows.
PlaceFor(x, p) ==
  LET others == Listed \ {x} IN
  /\ Unique => \A y \in others : rank[y] # p
  /\ ~Movable => \/ \A y \in others : rank[y] <= p
                 \/ \A y \in others : rank[y] >= p

ListingInit ==
  /\ \E l \in AllListings :
       /\ column \in {l.by} \cup (IF l.chosen THEN {"another"} ELSE {})
       /\ reads = l.reads
  /\ rank = [x \in Entity |-> NONE]
  /\ walk = WalkIdle

-----------------------------------------------------------------------------
\* The other handlers of the table.
Enter(x) ==
  /\ x \notin Listed
  /\ \E p \in 1..MaxRank : PlaceFor(x, p) /\ rank' = [rank EXCEPT ![x] = p]
  /\ walk' = [walk EXCEPT !.still = @ /\ (walk.total = NONE \/ walk.fetched)]
  /\ UNCHANGED <<column, reads>>

Leave(x) ==
  /\ x \in Listed
  /\ rank' = [rank EXCEPT ![x] = NONE]
  /\ walk' = [walk EXCEPT !.still = walk.pc = "idle"]
  /\ UNCHANGED <<column, reads>>

Move(x) ==
  /\ Movable /\ x \in Listed
  /\ \E p \in 1..MaxRank \ {rank[x]} : PlaceFor(x, p) /\ rank' = [rank EXCEPT ![x] = p]
  /\ walk' = [walk EXCEPT !.still = walk.pc = "idle"]
  /\ UNCHANGED <<column, reads>>

-----------------------------------------------------------------------------
\* No row outside P stands before a row of P.
Ahead(P) == \A x \in P, y \in Listed \ P : rank[x] <= rank[y]

AtMost(n) == IF n < Cardinality(Listed) THEN n ELSE Cardinality(Listed)

\* Mutant: the offset is one row too far.
SkipOneMore(w) == w.page * PageSize

Skip(w) == (w.page - 1) * PageSize

\* What skip and take may return; rows of equal rank come in any order.
PageRows(w) ==
  {S \in SUBSET Listed :
     /\ Cardinality(S) = AtMost(Skip(w) + PageSize) - AtMost(Skip(w))
     /\ \E P \in SUBSET (Listed \ S) :
          /\ Cardinality(P) = AtMost(Skip(w))
          /\ Ahead(P) /\ Ahead(P \cup S)}

Ties == \E x, y \in Listed : x # y /\ rank[x] = rank[y]

\* findMany with skip and take.
Fetched(w, S) == [w EXCEPT !.fetched = TRUE, !.seen = @ \cup S, !.still = @ /\ ~Ties]

\* count with the same filters.
Counted(w) == [w EXCEPT !.total = Cardinality(Listed)]

BeginWalk ==
  /\ walk.pc = "idle"
  /\ walk' = [WalkIdle EXCEPT !.pc = "reading", !.page = 1, !.due = Listed]
  /\ UNCHANGED <<column, reads, rank>>

CountRows ==
  /\ walk.pc = "reading" /\ walk.total = NONE /\ reads # "once"
  /\ walk' = Counted(walk)
  /\ UNCHANGED <<column, reads, rank>>

FetchPage ==
  /\ walk.pc = "reading" /\ ~walk.fetched
  /\ reads \in {"together", "in turn"} /\ (reads = "in turn" => walk.total # NONE)
  /\ \E S \in PageRows(walk) : walk' = Fetched(walk, S)
  /\ UNCHANGED <<column, reads, rank>>

\* All rows are read by one statement, and the page is a slice of them.
ReadOnce ==
  /\ walk.pc = "reading" /\ ~walk.fetched /\ reads = "once"
  /\ \E S \in PageRows(walk) : walk' = Counted(Fetched(walk, S))
  /\ UNCHANGED <<column, reads, rank>>

\* hasNext: page < Math.ceil(total / limit).
HasNext(w) == w.page * PageSize < w.total

\* The page is answered; the client asks for the next while there is one.
Answer ==
  /\ walk.pc = "reading" /\ walk.fetched /\ walk.total # NONE
  /\ walk' = IF HasNext(walk)
             THEN [walk EXCEPT !.page = @ + 1, !.total = NONE, !.fetched = FALSE]
             ELSE [walk EXCEPT !.pc = "done"]
  /\ UNCHANGED <<column, reads, rank>>

\* A statement fails, or the client has read enough.
EndWalk ==
  /\ walk.pc # "idle"
  /\ walk' = WalkIdle
  /\ UNCHANGED <<column, reads, rank>>

ListingNext == \/ \E x \in Entity : Enter(x) \/ Leave(x) \/ Move(x)
               \/ BeginWalk \/ CountRows \/ FetchPage \/ ReadOnce
               \/ Answer \/ EndWalk

ListingSpec == ListingInit /\ [][ListingNext]_listingVars

-----------------------------------------------------------------------------
(* Properties *)

\* Ranks and the walk are well formed.
ListingTypeOK == /\ reads \in {"together", "in turn", "once"}
                 /\ rank \in [Entity -> 1..MaxRank \cup {NONE}]
                 /\ walk \in Walks

\* findAll and its kin: a client that follows hasNext to the last page has been
\* shown every row that was there when it began, however many rows came in,
\* unless a row left or moved meanwhile, two rows tied, or a row came between
\* the count and the page it belongs to.
RowsSeen == walk.pc = "done" /\ walk.still => walk.due \subseteq walk.seen
=============================================================================
