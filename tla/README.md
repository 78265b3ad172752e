# Verification of the ICMS backend

The ICMS backend is a NestJS server over PostgreSQL (through Prisma) and an
object store (local disk, S3 or Backblaze B2). This directory models its core
logic in TLA+, checks the models with TLC on small instances and proves the
central invariants with TLAPS for instances of every size.

The state lives in the database and the object store. Every HTTP request is an
async handler of one Node process, and several processes may run. Between two
`await`s any other handler may run, and almost no handler opens a transaction.
So in every model one `await` on the database or the store is one atomic
action, a handler in flight is a record with a position and local variables in
`req`, and handlers interleave freely.

## Inventory

| part | state | operations | hard behaviour |
|---|---|---|---|
| media library | `media` rows, blobs in the store | upload, bulk upload, import, replace, process, update, delete, bulk delete, orphan clean-up | blob and row change in separate steps; handlers act on what they read several awaits ago; store or database may refuse in between |
| sliders, employees, office settings | rows that reference a media row | create, update, delete, set and remove the image, create with image | upload, row, deletion of the old image and re-pointing are four statements; `RESTRICT` and `SET NULL` keys |
| file storage | blobs | upload, download, delete | three providers behind one interface; failures are logged and ignored |
| auth | accounts, sessions, reset tokens, login attempts | login with its limit on failures, refresh, logout, revoke, forgot, reset and change password | a password change and the end of the sessions are separate steps that race with logins |
| users | accounts | create, update, activate, deactivate, bulk operations, delete | sweep of the sessions before or after the account changes; bulk operations fail in part |
| header configuration | logo JSON without a foreign key | create, update, publish, upload and remove logos | read-modify-write of one JSON column |
| content categories | a tree, contents filed under it | create, re-parent, delete, reorder, show | cycle checks and deletion checks read before they write |
| departments | a tree, employees filed under it | create, re-parent, delete | no cycle check; deletion checks a snapshot, the database clears the rest |
| navigation | menus, items with parents | create, move, delete, reorder, breadcrumb | a loop of statements climbs parents that move meanwhile |
| content | rows with unique slugs, attachments with files | create, update, delete, attach, detach | slug looked up in one statement and written in another; file and row apart |
| documents | rows, files, versions, download log and counter | upload, version, update, download, delete, bulk delete | upload before validation; deletion in four statements; two download counts |
| FAQ, important links (and the order of menu items, categories, attachments) | an order column | reorder against every other write | one statement per row, together or in turn, without transaction |
| office settings, office description, bootstrap | one row per table or type | find, then create | the look and the insert are two statements; only an e-mail address is unique |
| lists | a page and a count of every table | findAll and its kin, page by page | page and count are two statements; the next page is read later |
| search | index rows | create, reindex one and all, delete | reindexing works through a snapshot and finds rows again by their content |
| dashboard | an in-memory cache with times to live and a size | get, refresh, clear, clean up, configure, export | a computation outlives the refresh that should replace it; eviction at the limit |
| request dispatch | none | the declared routes in the order of Express, their guards | an earlier route with a parameter hides a later one |
| translation, HTTP layer, token strategies, database service, start-up | none | | no state of their own |

The correctness properties, part by part: no file is lost or deleted for
another's sake and every row finds its file unless a failure explains it
(media, documents, attachments); references resolve (sliders, employees, office
settings, headers, trees); a password change or deactivation ends every session
except those a race or a failure explains (auth, users); failed logins stop at a
limit (auth); the trees stay acyclic where the code checks, and walks up them
end (categories, navigation); unique columns are violated only by races
(content); counters, labels and orders agree with what was requested
(documents, lists); singletons stay single unless a race explains the second
(office settings, office description, bootstrap); a client that follows the
pages sees every row (lists); success means that the work was done (search);
what is refreshed is fresh, and the cache is bounded (dashboard); every route
reaches its handler (request dispatch).

## Modules

Each model has the same shape: the tables (and the store) as functions and
sets, one record per handler in flight in `req` (`logoReq`, `docReq`, ...) with a position `pc` and the
local variables that outlive an `await`, and one action per `await`. `Idle` is
the free slot; `Begin...` actions are the first read of a handler. History
variables, which no code holds, remember why a state came about; they are named
in the modules and never guard an action.

### Media library (`MediaLibrary`, `AssetLifecycle`, `MediaLibraryProofs`)

| model | code |
|---|---|
| `file[m]` | the `fileName` column of row `m` of table `media`, `NONE` when there is no row |
| `blobs` | the object names the file storage service holds |
| `derived[m]` | `metadata.processed.fileName` of row `m` |
| `ref[e]` | `sliders.mediaId`, `employees.photoMediaId`, `office_settings.backgroundPhotoId` with their `ON DELETE` rules |
| `req` | the handlers of `MediaService`, `MediaRepository`, `SliderService`, `EmployeeService`, `OfficeSettingsService` |
| `stranded` | history: rows whose file was removed by a request that could not finish |

The order inside the handlers is the point: an upload writes the blob before
the row; a replacement uploads, deletes the old blob and then updates the row;
a deletion removes the blob first and the row last; an image change uploads,
inserts the row, deletes the old row and re-points the entity. `Faults` chooses
which failures may happen: a storage error (logged and ignored by the code), a
database error (ends the handler), a crash (ends every handler and keeps tables
and store). `Ops` chooses which operations clients call.

`AssetLifecycle` is the abstract specification: an asset is absent, present or
bereft of its file; it may be added, lose its file, be repaired by a new file or
be removed together with every reference to it, and only when no slider shows
it. It knows no requests, names or steps. `status` in `MediaLibrary` is the
refinement mapping and `ImplementsAssetLifecycle` the claim.

### The life of a file (`FileLifecycle`)

Documents and attachments promise the same about an uploaded file and the row
that names it, and `FileLifecycle` states it without requests: a name is new,
filed (the store has the file), present (a row names it as well), bereft (the row
has lost the file) or gone. A row is born with its file, rows may go several in
one statement, a file that is gone never comes back, and no name is used twice.
`docStatus` in `Documents` and `cntStatus` in `Contents` are the refinement
mappings; `docUsed` and `cntUsed` are histories of the names `generateKey` has
given, which contain the time and a random number and so do not repeat
(`DocNewNames`, `CntNewNames`).

### Accounts and sessions (`Accounts`, `AccountsProofs`)

| model | code |
|---|---|
| `acct`, `pw`, `reset` | table `users`: existence and `isActive`, the password (as the number of times it was written), the reset token |
| `owner`, `active`, `ver` | table `user_sessions`: `userId`, `isActive`, and the password the login was checked against (a history) |
| `req` | login, refresh, logout, revoke, forgotten, reset and changed passwords; creation, update, activation, deactivation, deletion, and their bulk forms |
| `late`, `unswept` | histories: sessions opened by a login that a change overtook; users whose sessions nobody is going to end |

Tokens are random and are not part of the state; a session that has expired
behaves as one that was ended, so expiry is left out. `MaxPw` bounds the number
of password changes.

### Login throttle (`LoginThrottle`, `ReadsProofs`, run `reads`)

`failed` and `from` are the failed rows of table `login_attempts` within the
15-minute window; `Expire` is a row leaving the window. A login in `req` reads
the count for its e-mail address and the count for its IP address in either
order (`Promise.all`), compares the password, and only then records a failure.
`shut` is a history: the limits that have been reached ever since the login
began. `MaxAttempts` is 5 in the code and any positive number in the proofs.

### Header logos (`HeaderLogo`, `HeaderLogoProofs`)

`logo[h]` is the JSON column of a header with its left and right logo; `media`
the rows that were uploaded as logos. `uploadLogo` and `removeLogo` read the
column, upload, delete the old row and write the whole column back (`snap`,
`Merged`). Clients write the column as they like in `Create` and `Edit`, and
`DeleteMedia` is the media library, which does not look at headers. `broken`
and `leaked` are histories that name the causes of a logo without its row and of
a row without its header.

### Category tree (`CategoryTree`, `ContentManagementProofs`, in run `site`)

`rows`, `parent` and `filed` are the categories, their `parentId` and the
`categoryId` of contents. `updateCategory` reads the row, checks the new parent,
walks up the tree one row per statement (`Walk`, with the cursor `at` and the set
`visited`) and writes; `deleteCategory` looks for children, then for contents,
then deletes, with `ON DELETE SET NULL` on children and `RESTRICT` on contents.
`Shown` is the tree the route `tree` answers with. A request is `stale` once a
parent has changed since it began; `forced` are the categories such a request
has moved; `late` the children a category got after a deletion looked for them.

### Record-keeping modules (`Handlers`, `Hierarchy` and what extends them)

The remaining modules share `Handlers` (the handlers in flight, finitely many,
and the value of an empty column) and prefix their variables, so that they can
be composed.

* `Documents`: a document is identified with the name of its file, which
  `generateKey` never repeats. `uploadDocument` stores the file, validates, and
  inserts (`DocUpload`, `DocRefuse`, `DocInsert`); `deleteDocument` deletes file,
  downloads, versions and row in four statements (`DocDeleteFile` to
  `DocDeleteRow`); `bulkDelete` does so for a set and goes on after a failure
  (`DocNextOf`); a version is stored, inserted and named as the document's label
  (`DocPutVersion`, `DocInsertVersion`, `DocSetVersion`; the repository takes
  `createdAt` when it issues the `INSERT`, `document-version.repository.ts:20`, which
  the model does in one step, so two overlapping uploads that are inserted in the other
  order than they are dated appear as one overtaking the other, which
  `DocNewestNamed` excepts); a download is logged
  and counted (`DocLogDownload`, `DocCountDownload`). `docHalf`, `docLeaked`,
  `docMixed` and `docMissed` are histories that name the causes of a missing
  file, a stray file, a wrong label and an uncounted download.
* `Contents`: a slug is a title and the number that `generateSlug` appends. A
  request looks a slug up (once when the client names it, in a loop when it is
  generated) and writes it later; `late` says that another request took it in
  between. Attachments have a file before their row, and lose the file first.
* `Departments`: `validateDepartment` asks only for the parent's existence, so
  cycles are ordinary states of this model; the deletion looks (`DepBeginDelete`)
  and then deletes (`DepDelete`), which clears the parent of what came meanwhile.
* `Navigation`: menus, items and their parents, and the breadcrumb that reads one
  row per turn of its loop.
* `Lists`: one reorderable list, written "together" (`Promise.all`: menu items,
  FAQ, important links) or "in turn" (categories, attachments, which look at every
  row first). `Promise.all` answers the first failure while the other statements
  run on (`Straggle`).
* `Singletons`: descriptions of each type, the settings and the administrator are
  rows of a `sort`; every way to create, change or delete one looks before it
  writes or does not look (`blame` records which).
* `Listings`: the pages of 52 listings, as the order column, whether the client
  may choose another, and how page and count are read. One client walks the pages
  while rows come, go and move; rows of equal rank come in any order.
* `Search`: index rows, of which a content may have several, and reindexing
  through a snapshot.
* `DashboardCache`: `CacheService` with its `set`, `get`, eviction, clean-up and
  category invalidation, and the computations of `DashboardService` that read and
  store around it. Time is a counter of which only the order matters.
* `Routes` lists every declared route in the order NestJS hands them to Express,
  with the callers its guards admit; `Router` tries the layers one by one.

## Runs

`MC*` modules give model values and symmetry; the `.cfg` files choose the sizes.

| run | question | size | answer |
|---|---|---|---|
| `media_core` | whatever overlaps and fails: are names shared, do references resolve, is every missing file explained, is this the asset life cycle? | 2 rows, 3 names, slider, employee, 2 requests, all operations, all faults | holds |
| `media_cleanup` | does the orphan clean-up pick only rows that nothing references? | 2 rows, employee | violated, see Findings |
| `media_slider_replace` | is a slider's old image deleted when it is replaced? | 3 rows, slider, 1 request | violated, see Findings |
| `accounts_core` | which sessions survive a password change or a deactivation? do ended ones stay ended? | 2 users, 1 session, 1 reset token, 2 requests, all operations and faults | only explained ones; yes |
| `accounts_live` | does a password change, a reset or a bulk deactivation in progress end every other session open at that time, unless it fails? | 2 users, 1 session, 1 reset token, 2 requests, all faults, fairness | holds |
| `accounts_current` | does a password change keep the session it is made in? | 1 user, 2 sessions, 1 request, no faults | violated, see Findings |
| `images` | why may a logo have no row, or a row no header? one request at a time, no failure: does every media row have its file and every file its row? | 1 header, 3 logo rows, 2 requests; 3 media rows, 3 names, employee, office settings, 1 request | only for the named reasons; yes |
| `category_root` | does a category asked to become a root become one? | 2 categories, 1 request | violated, see Findings |
| `category_tree` | does the tree route show the tree? | 2 categories, 1 request | violated, see Findings |
| `site` | categories, contents, documents, departments, singletons, lists, listings, search, dashboard: what may the races and failures of each leave behind? do documents and attachments implement the life of a file? | 2 requests; 3 rows of each table (2 of attachments, list rows, index rows); see below | only what the properties name; yes |
| `reads` | how far is the login limit exceeded, does anybody pass while it is reached, does it lift? do breadcrumbs end? which routes are hidden? | 2 e-mail and 2 IP addresses, 3 attempts, limit 1; 2 menus, 3 items, 5 changes, 2 breadcrumbs; all routes; fairness | by at most the logins in flight; no; yes; unless a cycle lies above; only the listed ones |
| `department_cycle` | are circular references of departments prevented? | 2 departments, 1 request | violated, see Findings |

### Runs of several modules

`MCSite`, `MCReads` and `MCImages` check several modules in one run. Those modules
share no table: none reads or writes a variable of another, so their interleaving has no
behaviour that the modules do not have apart. The first state therefore chooses
the `part` that moves, and the others keep their initial state; the reachable
states are the union of the modules' own, not their product. Parts that do share
tables are one module (media with sliders, employees and office settings; auth
with users; categories with contents' foreign key; departments with employees).
A property of one part holds in the initial state of the others, so each property
speaks of its own part; each has a mutant of the code that breaks it under the
same configuration. The program does not take turns, of course: it answers requests
for all modules at once. The proofs are about that. `AllSpec` (in `SiteProofs`) and
`TogetherSpec` (in `ReadsProofs`) let any handler of any module take the next step
while the handlers in flight elsewhere keep their places; `SiteTypeCorrect`,
`SiteIsSafe`, `SiteImplementsFileLifecycle`, `ReadsTypeCorrect` and `ReadsAreSafe` hold
for these interleavings. What the runs explore is a part of them (`SiteRunIsPart`,
`ReadsRunIsTogether`).

The documents are explored twice, because all at once is too much: three files
with every operation but downloads, and two files with every operation
(`Undownloaded`, `FewFiles`).

### Why the sizes are enough

Two requests in flight give every overlap of two handlers, and all the races
found need only two; a third row or category lets a request act on one while
another changes its neighbour (a cycle through a stale walk needs two moves, a
lost logo needs the old row, the winner's and the loser's). In `media_core` the
store has three names for two rows, so an upload can overlap with a replacement;
in `reads` the three attempts exceed what two logins can record over a limit of
one, so a broken limit shows. The limit of one makes "reached" a matter of one
row; larger limits are covered by the proof. In `site` the numbers are:
`MaxSuffix = 1`, one generated slug beyond the plain one, enough for a slug to be
taken between look and write; `MaxDownloads = 1`, one download of a document, for
log and counter differ by the downloads under way; three documents, so that a
document has two versions whose uploads overtake each other; `MaxRank = 3` and
`PageSize = 2`, three rows on two pages in every order, ties included;
`MaxSize = 2` for a cache with four keys, which is therefore full, overfull and
evicted; `MaxTime = 2` with times to live of zero to three, so items expire and
share a moment; `MaxWrites = 1`, before and after. Three items of a menu and five
changes let an item move twice while it is passed.

`images`, `site` and `reads` stop when their finite identifiers or changes
are used up, which is why they do not check for deadlock; the others do.

Violation runs check one property each, a sentence of a comment, of the module
documentation or of a route's description, and TLC finds it false.

### Fairness

Three properties need it. Node resumes a handler whose `await` has settled,
however many other requests arrive, so every handler's next step is weakly fair
(`Step` of a login and `Breadcrumb` in `reads`, the handlers in `accounts_live`). In
`accounts_live` a handler's next step may be its failure, which ends it for good,
and the process may crash: that every handler goes on does not mean that it
succeeds. The loop of `bulkDeactivate` that stops at the first user whose sessions it
cannot end is among these behaviours, and so are the sessions it leaves open, which
`ChangeEndsSessions` excepts as those of an unswept user, until somebody sweeps them.
Two users in the loop, failures and crashes leave room for one session only. A
password change that owes that session its end is one whose client is not in it:
`register` hands out tokens without a session. A failed login leaves the window because time passes:
`Expire` is weakly fair. No client's request is ever assumed to arrive.

## Proofs

Eight modules hold theorems, for every value of the constants under the named
assumptions of the modules: null is no identifier and no value of another
column; the operations and faults are among those listed; a process holds
finitely many requests (`HandlersAssumption`); `LoginThrottle` has finitely many
logins and rows and a positive limit; the cache has a positive size; a listed
table has finitely many rows (`ListingsAssumption`); the route table is a finite
sequence (`RouterAssumption`); a menu has finitely many items (`NavAssumption`). Every theorem about a property names the property a run checks, where a run checks it.

* `MediaLibraryProofs`: `TypeCorrect`; `MissingExplained`, `NamesAreNotShared`
  by `IInv` = typing, positions and variables fit (`PcInv`), a replacement acts
  on one row (`OneTarget`), `NamesInv`, and the property. `NamesNotShared` is
  what makes deletion by name safe, so the rest depends on it.
  `QuiescentConsistency` follows for the specification whose constants exclude
  sliders, database errors and crashes (`NothingStranded`). `NamedBlobsStay` (what
  a row names and no handler is about to delete is in the store) is a conjunct of
  `IInv`. `SerialNoLeak`, the other half of `QuiescentConsistency`, holds for
  requests that run one at a time without failures (`NothingLeaks`), which is what
  `images` checks: two overlapping replacements, a failed insert and the
  clean-up do leave files behind. It needs to know where every file of the store
  is: named by a row, just uploaded by the one request in flight, or on its list
  of files to delete (`Accounted`), and what that request holds (`Alone`). It also
  needs that a new row finds an id whenever an upload found a name (`IdsLast`):
  ids and names are both inexhaustible in the code, so the finite model must not
  run out of ids first, and the proof counts both.
  `ReferencesAlwaysResolve` adds to `IInv` that an image is shown only after its
  row was inserted (`RInv`). `ImplementsLifeCycle` is the refinement: every step
  of every handler is a step of `AssetLifecycle` or a stutter under `status`. What it
  buys is `RemovalsClearReferences`: no step removes a row that a slider shows, and
  the one that removes another clears every reference to it.
* `AccountsProofs`: `Survivors`, `EndedForGood`, `AccountsOfSessions` by `IInv`:
  sessions belong to accounts, open ones are owned, a handler's variables fit its
  position, a reset token found first belongs to the account it was found for or
  is gone, and a login between the two steps of `deactivateUser` is late.
  `DebtsArePaid`, about steps: a handler that owes a user the end of the sessions
  drops the debt only in the step that ends them, or by failing; like
  `ChangeEndsSessions` it leaves out the session a password change is made in, for
  which the comment in the code asks the opposite of what happens. It is
  `ChangeEndsSessions` without "eventually". `CalmSessionsJustified` lets requests
  overlap as they like and excludes what `SurvivorsExplained` blames (failures, the
  two operations that end no session, a login overtaken by a change).
* `ReadsProofs`, the login throttle: `OvershootBounded` is not inductive; what is, is that
  the failures of an address *together with the logins that no longer ask about
  it* stay within the bound (`CommittedBounded`), for a login joins them only
  after finding the address below its limit, and leaves them by adding one row.
  `ShutAddressesStayOut` follows from `ShutInv`: a limit in a login's history is
  still reached, and is either unread or was read as reached. The router:
  the lemma `FirstLayerAnswers` says, for the walk over any number of layers, that a
  layer is passed only when it does not fit, that the walk never comes further than the
  layer the client means, and that the layer that answers fits the request.
  `DispatchFollowsTheTable` reduces `OnlyKnownRoutesHidden` to `TableKnown`, a formula
  without variables: for every pair of routes of which the second is the first in the
  table to fit the first, the handlers agree or the first is one of the listed ones.
  That is a hypothesis of the theorem and no assumption of the router, since it is the
  very thing that run `reads` computes for the routes the code declares; the theorem
  says that nothing else, no interleaving of the walks, matters.
  `AddressesDrain` is what the proof of `CommittedBounded` shows about a step at an
  address that has reached its limit: nobody joins the committed logins, and one who
  lands a failure leaves them (`CommitStep`), so that finitely many rows are left to
  expire. `BreadcrumbsAdvance` is the ranking argument of `BreadcrumbsEnd`:
  `Ahead`, the number of items above the present one, decreases with every turn of
  the loop off a cycle (`TurnClimbs`), because the set of items above is that of the
  parent and the parent itself, which is not above itself. It is why `Above` is the
  least set closed under `parent`, and not a recursion.
  `NavTypeCorrect` and `ReadsTypeCorrect` type the breadcrumbs and the three together;
  `ReadsAreSafe` carries the safety theorems over to the interleaving of the three.
* `HeaderLogoProofs`: `DanglingLogosExplained` needs that what is named was used
  (`Known`), that a row that is not broken has one home (`OneHome`), so that the
  request that deletes it is the one that replaces it there, and that a row about
  to be shown exists (`NewThere`). `OrphanedLogosExplained` needs that an update
  has dealt with the row it read (`OldGone`). `CalmLogosAgree` is the converse for
  well-behaved requests: when requests for one header do not overlap, nobody writes the
  columns around them and nothing fails half way (`LogoCalm`), then at rest the media
  rows are exactly those a header shows. `Alone` and `LogosClean` are its invariant.
* `ContentManagementProofs`: `OnlyRacesMakeCycles`: a cycle is a set closed under
  `parent` without a root (`Endless`); the walk's invariant says that whatever
  such set held the new parent also holds the cursor or was changed behind it, so
  a request that is not stale and ends its walk at a root closes no cycle.
  `KeysAlwaysResolve`, `DeletionsReRootLate` and `WalksAlwaysAdvance` use the same
  `IInv`. `SerialTreesAreAcyclic` is the corollary for one request at a time.
  The contents: `CntClashes` is inductive together with `WriterInv`: a writer that
  no one has overtaken still finds its slug free, and a content about to be created
  is nobody else's and has a slug. `CntFilesAgree` by `FilerInv`: the file of a
  request that attaches or detaches is its own. `CntImplementsLife` is the
  refinement of `FileLifecycle`: a file is stored, recorded, lost or dropped one at
  a time (`CntOneFile`), but a content takes all its rows at once (`CntRowsGo`).
  `CntFilesDieOnce` follows from it: what is lost is never read again.
  `CalmAttachmentsAgree`: if nothing fails between a file and its row and no content
  is deleted that still has attachments (`CntCalm`), the store and the table agree
  whenever no request is between the two (`CntFilesSettled`), however many overlap.
* `DocumentsProofs`: `DocHaveFiles`, `DocFilesHaveRows`, `DocLabels` by one
  invariant: the tables agree (`DocShape`: versions, downloads and labels only of
  documents that exist, and only names once generated), and a request owns what it
  is about to insert (`DocOwnInv`: an uploaded file is in the store, no other
  request knows it; a deletion past the file's step works on a document whose file
  is gone or known to have stayed). `DocDownloads` needs a count: the log is within
  the counter, the missed and the requests between the two, and the requests that
  download keep within `MaxDownloads` (`CountInv`), for which the requests are
  finite. `DocImplementsLife` is the refinement of `FileLifecycle`; it rests on
  `DocOwnInv`, without which a deletion that another one has overtaken could meet a
  file or a row that came back; `DocFilesDieOnce` follows from it.
  `VersionsKeepTheirFiles` needs no hypothesis: a version's file is never a document's
  own (`VersionInv`), and only those are deleted. This is also why deleted documents
  leave the files of their versions behind. `CalmDocumentsAgree` is the counterpart of
  `CalmAttachmentsAgree` for documents and versions together (`DocCalm`).
* `RecordsProofs`: `DepTypeCorrect` and `DepChildrenSpared` by `DepLateInv` (a
  deletion that has looked knows the children that came since); `SgDuplicates` by
  `LookInv` (a creation that was not overtaken still finds no row of its sort), and
  from it `SgOneRowEach`: creations of one sort that do not overlap
  (`CreationsApart`), and types that no update changes (`TypesStay`), leave one row of
  each sort although the table has no unique index;
  `ListAnswers` by `WrittenInv` (a row that is written, and was touched by nobody
  else, stands where it was put); `SrcSuccess` by `SrcOwn` (each row of the snapshot
  is to come, in its turn, failed, reindexed, gone, or one of two, and the request
  knows every content that has two rows); `DashRefresh` by `ReadInv` (a computation
  that read before the refresh knows it), and `DashUndisturbed` from it: a refresh
  that meets no computation between its reads and its store holds without exception; `DashBounded` by `AgeInv`: any part of the
  cache has an oldest item, which has to be carried along because the least element
  of a set of numbers is an induction. A full cache from which nothing can be evicted
  then holds only items of the present moment. `ListingRowsSeen`, for every page
  size and number of rows: in a listing that nothing has disturbed, a row that is
  due and unseen has at least as many rows before it as the pages read so far hold
  (`Behind`), because a page takes exactly the next rows of the order, which is
  counting with injections (`FiniteSetTheorems`); and the total that ends the walk
  was counted, or its page read, while the listing was as it is (`CountHolds`).
* `SiteProofs`, about the interleaving of all modules (`AllSpec`, see "Runs of several
  modules"): `SiteTypeCorrect`, `SiteImplementsFileLifecycle`, the two refinements of
  `FileLifecycle`, and `SiteIsSafe`: all that run `site` checks, in one theorem. They
  rest on the theorems of the modules, because a step of the interleaving is, for each
  module, a step of its own or none (`SiteSteps`).

The type invariant of `HeaderLogo` is proved and not checked by a run.
`SerialSessionsJustified` (in `AccountsProofs`) states `QuiescentSessionsJustified`
for requests that run one at a time without failures: it takes the place of a run
of that instance. `SerialTreesAreAcyclic` does the same for the category tree.

The theorems called calm, `SgOneRowEach` and `DashUndisturbed` restrict the steps that
happen, or the requests that overlap. They say how far the disagreements
that the invariants explain (`...Explained`, `...Consistent`) are due to failures and
races: without those nothing is left over. Their hypotheses negate the disjuncts of the
explanations.

Only model-checked: the liveness properties `ChangeEndsSessions`, `LimitLifts` and
`BreadcrumbsEnd`, for the prover cannot treat fairness and `ENABLED`; `DebtsArePaid`,
`AddressesDrain` and `BreadcrumbsAdvance` are what remains of them without fairness.
And `TableKnown`, a computation over the declared routes: the router has no constants,
so TLC's run of it is complete. Out of reach as well are induction over data (the
library's induction theorems take an operator as parameter) and recursive operators;
no module with a theorem uses any.

## Findings

1. `cleanupOrphanedMedia` selects rows without slider, office settings and
   profile picture, and forgets employee photos: a photo in use is deleted
   (`media_cleanup`; `media.repository.ts:648`, comment at 646).
2. `uploadSliderImage` deletes the old media row while the slider still
   references it; the key refuses, the blob is already gone, the exception is
   swallowed (`media_slider_replace`; `slider.service.ts:465`, comment at 460).
3. `changePassword` ends the session it is made in along with the others, because
   `deactivateAllUserSessions` is given the user and nothing else, where the comment
   says "Deactivate all sessions except current" (`accounts_current`;
   `auth.service.ts:265`, comment at 264).
4. A category that is asked to become a root keeps its parent, because the
   controller removes `parentId` from the update altogether (`category_root`;
   `admin-category.controller.ts:118`, comment at 117).
5. `buildCategoryTree` compares a root's `null` with `undefined` by `===`, so
   the tree is always empty (`category_tree`; `category.repository.ts:220`).
6. `PUT admin/sliders/:id` is declared before `PUT admin/sliders/reorder`, so a
   reorder reaches `updateSlider` for a slider called "reorder"
   (`admin-slider.controller.ts:144`, `docs/modules/slider/README.md:726`). The same
   happens to the slider export (README line 738), `GET admin/employees/export`
   (`docs/modules/hr/README.md:847`), `PUT /admin/faq/bulk-update`
   (`docs/modules/faq/README.md:263`), `GET admin/header-configs/export`
   (`docs/modules/header/README.md:734`) and `PUT /admin/menus/reorder`
   (`docs/database/menu-order-migration.md:47`). No run is
   needed to state it apart: `OnlyKnownRoutesHidden` (run `reads`) fails for a table of
   hidden routes from which any of these is missing, and holds for the one that lists
   them all (`HiddenRoutes`).
7. A menu item may become its own ancestor, and its breadcrumb then never ends;
   `docs/modules/navigation/README.md:999` promises "Circular reference
   prevention" (`menu-item.service.ts:98`). `BreadcrumbsEnd` excepts exactly the
   items below a cycle, so no run states it apart.
8. A department may be placed under itself or one of its own children, where
   `docs/modules/hr/README.md:957` promises "Department hierarchy validation for
   integrity" (`department_cycle`; `department.service.ts:84`). Nothing climbs this
   tree, so nothing hangs.

Behaviour seen while modelling that no run states, because it is a property the
other runs already explain or no sentence of the repository denies it:
`removeSliderImage` leaves `mediaId` as it is (Prisma skips `undefined`);
overlapping photo replacements of one employee leave a photo that nothing shows;
two overlapping category moves make a cycle, which the circularity check cannot see;
two overlapping logo changes undo each other; the table `office_descriptions` has no unique index on its type. Further: `advancedSearch`
(`search.service.ts:61`) drops the page and the limit it is given; employee
statistics count at most the 10000 rows of one page; `updateDashboardConfig` writes
nothing but the cache; a metric whose query fails is cached as zero; the `POST`
forms of `admin/header-configs` all reach `deleteHeaderConfigViaMethodOverride`
(`admin-header.controller.ts:185`), which answers 400; deleting a document, or a
content, leaves the files of its versions, or of its attachments, in the store.

## Not modelled

The components and reasons are listed in `PROJECT.json`. Translation, the HTTP
layer, the token strategies, the database service and the start-up keep no state
that the others depend on. Left out within the modelled parts: validation that only
refuses requests; names, texts, publication states and schedules, which are single
columns that no later decision reads together with another; statistics, exports and
health, which only read; albums, slider counters and the query log, which are
written by single statements that nothing relates; the audit log, which is only
appended to; e-mail verification; the tokens themselves, so that two refreshes with
one token are one operation on the session here.

## What is left

1. Proofs: overlapping requests in the media library that leave nothing behind, as
   `SerialNoLeak` says of requests one at a time; it needs to say which replacements
   of one row may overlap.
2. Publication and scheduling of contents and headers against the lists that show
   them, when a property relates the two.
3. Several processes with a cache each: a refresh empties only the cache of the
   process that answers it.
