------------------------------- MODULE MCSite -------------------------------
(* The modules of the site for TLC.  Each keeps its own tables and none      *)
(* writes another's, so one run checks each in its turn: the first state     *)
(* says which of them moves, and the others stand still.  SiteProofs is      *)
(* about all of them at once.                                                *)
EXTENDS CategoryTree, Contents, Documents, Departments, Singletons, Lists,
        Listings, Search, DashboardCache, TLC

CONSTANTS x1, x2, x3,     \* rows, whatever table they are in
          y1, y2,         \* rows of the tables that need but two
          q1, q2,         \* requests
          k1, w1, ro1, ex1 \* keys of the dashboard's cache

\* An overview lives shorter than a configuration; a widget expires at once.
MTtl == (k1 :> 1) @@ (w1 :> 0) @@ (ro1 :> 2) @@ (ex1 :> 3)

VARIABLE part

Parts == {"categories", "contents", "documents", "downloads", "departments",
          "singletons", "lists", "listings", "search", "dashboard"}

siteVars == <<part, vars, cntVars, docVars, depVars, sgVars, listVars, listingVars,
              srcVars, dashVars>>

SiteInit ==
  /\ part \in Parts
  /\ Init /\ CntInit /\ DocInit /\ DepInit /\ SgInit /\ ListInit /\ ListingInit
  /\ SrcInit /\ DashInit
  /\ part # "lists" => listKind = "together" /\ \A x \in Row : place[x] = 0
  /\ part # "listings" => /\ column = "createdAt" /\ reads = "together"
                          /\ \A x \in Entity : rank[x] = NONE

\* The part n is the one that moves.
Moves(n) == part = n /\ UNCHANGED part

\* The documents move twice: three files and no download, or two files.
Undownloaded == \A r \in Request : docReq'[r].pc \notin {"log", "bump"}
FewFiles == Cardinality(docUsed') <= 2

SiteNext ==
  \/ /\ Moves("categories") /\ Next
     /\ UNCHANGED <<cntVars, docVars, depVars, sgVars, listVars, listingVars, srcVars, dashVars>>
  \/ /\ Moves("contents") /\ CntNext
     /\ UNCHANGED <<vars, docVars, depVars, sgVars, listVars, listingVars, srcVars, dashVars>>
  \/ /\ \/ Moves("documents") /\ DocNext /\ Undownloaded
        \/ Moves("downloads") /\ DocNext /\ FewFiles
     /\ UNCHANGED <<vars, cntVars, depVars, sgVars, listVars, listingVars, srcVars, dashVars>>
  \/ /\ Moves("departments") /\ DepNext
     /\ UNCHANGED <<vars, cntVars, docVars, sgVars, listVars, listingVars, srcVars, dashVars>>
  \/ /\ Moves("singletons") /\ SgNext
     /\ UNCHANGED <<vars, cntVars, docVars, depVars, listVars, listingVars, srcVars, dashVars>>
  \/ /\ Moves("lists") /\ ListNext
     /\ UNCHANGED <<vars, cntVars, docVars, depVars, sgVars, listingVars, srcVars, dashVars>>
  \/ /\ Moves("listings") /\ ListingNext
     /\ UNCHANGED <<vars, cntVars, docVars, depVars, sgVars, listVars, srcVars, dashVars>>
  \/ /\ Moves("search") /\ SrcNext
     /\ UNCHANGED <<vars, cntVars, docVars, depVars, sgVars, listVars, listingVars, dashVars>>
  \/ /\ Moves("dashboard") /\ DashNext
     /\ UNCHANGED <<vars, cntVars, docVars, depVars, sgVars, listVars, listingVars, srcVars>>

SiteSpec == SiteInit /\ [][SiteNext]_siteVars

\* Rows and requests are interchangeable.
Symmetry == Permutations({x1, x2, x3})
            \cup Permutations({q1, q2})

\* The rows and requests of every module are well formed.
SiteTypeOK == /\ TypeOK /\ CntTypeOK /\ DocTypeOK /\ DepTypeOK /\ SgTypeOK
              /\ ListTypeOK /\ ListingTypeOK /\ SrcTypeOK /\ DashTypeOK

\* Documents and attachments implement the life of their files (DocumentService,
\* ContentAttachmentService, ContentService).
ImplementFileLifecycle == DocImplementsFileLifecycle /\ CntImplementsFileLifecycle
=============================================================================
