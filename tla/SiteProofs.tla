----------------------------- MODULE SiteProofs -----------------------------
(* The site as it runs: the server works for all its modules at once, and    *)
(* the steps of their handlers interleave.  What is proved of each module    *)
(* alone holds then too, for every number of rows and requests.              *)
EXTENDS MCSite, ContentManagementProofs, DocumentsProofs, RecordsProofs

allVars == <<vars, cntVars, docVars, depVars, sgVars, listVars, listingVars, srcVars, dashVars>>

AllInit == /\ Init /\ CntInit /\ DocInit /\ DepInit /\ SgInit /\ ListInit
           /\ ListingInit /\ SrcInit /\ DashInit

\* Any handler of any module takes the next step; it writes the tables of its own
\* module, and all the handlers in flight keep their places.  In a behaviour of
\* SiteSpec only one of the modules moves.
AllNext ==
  \/ /\ Next
     /\ UNCHANGED <<cntVars, docVars, depVars, sgVars, listVars, listingVars, srcVars, dashVars>>
  \/ /\ CntNext
     /\ UNCHANGED <<vars, docVars, depVars, sgVars, listVars, listingVars, srcVars, dashVars>>
  \/ /\ DocNext
     /\ UNCHANGED <<vars, cntVars, depVars, sgVars, listVars, listingVars, srcVars, dashVars>>
  \/ /\ DepNext
     /\ UNCHANGED <<vars, cntVars, docVars, sgVars, listVars, listingVars, srcVars, dashVars>>
  \/ /\ SgNext
     /\ UNCHANGED <<vars, cntVars, docVars, depVars, listVars, listingVars, srcVars, dashVars>>
  \/ /\ ListNext
     /\ UNCHANGED <<vars, cntVars, docVars, depVars, sgVars, listingVars, srcVars, dashVars>>
  \/ /\ ListingNext
     /\ UNCHANGED <<vars, cntVars, docVars, depVars, sgVars, listVars, srcVars, dashVars>>
  \/ /\ SrcNext
     /\ UNCHANGED <<vars, cntVars, docVars, depVars, sgVars, listVars, listingVars, dashVars>>
  \/ /\ DashNext
     /\ UNCHANGED <<vars, cntVars, docVars, depVars, sgVars, listVars, listingVars, srcVars>>

AllSpec == AllInit /\ [][AllNext]_allVars

\* What TLC explores is part of what the theorems below speak of.
LEMMA SiteRunIsPart == SiteSpec => AllSpec
<1>1. SiteInit => AllInit
  BY DEF SiteInit, AllInit
<1>2. [SiteNext]_siteVars => [AllNext]_allVars
  <2>1. CASE SiteNext
    BY <2>1 DEF SiteNext, AllNext
  <2>2. CASE UNCHANGED siteVars
    BY <2>2 DEF siteVars, allVars
  <2> QED BY <2>1, <2>2
<1> QED BY <1>1, <1>2, PTL DEF SiteSpec, AllSpec

\* A step of the site is, for each module, a step of that module or none.
LEMMA SiteSteps ==
  [AllNext]_allVars =>
    /\ [Next]_vars /\ [CntNext]_cntVars /\ [DocNext]_docVars /\ [DepNext]_depVars
    /\ [SgNext]_sgVars /\ [ListNext]_listVars /\ [ListingNext]_listingVars
    /\ [SrcNext]_srcVars /\ [DashNext]_dashVars
  BY DEF AllNext, allVars

\* Hence the site is, for each module, a behaviour of that module.
LEMMA SiteRunsItsParts ==
  AllSpec => /\ Spec /\ CntSpec /\ DocSpec /\ DepSpec /\ SgSpec /\ ListSpec
             /\ ListingSpec /\ SrcSpec /\ DashSpec
  BY SiteSteps, PTL
     DEF AllSpec, AllInit, Spec, CntSpec, DocSpec, DepSpec, SgSpec, ListSpec, ListingSpec,
         SrcSpec, DashSpec

\* The rows and requests of every module are well formed in every reachable state
\* of the site, with the steps of all of them interleaved.
THEOREM SiteTypeCorrect == AllSpec => []SiteTypeOK
<1>1. SgIInv /\ ListIInv /\ SrcIInv /\ DashIInv => SgTypeOK /\ ListTypeOK /\ SrcTypeOK /\ DashTypeOK
  BY DEF SgIInv, ListIInv, SrcIInv, DashIInv
<1>2. SiteTypeOK <=> /\ TypeOK /\ CntTypeOK /\ DocTypeOK /\ DepTypeOK /\ SgTypeOK
                     /\ ListTypeOK /\ ListingTypeOK /\ SrcTypeOK /\ DashTypeOK
  BY DEF SiteTypeOK
<1> QED BY <1>1, <1>2, SiteRunsItsParts, TypeCorrect, CntTypeCorrect, DocTypeCorrect,
           DepTypeCorrect, SgInductive, ListInductive, ListingInductive, SrcInductive,
           DashInductive, PTL

\* Whatever uploads, versions and deletions overlap, at any number of documents
\* and contents, and whatever else the site does between their steps: a row is born
\* with its file, a file that is gone never comes back, and its name is never used
\* again.
THEOREM SiteImplementsFileLifecycle == AllSpec => ImplementFileLifecycle
  BY SiteRunsItsParts, DocImplementsLife, CntImplementsLife, PTL DEF ImplementFileLifecycle

\* Everything the run of the site checks on a few rows and one module at a time holds
\* for any number of rows and requests and with the steps of all modules interleaved:
\* the table of categories (CategoryService), the contents and their attachments, the
\* documents, the departments, the single rows, the ordered lists, the listings, the
\* search index and the dashboard's cache.
THEOREM SiteIsSafe ==
  AllSpec =>
    /\ [](/\ KeysResolve /\ CyclesExplained
         /\ CntClashExplained /\ CntFilesConsistent
         /\ DocFilesPresent /\ DocFilesExplained /\ DocDownloadsCounted /\ DocNewestNamed
         /\ DuplicatesExplained /\ OrderAsAnswered /\ RowsSeen
         /\ SuccessMeansReindexed /\ RefreshHolds)
    /\ OnlyLateChildrenReRooted /\ WalksAdvance
    /\ DepDeletionSparesChildren /\ CacheBounded
  BY SiteRunsItsParts, KeysAlwaysResolve, OnlyRacesMakeCycles, CntClashes, CntFilesAgree,
     DocHaveFiles, DocFilesHaveRows, DocDownloads, DocLabels, SgDuplicates, ListAnswers,
     ListingRowsSeen, SrcSuccess, DashRefresh, DeletionsReRootLate, WalksAlwaysAdvance,
     DepChildrenSpared, DashBounded, PTL
=============================================================================
