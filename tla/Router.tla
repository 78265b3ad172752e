------------------------------- MODULE Router -------------------------------
(***************************************************************************)
(* How a request finds its handler.  Express tries the layers in order and *)
(* stops at the first whose method and path fit, whatever comes later: no  *)
(* handler of this program passes the request on.  The guards of that      *)
(* handler then let the caller through or answer.                          *)
(*                                                                         *)
(* Asked is the declared route whose method and path the client uses, with *)
(* parameters that equal no fixed segment; 0 is a path nobody declares.    *)
(***************************************************************************)
EXTENDS Routes, Naturals

VARIABLES asked,  \* the route the client means, NoAsk between two requests
          layer,  \* the layer that is tried
          answer  \* what became of the request

routerVars == <<asked, layer, answer>>

\* The declared layers are a list.
ASSUME RouterAssumption == Len(Layers) \in Nat

NoAsk == Len(Layers) + 1

Answers == {"none", "handled", "unauthorized", "forbidden", "not found"}

RouterInit == asked = NoAsk /\ layer = 0 /\ answer = "none"

-----------------------------------------------------------------------------
\* A row fits the path of a request for route r, segment by segment.
Fits(row, r) ==
  /\ row.verb = r.verb
  /\ Len(row.path) = Len(r.path)
  /\ \A i \in DOMAIN r.path : row.path[i] \in {Any, r.path[i]}

LayerFits == asked # 0 /\ Fits(Layers[layer], Layers[asked])

Ask == /\ asked = NoAsk
       /\ asked' \in 0..Len(Layers)
       /\ layer' = 1
       /\ UNCHANGED answer

Walking == asked # NoAsk /\ answer = "none"

Pass == /\ Walking /\ layer <= Len(Layers) /\ ~LayerFits
        /\ layer' = layer + 1
        /\ UNCHANGED <<asked, answer>>

NotFound == /\ Walking /\ layer > Len(Layers)
            /\ answer' = "not found"
            /\ UNCHANGED <<asked, layer>>

\* JwtAuthGuard, then RolesGuard, then the handler.
Verdict(caller) ==
  LET row == Layers[layer] IN
  IF caller \in row.callers THEN "handled"
  ELSE IF caller = "nobody" THEN "unauthorized" ELSE "forbidden"

Serve == /\ Walking /\ layer <= Len(Layers) /\ LayerFits
         /\ \E caller \in Anyone : answer' = Verdict(caller)
         /\ UNCHANGED <<asked, layer>>

EndAsk == /\ answer # "none"
          /\ asked' = NoAsk /\ layer' = 0 /\ answer' = "none"

RouterNext == Ask \/ Pass \/ NotFound \/ Serve \/ EndAsk

RouterSpec == RouterInit /\ [][RouterNext]_routerVars

-----------------------------------------------------------------------------
(* Properties *)

\* The declared routes that stand below one that fits their requests: a page
\* by its slug, a row by its id, or the same path in another controller.
HiddenRoutes ==
  Under("ContentController", <<"content">>, <<
       Get(<<Any, "attachments">>, Anyone, "getAttachmentsByContent") >>)
  \o Under("ContentController", <<"contents">>, <<
       Get(<<Any, "attachments">>, Anyone, "getAttachmentsByContent") >>)
  \o Under("ContentAttachmentController", <<"content", "attachments">>, <<
       Get(<<"health">>, Staff, "healthCheck"),
       Get(<<"statistics">>, Staff, "getAttachmentStatistics"),
       Get(<<Any>>, Staff, "getAttachmentById") >>)
  \o Under("ContentAttachmentController", <<"admin", "contents">>, <<
       Get(<<"health">>, Staff, "healthCheck"),
       Get(<<"statistics">>, Staff, "getAttachmentStatistics"),
       Put(<<"reorder">>, Staff, "reorderAttachments"),
       Get(<<Any>>, Staff, "getAttachmentById"),
       Post(<<>>, Staff, "uploadAttachment"),
       Put(<<Any>>, Staff, "updateAttachment"),
       Delete(<<Any>>, Staff, "deleteAttachment") >>)
  \o Under("AdminImportantLinksController", <<"admin", "important-links">>, <<
       Put(<<"bulk-update">>, Staff, "bulkUpdateImportantLinks") >>)
  \o Under("AdminFAQController", <<"admin", "faq">>, <<
       Put(<<"bulk-update">>, Staff, "bulkUpdateFAQs") >>)
  \o Under("AdminSearchController", <<"admin", "search">>, <<
       Get(<<"search-indices", "statistics">>, Anyone, "getIndexStatistics"),
       Get(<<"search-indices", "export">>, Anyone, "exportIndices"),
       Get(<<"search-suggestions", "statistics">>, Anyone, "getSuggestionStatistics"),
       Get(<<"search-suggestions", "export">>, Anyone, "exportSuggestions") >>)
  \o Under("AdminHeaderController", <<"admin", "header-configs">>, <<
       Post(<<"reorder">>, Staff, "reorderHeaderConfigs"),
       Get(<<"export">>, Staff, "exportHeaderConfigs"),
       Post(<<"import">>, Admins, "importHeaderConfigs"),
       Post(<<"bulk-publish">>, Staff, "bulkPublish"),
       Post(<<"bulk-unpublish">>, Staff, "bulkUnpublish"),
       Post(<<"bulk-delete">>, Admins, "bulkDelete") >>)
  \o Under("AdminEmployeeController", <<"admin", "employees">>, <<
       Get(<<"photos">>, Staff, "getAllEmployeePhotos"),
       Get(<<"export">>, Staff, "exportEmployees"),
       Get(<<"with-details-and-photos">>, Staff, "getEmployeesWithDetailsAndPhotos") >>)
  \o Under("PublicNavigationController", <<>>, <<
       Get(<<"content", "category", Any>>, Anyone, "getCategoryWithContent"),
       Get(<<"content", Any>>, Anyone, "getContentBySlug"),
       Get(<<"content", Any, Any>>, Anyone, "getContentByCategoryAndSlug"),
       Get(<<"categories">>, Anyone, "getAllCategories"),
       Get(<<"categories", Any>>, Anyone, "getCategoryBySlugOnly"),
       Get(<<"content", "search">>, Anyone, "searchContent") >>)
  \o Under("AdminNavigationController", <<"admin">>, <<
       Put(<<"menus", "reorder">>, Staff, "reorderMenus"),
       Get(<<"categories", "for-menu">>, Staff, "getCategoriesForMenu"),
       Get(<<"content", "search">>, Staff, "searchContentForMenu") >>)
  \o Under("AdminSliderController", <<"admin", "sliders">>, <<
       Put(<<"reorder">>, Staff, "reorderSliders"),
       Get(<<"export">>, Staff, "exportSliders") >>)

Hidden(i) == \E k \in DOMAIN HiddenRoutes : HiddenRoutes[k] = Layers[i]

\* The request is answered by the handler the client means, or by its guards.
ServedAsAsked ==
  IF asked = 0 THEN answer \in {"none", "not found"}
  ELSE /\ answer # "not found"
       /\ answer # "none" => Layers[layer].handler = Layers[asked].handler

\* Request dispatch: the state of a walk is well formed.
RouterTypeOK == /\ asked \in 0..NoAsk
                /\ layer \in 0..Len(Layers) + 1
                /\ answer \in Answers

\* app.module and the controllers: apart from the routes listed above, every
\* declared route is the first that fits its own requests.
OnlyKnownRoutesHidden ==
  asked # NoAsk => (asked # 0 /\ Hidden(asked)) \/ ServedAsAsked
=============================================================================
