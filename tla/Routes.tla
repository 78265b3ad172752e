------------------------------- MODULE Routes -------------------------------
(***************************************************************************)
(* The routes that the controllers declare, in the order in which NestJS   *)
(* hands them to Express: the modules as app.module imports them (depth    *)
(* first), the controllers as their module lists them, a controller once   *)
(* for each of its base paths, its methods from top to bottom.             *)
(*                                                                         *)
(* A row is one handler: its HTTP method, its path below the controller's  *)
(* (Any for a parameter), the callers its guards let through, its name.    *)
(* What the handler then does is the subject of the other modules.         *)
(***************************************************************************)
EXTENDS Sequences

\* A parameter of a path.
Any == ":"

\* The callers that the guards of a handler let through: without a guard,
\* with JwtAuthGuard alone, with RolesGuard and the roles it is given.
Anyone == {"nobody", "VIEWER", "EDITOR", "ADMIN"}
Users  == {"VIEWER", "EDITOR", "ADMIN"}
Staff  == {"EDITOR", "ADMIN"}
Admins == {"ADMIN"}

Row(verb, path, callers, handler) ==
  [verb |-> verb, path |-> path, callers |-> callers, handler |-> handler]

Get(path, callers, handler)    == Row("GET", path, callers, handler)
Post(path, callers, handler)   == Row("POST", path, callers, handler)
Put(path, callers, handler)    == Row("PUT", path, callers, handler)
Delete(path, callers, handler) == Row("DELETE", path, callers, handler)

\* The rows of a controller below one of its base paths.
Under(controller, base, rows) ==
  [i \in DOMAIN rows |->
     [rows[i] EXCEPT !.path = base \o @, !.handler = <<controller, @>>]]

-----------------------------------------------------------------------------
\* AuthController, under /auth.
AuthRoutes == <<
  Post(<<"login">>, Anyone, "login"),
  Post(<<"register">>, Anyone, "register"),
  Post(<<"logout">>, Users, "logout"),
  Post(<<"refresh">>, Anyone, "refreshToken"),
  Post(<<"forgot-password">>, Anyone, "forgotPassword"),
  Post(<<"reset-password">>, Anyone, "resetPassword"),
  Post(<<"change-password">>, Users, "changePassword"),
  Get(<<"verify-email", Any>>, Anyone, "verifyEmail"),
  Post(<<"resend-verification">>, Anyone, "resendVerificationEmail") >>

SessionRoutes == <<
  Get(<<"me">>, Users, "getCurrentUser"),
  Get(<<"sessions">>, Users, "getUserSessions"),
  Post(<<"sessions", Any, "revoke">>, Users, "revokeSession"),
  Post(<<"sessions", "revoke-all">>, Users, "revokeAllSessions") >>

-----------------------------------------------------------------------------
\* UsersController, under /users.
UserRoutes == <<
  Get(<<"profile">>, Users, "getCurrentUserProfile"),
  Put(<<"profile">>, Users, "updateCurrentUserProfile"),
  Get(<<"activity">>, Staff, "getRecentActivity"),
  Get(<<"active">>, Staff, "getActiveUsers"),
  Get(<<"role", Any>>, Staff, "getUsersByRole") >>

-----------------------------------------------------------------------------
\* AdminUserController, under /admin/users.
AdminUserRoutes == <<
  Get(<<"statistics">>, Admins, "getUserStatistics"),
  Get(<<"activity">>, Admins, "getRecentActivity"),
  Get(<<"export">>, Admins, "exportUsers"),
  Get(<<Any>>, Admins, "getUserById"),
  Get(<<>>, Admins, "getUsersWithPagination"),
  Post(<<>>, Admins, "createUser"),
  Put(<<Any>>, Admins, "updateUser"),
  Delete(<<Any>>, Admins, "deleteUser"),
  Post(<<Any, "activate">>, Admins, "activateUser"),
  Post(<<Any, "deactivate">>, Admins, "deactivateUser") >>

AdminUserBulkRoutes == <<
  Put(<<Any, "role">>, Admins, "updateUserRole"),
  Post(<<"import">>, Admins, "importUsers"),
  Post(<<"bulk-activate">>, Admins, "bulkActivate"),
  Post(<<"bulk-deactivate">>, Admins, "bulkDeactivate"),
  Post(<<"bulk-delete">>, Admins, "bulkDelete"),
  Put(<<Any, "password">>, Admins, "resetUserPassword") >>

AdminUserMailRoutes == <<
  Put(<<Any, "email-verification">>, Admins, "updateEmailVerification"),
  Put(<<Any, "profile">>, Admins, "updateUserProfile"),
  Post(<<Any, "send-verification-email">>, Admins, "sendVerificationEmail"),
  Post(<<Any, "send-password-reset">>, Admins, "sendPasswordResetEmail") >>

-----------------------------------------------------------------------------
\* CategoryController, under /categories.
CategoryRoutes == <<
  Get(<<>>, Anyone, "getAllCategories"),
  Get(<<"tree">>, Anyone, "getCategoryTree"),
  Get(<<"active">>, Anyone, "getActiveCategories"),
  Get(<<Any>>, Anyone, "getCategoryBySlug") >>

-----------------------------------------------------------------------------
\* AdminCategoryController, under /admin/categories.
AdminCategoryRoutes == <<
  Get(<<>>, Staff, "getAllCategories"),
  Get(<<"available-parents">>, Staff, "getAvailableParentCategories"),
  Get(<<"available-parents", Any>>, Staff, "getAvailableParentCategoriesForCategory"),
  Get(<<"statistics">>, Staff, "getCategoryStatistics"),
  Post(<<>>, Staff, "createCategory"),
  Put(<<"reorder">>, Staff, "reorderCategories"),
  Get(<<Any>>, Staff, "getCategoryById"),
  Put(<<Any>>, Staff, "updateCategory"),
  Delete(<<Any>>, Admins, "deleteCategory") >>

-----------------------------------------------------------------------------
\* ContentController, under /content, /contents.
ContentRoutes == <<
  Get(<<>>, Anyone, "getAllContent"),
  Get(<<"featured">>, Anyone, "getFeaturedContent"),
  Get(<<"search">>, Anyone, "searchContent"),
  Get(<<Any>>, Anyone, "getContentBySlug"),
  Get(<<"category", Any>>, Anyone, "getContentByCategory"),
  Get(<<Any, Any>>, Anyone, "getContentByCategoryAndSlug") >>

ContentAttachmentLists == <<
  Get(<<Any, "attachments">>, Anyone, "getAttachmentsByContent") >>

-----------------------------------------------------------------------------
\* AdminContentController, under /admin/content, /admin/contents.
AdminContentRoutes == <<
  Get(<<>>, Staff, "getAllContent"),
  Get(<<"statistics">>, Staff, "getContentStatistics"),
  Get(<<Any>>, Staff, "getContentById"),
  Post(<<>>, Staff, "createContent"),
  Put(<<Any>>, Staff, "updateContent"),
  Delete(<<Any>>, Staff, "deleteContent") >>

AdminContentPublication == <<
  Post(<<Any, "publish">>, Staff, "publishContent") >>

-----------------------------------------------------------------------------
\* ContentAttachmentController, under /attachments, /content/attachments, /admin/contents.
AttachmentReads == <<
  Get(<<"health">>, Staff, "healthCheck"),
  Get(<<"content", Any, "attachments">>, Staff, "getAttachmentsByContent"),
  Get(<<Any, "attachments">>, Staff, "getAttachmentsByContent"),
  Get(<<"content", Any, "attachments", "with-presigned-urls">>, Staff, "getAttachmentsWithPresignedUrls"),
  Get(<<Any, "attachments", "with-presigned-urls">>, Staff, "getAttachmentsWithPresignedUrls"),
  Get(<<"statistics">>, Staff, "getAttachmentStatistics") >>

AttachmentUploads == <<
  Put(<<"reorder">>, Staff, "reorderAttachments"),
  Get(<<Any>>, Staff, "getAttachmentById"),
  Post(<<>>, Staff, "uploadAttachment"),
  Post(<<Any, "attachments">>, Staff, "uploadAttachmentForContent") >>

AttachmentChanges == <<
  Put(<<Any>>, Staff, "updateAttachment"),
  Delete(<<Any>>, Staff, "deleteAttachment"),
  Put(<<Any, "attachments", Any>>, Staff, "updateAttachmentForContent"),
  Delete(<<Any, "attachments", Any>>, Staff, "deleteAttachmentForContent") >>

AttachmentDownloads == <<
  Get(<<Any, "download">>, Staff, "downloadAttachment"),
  Get(<<Any, "presigned-url">>, Staff, "getPresignedUrl") >>

-----------------------------------------------------------------------------
\* MediaController, under /media.
MediaUpload == <<
  Post(<<"upload">>, Users, "uploadFile") >>

MediaReads == <<
  Post(<<"bulk-upload">>, Users, "uploadFiles"),
  Get(<<>>, Users, "getAllMedia"),
  Get(<<"public">>, Anyone, "getPublicMedia"),
  Get(<<"library">>, Users, "getMediaLibrary") >>

AlbumRoutes == <<
  Get(<<"albums">>, Anyone, "getAlbums"),
  Post(<<"albums">>, Users, "createAlbum"),
  Get(<<"albums", Any>>, Anyone, "getAlbumById"),
  Put(<<"albums", Any>>, Users, "updateAlbum"),
  Delete(<<"albums", Any>>, Users, "deleteAlbum"),
  Post(<<"albums", Any, "media">>, Users, "attachMedia"),
  Delete(<<"albums", Any, "media", Any>>, Users, "detachMedia"),
  Get(<<"albums", Any, "media">>, Anyone, "listAlbumMedia") >>

MediaQueries == <<
  Get(<<"statistics">>, Staff, "getMediaStatistics"),
  Get(<<"category", Any>>, Users, "getMediaByCategory"),
  Get(<<"folder", Any>>, Users, "getMediaByFolder"),
  Get(<<"user", Any>>, Users, "getMediaByUser"),
  Get(<<"my-media">>, Users, "getMyMedia"),
  Get(<<"search">>, Users, "searchMedia"),
  Get(<<"tags">>, Users, "getMediaByTags"),
  Get(<<"public", "gallery">>, Anyone, "getPublicGalleryPhotos"),
  Get(<<Any>>, Users, "getMediaById") >>

MediaUrls == <<
  Get(<<Any, "url">>, Users, "getMediaUrl"),
  Get(<<Any, "presigned-url">>, Users, "getPresignedUrl") >>

MediaChanges == <<
  Put(<<Any>>, Users, "updateMedia"),
  Put(<<Any, "file">>, Users, "replaceMediaFile"),
  Post(<<Any, "process">>, Users, "processMedia"),
  Delete(<<Any>>, Users, "deleteMedia") >>

MediaBulkRoutes == <<
  Post(<<"bulk-delete">>, Staff, "bulkDelete"),
  Post(<<"bulk-update">>, Staff, "bulkUpdate"),
  Post(<<"import">>, Staff, "importMedia"),
  Post(<<"export">>, Staff, "exportMedia"),
  Post(<<"cleanup">>, Admins, "cleanupOrphanedMedia"),
  Get(<<"file-types", "config">>, Anyone, "getFileTypesConfig"),
  Get(<<"folders", "list">>, Anyone, "getFoldersList"),
  Get(<<"categories", "list">>, Anyone, "getCategoriesList") >>

-----------------------------------------------------------------------------
\* OfficeSettingsController, under /office-settings.
OfficeSettingsRoutes == <<
  Get(<<>>, Anyone, "getOfficeSettings"),
  Get(<<"seo">>, Anyone, "getOfficeSettingsForSEO"),
  Post(<<>>, Admins, "createOfficeSettings"),
  Put(<<"upsert">>, Admins, "upsertOfficeSettings"),
  Put(<<Any>>, Admins, "updateOfficeSettings"),
  Get(<<Any>>, Admins, "getOfficeSettingsById"),
  Delete(<<Any>>, Admins, "deleteOfficeSettings") >>

BackgroundPhotoRoutes == <<
  Post(<<Any, "background-photo">>, Admins, "updateBackgroundPhoto"),
  Delete(<<Any, "background-photo">>, Admins, "removeBackgroundPhoto") >>

-----------------------------------------------------------------------------
\* OfficeDescriptionController, under /office-descriptions.
OfficeDescriptionRoutes == <<
  Get(<<>>, Anyone, "getAllOfficeDescriptions"),
  Get(<<"types">>, Anyone, "getOfficeDescriptionTypes"),
  Get(<<"type", Any>>, Anyone, "getOfficeDescriptionByType"),
  Get(<<"introduction">>, Anyone, "getOfficeIntroduction"),
  Get(<<"objective">>, Anyone, "getOfficeObjective"),
  Get(<<"work-details">>, Anyone, "getOfficeWorkDetails"),
  Get(<<"organizational-structure">>, Anyone, "getOrganizationalStructure"),
  Get(<<"digital-charter">>, Anyone, "getDigitalCharter"),
  Get(<<"employee-sanctions">>, Anyone, "getEmployeeSanctions"),
  Get(<<Any>>, Anyone, "getOfficeDescriptionById") >>

-----------------------------------------------------------------------------
\* AdminOfficeDescriptionController, under /admin/office-descriptions.
AdminOfficeDescriptionRoutes == <<
  Get(<<>>, Staff, "getAllOfficeDescriptions"),
  Get(<<"statistics">>, Staff, "getOfficeDescriptionStatistics"),
  Get(<<"export">>, Staff, "exportOfficeDescriptions"),
  Get(<<Any>>, Staff, "getOfficeDescriptionById"),
  Post(<<>>, Staff, "createOfficeDescription"),
  Put(<<"bulk-update">>, Staff, "bulkUpdateOfficeDescriptions"),
  Put(<<"import">>, Staff, "importOfficeDescriptions"),
  Put(<<Any>>, Staff, "updateOfficeDescription"),
  Put(<<"type", Any, "upsert">>, Staff, "upsertOfficeDescriptionByType"),
  Delete(<<Any>>, Admins, "deleteOfficeDescription"),
  Delete(<<"type", Any>>, Admins, "deleteOfficeDescriptionByType"),
  Post(<<"bulk-create">>, Staff, "bulkCreateOfficeDescriptions") >>

-----------------------------------------------------------------------------
\* ImportantLinksController, under /important-links.
ImportantLinkRoutes == <<
  Get(<<>>, Anyone, "getAllImportantLinks"),
  Get(<<"pagination">>, Anyone, "getImportantLinksWithPagination"),
  Get(<<"footer">>, Anyone, "getFooterLinks"),
  Get(<<"active">>, Anyone, "getActiveImportantLinks"),
  Get(<<Any>>, Anyone, "getImportantLinkById") >>

-----------------------------------------------------------------------------
\* AdminImportantLinksController, under /admin/important-links.
AdminLinkReads == <<
  Get(<<>>, Staff, "getAllImportantLinks"),
  Get(<<"pagination">>, Staff, "getImportantLinksWithPagination"),
  Get(<<"statistics">>, Staff, "getImportantLinksStatistics"),
  Get(<<"search">>, Staff, "searchImportantLinks"),
  Get(<<"export">>, Staff, "exportImportantLinks"),
  Get(<<Any>>, Staff, "getImportantLinkById") >>

AdminLinkWrites == <<
  Post(<<>>, Staff, "createImportantLink"),
  Put(<<Any>>, Staff, "updateImportantLink"),
  Delete(<<Any>>, Admins, "deleteImportantLink"),
  Post(<<"reorder">>, Staff, "reorderImportantLinks"),
  Post(<<"bulk-create">>, Staff, "bulkCreateImportantLinks"),
  Put(<<"bulk-update">>, Staff, "bulkUpdateImportantLinks"),
  Post(<<"import">>, Staff, "importImportantLinks") >>

-----------------------------------------------------------------------------
\* FAQController, under /faq.
FAQLists == <<
  Get(<<>>, Anyone, "getAllFAQs"),
  Get(<<"paginated">>, Anyone, "getFAQsWithPagination"),
  Get(<<"search">>, Anyone, "searchFAQs"),
  Get(<<"random">>, Anyone, "getRandomFAQs") >>

FAQReads == <<
  Get(<<"popular">>, Anyone, "getPopularFAQs"),
  Get(<<"active">>, Anyone, "getActiveFAQs"),
  Get(<<Any>>, Anyone, "getFAQById") >>

-----------------------------------------------------------------------------
\* AdminFAQController, under /admin/faq.
AdminFAQReads == <<
  Get(<<>>, Staff, "getAllFAQs"),
  Get(<<"paginated">>, Staff, "getFAQsWithPagination"),
  Get(<<"statistics">>, Staff, "getFAQStatistics"),
  Get(<<"search">>, Staff, "searchFAQs"),
  Get(<<Any>>, Staff, "getFAQById") >>

AdminFAQWrites == <<
  Post(<<>>, Staff, "createFAQ"),
  Put(<<Any>>, Staff, "updateFAQ"),
  Delete(<<Any>>, Admins, "deleteFAQ"),
  Post(<<"reorder">>, Staff, "reorderFAQs"),
  Post(<<"bulk-create">>, Staff, "bulkCreateFAQs") >>

AdminFAQBulkRoutes == <<
  Put(<<"bulk-update">>, Staff, "bulkUpdateFAQs"),
  Post(<<"import">>, Admins, "importFAQs"),
  Get(<<"export", "all">>, Staff, "exportFAQs") >>

-----------------------------------------------------------------------------
\* PublicSearchController, under /search.
SearchRoutes == <<
  Get(<<>>, Anyone, "search"),
  Post(<<"advanced">>, Anyone, "advancedSearch"),
  Get(<<"suggestions">>, Anyone, "getSearchSuggestions"),
  Get(<<"popular">>, Anyone, "getPopularSearches"),
  Get(<<"history">>, Anyone, "getSearchHistory") >>

-----------------------------------------------------------------------------
\* AdminSearchController, under /admin/search.
ReindexRoutes == <<
  Get(<<"analytics">>, Anyone, "getSearchAnalytics"),
  Get(<<"statistics">>, Anyone, "getSearchStatistics"),
  Post(<<"reindex", Any, Any>>, Anyone, "reindexContent"),
  Post(<<"bulk-reindex">>, Anyone, "bulkReindex"),
  Post(<<"optimize">>, Anyone, "optimizeIndex") >>

SearchIndexRoutes == <<
  Delete(<<"cache">>, Anyone, "clearSearchCache"),
  Get(<<"export">>, Anyone, "exportSearchData"),
  Get(<<"search-indices", Any>>, Anyone, "getIndexById"),
  Post(<<"search-indices">>, Anyone, "createIndex"),
  Put(<<"search-indices", Any>>, Anyone, "updateIndex"),
  Delete(<<"search-indices", Any>>, Anyone, "deleteIndex") >>

SearchIndexTools == <<
  Get(<<"search-indices", "statistics">>, Anyone, "getIndexStatistics"),
  Get(<<"search-indices", "export">>, Anyone, "exportIndices"),
  Post(<<"search-indices", "import">>, Anyone, "importIndices") >>

SuggestionRoutes == <<
  Get(<<"search-suggestions", Any>>, Anyone, "getSuggestionById"),
  Post(<<"search-suggestions">>, Anyone, "createSuggestion"),
  Put(<<"search-suggestions", Any>>, Anyone, "updateSuggestion"),
  Delete(<<"search-suggestions", Any>>, Anyone, "deleteSuggestion") >>

SuggestionTools == <<
  Get(<<"search-suggestions", "statistics">>, Anyone, "getSuggestionStatistics"),
  Get(<<"search-suggestions", "export">>, Anyone, "exportSuggestions"),
  Post(<<"search-suggestions", "import">>, Anyone, "importSuggestions") >>

-----------------------------------------------------------------------------
\* PublicDocumentController, under /documents.
DocumentLists == <<
  Get(<<>>, Anyone, "getAllDocuments"),
  Get(<<"type", Any>>, Anyone, "getDocumentsByType"),
  Get(<<"category", Any>>, Anyone, "getDocumentsByCategory"),
  Get(<<"search">>, Anyone, "searchDocuments"),
  Get(<<"pdfs">>, Anyone, "getPdfDocuments") >>

DocumentsOfType == <<
  Get(<<"forms">>, Anyone, "getFormDocuments"),
  Get(<<"policies">>, Anyone, "getPolicyDocuments"),
  Get(<<"reports">>, Anyone, "getReportDocuments"),
  Get(<<Any>>, Anyone, "getDocumentById") >>

DocumentDownloads == <<
  Get(<<Any, "download">>, Anyone, "downloadDocument"),
  Get(<<Any, "url">>, Anyone, "getDocumentUrl"),
  Get(<<Any, "download-url">>, Anyone, "getDocumentDownloadUrl"),
  Get(<<Any, "preview-url">>, Anyone, "getDocumentPreviewUrl") >>

-----------------------------------------------------------------------------
\* AdminDocumentController, under /admin/documents.
AdminDocumentReads == <<
  Get(<<>>, Staff, "getAllDocuments"),
  Get(<<"statistics">>, Staff, "getDocumentStatistics"),
  Get(<<"search">>, Staff, "searchDocuments"),
  Get(<<"type", Any>>, Staff, "getDocumentsByType"),
  Get(<<"category", Any>>, Staff, "getDocumentsByCategory") >>

AdminDocumentWrites == <<
  Post(<<"upload">>, Staff, "uploadDocument"),
  Put(<<"bulk-update">>, Staff, "bulkUpdate"),
  Put(<<Any>>, Staff, "updateDocument"),
  Delete(<<Any>>, Admins, "deleteDocument") >>

AdminDocumentVersions == <<
  Post(<<Any, "versions">>, Staff, "createDocumentVersion"),
  Get(<<Any, "versions">>, Staff, "getDocumentVersions"),
  Get(<<Any, "analytics">>, Staff, "getDocumentAnalytics"),
  Get(<<"export">>, Staff, "exportDocuments") >>

AdminDocumentTools == <<
  Get(<<Any>>, Staff, "getDocumentById"),
  Post(<<"import">>, Admins, "importDocuments"),
  Post(<<"bulk-delete">>, Admins, "bulkDelete"),
  Get(<<Any, "download-url">>, Staff, "getDocumentDownloadUrl"),
  Post(<<"bulk-download-urls">>, Staff, "generateBulkDownloadUrls"),
  Get(<<Any, "preview-url">>, Staff, "getDocumentPreviewUrl"),
  Post(<<"upload-url">>, Staff, "generateUploadUrl") >>

-----------------------------------------------------------------------------
\* PublicHeaderController, under /header-configs.
HeaderRoutes == <<
  Get(<<>>, Anyone, "getAllHeaderConfigs"),
  Get(<<Any>>, Anyone, "getHeaderConfigById"),
  Get(<<"display", "active">>, Anyone, "getActiveHeaderConfigForDisplay"),
  Get(<<"order", Any>>, Anyone, "getHeaderConfigByOrder"),
  Get(<<Any, "css">>, Anyone, "getHeaderCSS") >>

HeaderPreview == <<
  Post(<<"preview">>, Anyone, "previewHeaderConfig") >>

-----------------------------------------------------------------------------
\* AdminHeaderController, under /admin/header-configs.
AdminHeaderReads == <<
  Get(<<>>, Staff, "getAllHeaderConfigs"),
  Get(<<"statistics">>, Staff, "getHeaderConfigStatistics"),
  Get(<<"search">>, Staff, "searchHeaderConfigs"),
  Get(<<Any>>, Staff, "getHeaderConfigById") >>

AdminHeaderWrites == <<
  Post(<<>>, Staff, "createHeaderConfig"),
  Put(<<Any>>, Staff, "updateHeaderConfig"),
  Delete(<<Any>>, Admins, "deleteHeaderConfig"),
  Post(<<Any, "delete">>, Admins, "deleteHeaderConfigFallback"),
  Post(<<Any, "publish">>, Staff, "publishHeaderConfig"),
  Post(<<Any>>, Admins, "deleteHeaderConfigViaMethodOverride"),
  Post(<<Any, "unpublish">>, Staff, "unpublishHeaderConfig"),
  Post(<<"reorder">>, Staff, "reorderHeaderConfigs") >>

AdminHeaderLogo == <<
  Post(<<Any, "logo", Any, "upload">>, Staff, "uploadLogo") >>

AdminHeaderTools == <<
  Delete(<<Any, "logo", Any>>, Staff, "removeLogo"),
  Get(<<"export">>, Staff, "exportHeaderConfigs"),
  Post(<<"import">>, Admins, "importHeaderConfigs"),
  Post(<<"bulk-publish">>, Staff, "bulkPublish"),
  Post(<<"bulk-unpublish">>, Staff, "bulkUnpublish"),
  Post(<<"bulk-delete">>, Admins, "bulkDelete"),
  Get(<<Any, "css">>, Staff, "generateCSS") >>

-----------------------------------------------------------------------------
\* PublicDepartmentController, under /departments.
\* Mutant: the handler of one department stands above the fixed paths.
DepartmentRoutesIdFirst == <<
  Get(<<>>, Anyone, "getAllDepartments"),
  Get(<<Any>>, Anyone, "getDepartmentById"),
  Get(<<"hierarchy">>, Anyone, "getDepartmentHierarchy"),
  Get(<<"with-employees">>, Anyone, "getDepartmentsWithEmployeesOrdered"),
  Get(<<"search">>, Anyone, "searchDepartments") >>

DepartmentRoutes == <<
  Get(<<>>, Anyone, "getAllDepartments"),
  Get(<<"hierarchy">>, Anyone, "getDepartmentHierarchy"),
  Get(<<"with-employees">>, Anyone, "getDepartmentsWithEmployeesOrdered"),
  Get(<<"search">>, Anyone, "searchDepartments"),
  Get(<<Any>>, Anyone, "getDepartmentById") >>

-----------------------------------------------------------------------------
\* PublicEmployeeController, under /employees.
EmployeeLists == <<
  Get(<<>>, Anyone, "getAllEmployees"),
  Get(<<"search">>, Anyone, "searchEmployees"),
  Get(<<"department", Any>>, Anyone, "getEmployeesByDepartment"),
  Get(<<"position", Any>>, Anyone, "getEmployeesByPosition"),
  Get(<<"with-position">>, Anyone, "getEmployeesWithPosition"),
  Get(<<"position", Any, "with-details">>, Anyone, "getEmployeesByPositionDetailed") >>

EmployeePhotoRoutes == <<
  Get(<<"photos">>, Anyone, "getAllEmployeePhotos"),
  Get(<<"photos", "search">>, Anyone, "searchEmployeePhotos"),
  Get(<<"photos", "active">>, Anyone, "getActiveEmployeePhotos"),
  Get(<<"photos", "statistics">>, Anyone, "getEmployeePhotoStatistics"),
  Get(<<"department", Any, "photos">>, Anyone, "getEmployeePhotosByDepartment"),
  Get(<<"position", Any, "photos">>, Anyone, "getEmployeePhotosByPosition") >>

EmployeeDetails == <<
  Get(<<"positions", "summary">>, Anyone, "getPositionSummary"),
  Get(<<"with-details-and-photos">>, Anyone, "getEmployeesWithDetailsAndPhotos"),
  Get(<<"position", Any, "with-details-and-photos">>, Anyone, "getEmployeesByPositionWithDetailsAndPhotos"),
  Get(<<Any, "with-details-and-photo">>, Anyone, "getEmployeeWithDetailsAndPhoto"),
  Get(<<Any>>, Anyone, "getEmployeeById"),
  Get(<<Any, "photo">>, Anyone, "getEmployeePhoto"),
  Get(<<"homepage", "all">>, Anyone, "getHomepageEmployees"),
  Get(<<"homepage", "up">>, Anyone, "getHomepageUpSection"),
  Get(<<"homepage", "down">>, Anyone, "getHomepageDownSection") >>

-----------------------------------------------------------------------------
\* AdminDepartmentController, under /admin/departments.
AdminDepartmentReads == <<
  Get(<<>>, Staff, "getAllDepartments"),
  Get(<<"statistics">>, Staff, "getHRStatistics"),
  Get(<<"hierarchy">>, Staff, "getDepartmentHierarchy"),
  Get(<<"search">>, Staff, "searchDepartments") >>

AdminDepartmentWrites == <<
  Get(<<"export">>, Staff, "exportDepartments"),
  Get(<<Any>>, Staff, "getDepartmentById"),
  Post(<<>>, Staff, "createDepartment"),
  Put(<<Any>>, Staff, "updateDepartment") >>

AdminDepartmentImport == <<
  Delete(<<Any>>, Admins, "deleteDepartment"),
  Post(<<"import">>, Admins, "importDepartments") >>

AdminDepartmentBulk == <<
  Post(<<"bulk-activate">>, Staff, "bulkActivate"),
  Post(<<"bulk-deactivate">>, Staff, "bulkDeactivate"),
  Post(<<"bulk-delete">>, Admins, "bulkDelete") >>

-----------------------------------------------------------------------------
\* AdminEmployeeController, under /admin/employees.
AdminEmployeeLists == <<
  Get(<<>>, Staff, "getAllEmployees"),
  Get(<<"search">>, Staff, "searchEmployees"),
  Get(<<"department", Any>>, Staff, "getEmployeesByDepartment"),
  Get(<<"position", Any>>, Staff, "getEmployeesByPosition"),
  Get(<<"with-position">>, Staff, "getEmployeesWithPosition") >>

AdminEmployeeReads == <<
  Get(<<"position", Any, "with-details">>, Staff, "getEmployeesByPositionDetailed"),
  Get(<<Any>>, Staff, "getEmployeeById"),
  Get(<<Any, "photo">>, Staff, "getEmployeePhoto"),
  Get(<<"photos">>, Staff, "getAllEmployeePhotos") >>

AdminEmployeePhotoReads == <<
  Get(<<"photos", "search">>, Staff, "searchEmployeePhotos"),
  Get(<<"photos", "statistics">>, Staff, "getEmployeePhotoStatistics"),
  Get(<<"department", Any, "photos">>, Staff, "getEmployeePhotosByDepartment"),
  Get(<<"position", Any, "photos">>, Staff, "getEmployeePhotosByPosition"),
  Get(<<"photos", "export">>, Staff, "exportEmployeePhotos") >>

AdminEmployeeWrites == <<
  Post(<<>>, Staff, "createEmployee"),
  Put(<<Any>>, Staff, "updateEmployee"),
  Delete(<<Any>>, Admins, "deleteEmployee"),
  Post(<<Any, "photo">>, Staff, "uploadEmployeePhoto") >>

AdminEmployeePhotoRemoval == <<
  Delete(<<Any, "photo">>, Staff, "removeEmployeePhoto"),
  Post(<<"debug-form-data">>, Staff, "debugFormData") >>

AdminEmployeePhotoWrites == <<
  Post(<<"upload-with-employee">>, Staff, "createEmployeeWithImage"),
  Put(<<Any, "photo">>, Staff, "replaceEmployeePhoto") >>

AdminEmployeeTools == <<
  Get(<<"export">>, Staff, "exportEmployees"),
  Post(<<"import">>, Admins, "importEmployees"),
  Post(<<"bulk-activate">>, Staff, "bulkActivate"),
  Post(<<"bulk-deactivate">>, Staff, "bulkDeactivate") >>

AdminEmployeeBulk == <<
  Post(<<"bulk-delete">>, Admins, "bulkDelete"),
  Post(<<"bulk-remove-photos">>, Staff, "bulkRemovePhotos"),
  Get(<<Any, "photo", "analytics">>, Staff, "getEmployeePhotoAnalytics"),
  Get(<<"photos", "active">>, Staff, "getActiveEmployeePhotos"),
  Get(<<"positions", "summary">>, Staff, "getPositionSummary") >>

AdminEmployeeDetails == <<
  Get(<<"with-details-and-photos">>, Staff, "getEmployeesWithDetailsAndPhotos"),
  Get(<<"position", Any, "with-details-and-photos">>, Staff, "getEmployeesByPositionWithDetailsAndPhotos"),
  Get(<<Any, "with-details-and-photo">>, Staff, "getEmployeeWithDetailsAndPhoto"),
  Get(<<"homepage", "all">>, Staff, "getHomepageEmployees") >>

AdminEmployeeHomepage == <<
  Get(<<"homepage", "up">>, Staff, "getHomepageUpSection"),
  Get(<<"homepage", "down">>, Staff, "getHomepageDownSection") >>

-----------------------------------------------------------------------------
\* AdminHRController, under /admin/hr.
AdminHRRoutes == <<
  Get(<<"statistics">>, Staff, "getHRStatistics") >>

-----------------------------------------------------------------------------
\* PublicNavigationController, under /.
MenuRoutes == <<
  Get(<<"menus">>, Anyone, "getAllMenus"),
  Get(<<"menus", Any>>, Anyone, "getMenuById"),
  Get(<<"menus", "location", Any>>, Anyone, "getMenuByLocation"),
  Get(<<"menus", Any, "tree">>, Anyone, "getMenuTree"),
  Get(<<"menu-items">>, Anyone, "getAllMenuItems"),
  Get(<<"menu-items", "search">>, Anyone, "searchMenuItems"),
  Get(<<"menu-items", "menu", Any>>, Anyone, "getMenuItemsByMenu"),
  Get(<<"menu-items", Any, "breadcrumb">>, Anyone, "getBreadcrumb"),
  Get(<<"menu-items", Any>>, Anyone, "getMenuItemById") >>

NavigationContentRoutes == <<
  Get(<<"content", "category", Any>>, Anyone, "getCategoryWithContent"),
  Get(<<"content", Any>>, Anyone, "getContentBySlug"),
  Get(<<"content", Any, Any>>, Anyone, "getContentByCategoryAndSlug") >>

NavigationCategoryRoutes == <<
  Get(<<"categories">>, Anyone, "getAllCategories"),
  Get(<<"categories", Any>>, Anyone, "getCategoryBySlugOnly"),
  Get(<<"content", "search">>, Anyone, "searchContent") >>

-----------------------------------------------------------------------------
\* AdminNavigationController, under /admin.
AdminMenuRoutes == <<
  Get(<<"test">>, Users, "test"),
  Get(<<"menus">>, Staff, "getAllMenus"),
  Get(<<"menus", "export">>, Staff, "exportMenus"),
  Post(<<"menus", "import">>, Admins, "importMenus"),
  Post(<<"menus", "bulk-publish">>, Staff, "bulkPublishMenus"),
  Post(<<"menus", "bulk-unpublish">>, Staff, "bulkUnpublishMenus"),
  Delete(<<"menus", "bulk-delete">>, Admins, "bulkDeleteMenus"),
  Get(<<"menus", Any>>, Staff, "getMenuById"),
  Post(<<"menus">>, Staff, "createMenu"),
  Put(<<"menus", Any>>, Staff, "updateMenu"),
  Delete(<<"menus", Any>>, Admins, "deleteMenu") >>

AdminMenuItemRoutes == <<
  Post(<<"menus", Any, "publish">>, Staff, "publishMenu"),
  Post(<<"menus", Any, "unpublish">>, Staff, "unpublishMenu"),
  Get(<<"menu-items">>, Staff, "getAllMenuItems"),
  Get(<<"menu-items", "export">>, Staff, "exportMenuItems"),
  Post(<<"menu-items", "import">>, Admins, "importMenuItems"),
  Put(<<"menu-items", "reorder">>, Staff, "reorderMenuItems"),
  Put(<<"menus", "reorder">>, Staff, "reorderMenus"),
  Get(<<"menu-items", Any>>, Staff, "getMenuItemById"),
  Post(<<"menu-items">>, Staff, "createMenuItem"),
  Put(<<"menu-items", Any>>, Staff, "updateMenuItem"),
  Delete(<<"menu-items", Any>>, Admins, "deleteMenuItem") >>

MenuContentRoutes == <<
  Get(<<"categories", "for-menu">>, Staff, "getCategoriesForMenu"),
  Get(<<"content", "by-category", Any>>, Staff, "getContentByCategory"),
  Get(<<"content", "search">>, Staff, "searchContentForMenu") >>

-----------------------------------------------------------------------------
\* PublicSliderController, under /sliders.
SliderRoutes == <<
  Get(<<>>, Anyone, "getAllSliders"),
  Get(<<"display", "active">>, Anyone, "getActiveSlidersForDisplay"),
  Get(<<Any>>, Anyone, "getSliderById"),
  Get(<<"position", Any>>, Anyone, "getSlidersByPosition"),
  Post(<<Any, "click">>, Anyone, "recordSliderClick"),
  Post(<<Any, "view">>, Anyone, "recordSliderView") >>

-----------------------------------------------------------------------------
\* AdminSliderController, under /admin/sliders.
AdminSliderRoutes == <<
  Get(<<>>, Staff, "getAllSliders"),
  Get(<<"statistics">>, Staff, "getSliderStatistics"),
  Get(<<"search">>, Staff, "searchSliders"),
  Get(<<Any>>, Staff, "getSliderById"),
  Post(<<>>, Staff, "createSlider"),
  Put(<<Any>>, Staff, "updateSlider"),
  Delete(<<Any>>, Admins, "deleteSlider"),
  Post(<<Any, "publish">>, Staff, "publishSlider") >>

AdminSliderTools == <<
  Post(<<Any, "unpublish">>, Staff, "unpublishSlider"),
  Put(<<"reorder">>, Staff, "reorderSliders"),
  Get(<<Any, "analytics">>, Staff, "getSliderAnalytics"),
  Get(<<"export">>, Staff, "exportSliders"),
  Post(<<"import">>, Admins, "importSliders"),
  Post(<<"bulk-publish">>, Staff, "bulkPublish"),
  Post(<<"bulk-unpublish">>, Staff, "bulkUnpublish"),
  Post(<<"bulk-delete">>, Admins, "bulkDelete") >>

SliderImageRoutes == <<
  Post(<<Any, "image">>, Staff, "uploadSliderImage"),
  Delete(<<Any, "image">>, Staff, "removeSliderImage"),
  Post(<<"upload-with-slider">>, Staff, "createSliderWithImage") >>

-----------------------------------------------------------------------------
\* AdminDashboardController, under /admin/dashboard.
DashboardReads == <<
  Get(<<"overview">>, Admins, "getDashboardOverview"),
  Get(<<"overview", Any>>, Admins, "getRoleBasedDashboard"),
  Get(<<"config", Any>>, Admins, "getDashboardConfig"),
  Put(<<"config", Any>>, Admins, "updateDashboardConfig"),
  Get(<<"widget", Any>>, Admins, "getWidgetData"),
  Get(<<"export">>, Admins, "exportDashboard"),
  Get(<<"cache", "stats">>, Admins, "getCacheStats") >>

DashboardTools == <<
  Post(<<"cache", "clear">>, Admins, "clearCache"),
  Post(<<"refresh">>, Admins, "refreshDashboard"),
  Get(<<"health">>, Admins, "getDashboardHealth"),
  Get(<<"system", "overview">>, Admins, "getSystemOverview") >>

DashboardAnalytics == <<
  Get(<<"content", "analytics">>, Admins, "getContentAnalytics"),
  Get(<<"users", "analytics">>, Admins, "getUserAnalytics"),
  Get(<<"hr", "analytics">>, Admins, "getHrAnalytics"),
  Get(<<"marketing", "analytics">>, Admins, "getMarketingAnalytics") >>

-----------------------------------------------------------------------------
\* HealthController, under /health.
HealthRoutes == <<
  Get(<<>>, Anyone, "check") >>
-----------------------------------------------------------------------------
\* The layers that Express tries, in their order.
Layers ==
  Under("AuthController", <<"auth">>, AuthRoutes \o SessionRoutes)
  \o Under("UsersController", <<"users">>, UserRoutes)
  \o Under("AdminUserController", <<"admin", "users">>, AdminUserRoutes
       \o AdminUserBulkRoutes \o AdminUserMailRoutes)
  \o Under("CategoryController", <<"categories">>, CategoryRoutes)
  \o Under("AdminCategoryController", <<"admin", "categories">>,
       AdminCategoryRoutes)
  \o Under("ContentController", <<"content">>, ContentRoutes
       \o ContentAttachmentLists)
  \o Under("ContentController", <<"contents">>, ContentRoutes
       \o ContentAttachmentLists)
  \o Under("AdminContentController", <<"admin", "content">>,
       AdminContentRoutes \o AdminContentPublication)
  \o Under("AdminContentController", <<"admin", "contents">>,
       AdminContentRoutes \o AdminContentPublication)
  \o Under("ContentAttachmentController", <<"attachments">>, AttachmentReads
       \o AttachmentUploads \o AttachmentChanges
       \o AttachmentDownloads)
  \o Under("ContentAttachmentController", <<"content", "attachments">>,
       AttachmentReads \o AttachmentUploads \o AttachmentChanges
       \o AttachmentDownloads)
  \o Under("ContentAttachmentController", <<"admin", "contents">>,
       AttachmentReads \o AttachmentUploads \o AttachmentChanges
       \o AttachmentDownloads)
  \o Under("MediaController", <<"media">>, MediaUpload \o MediaReads
       \o AlbumRoutes \o MediaQueries \o MediaUrls \o MediaChanges
       \o MediaBulkRoutes)
  \o Under("OfficeSettingsController", <<"office-settings">>,
       OfficeSettingsRoutes \o BackgroundPhotoRoutes)
  \o Under("OfficeDescriptionController", <<"office-descriptions">>,
       OfficeDescriptionRoutes)
  \o Under("AdminOfficeDescriptionController", <<"admin", "office-descriptions">>,
       AdminOfficeDescriptionRoutes)
  \o Under("ImportantLinksController", <<"important-links">>,
       ImportantLinkRoutes)
  \o Under("AdminImportantLinksController", <<"admin", "important-links">>,
       AdminLinkReads \o AdminLinkWrites)
  \o Under("FAQController", <<"faq">>, FAQLists \o FAQReads)
  \o Under("AdminFAQController", <<"admin", "faq">>, AdminFAQReads
       \o AdminFAQWrites \o AdminFAQBulkRoutes)
  \o Under("PublicSearchController", <<"search">>, SearchRoutes)
  \o Under("AdminSearchController", <<"admin", "search">>, ReindexRoutes
       \o SearchIndexRoutes \o SearchIndexTools \o SuggestionRoutes
       \o SuggestionTools)
  \o Under("PublicDocumentController", <<"documents">>, DocumentLists
       \o DocumentsOfType \o DocumentDownloads)
  \o Under("AdminDocumentController", <<"admin", "documents">>,
       AdminDocumentReads \o AdminDocumentWrites
       \o AdminDocumentVersions \o AdminDocumentTools)
  \o Under("PublicHeaderController", <<"header-configs">>, HeaderRoutes
       \o HeaderPreview)
  \o Under("AdminHeaderController", <<"admin", "header-configs">>,
       AdminHeaderReads \o AdminHeaderWrites \o AdminHeaderLogo
       \o AdminHeaderTools)
  \o Under("PublicDepartmentController", <<"departments">>, DepartmentRoutes)
  \o Under("PublicEmployeeController", <<"employees">>, EmployeeLists
       \o EmployeePhotoRoutes \o EmployeeDetails)
  \o Under("AdminDepartmentController", <<"admin", "departments">>,
       AdminDepartmentReads \o AdminDepartmentWrites
       \o AdminDepartmentImport \o AdminDepartmentBulk)
  \o Under("AdminEmployeeController", <<"admin", "employees">>,
       AdminEmployeeLists \o AdminEmployeeReads
       \o AdminEmployeePhotoReads \o AdminEmployeeWrites
       \o AdminEmployeePhotoRemoval \o AdminEmployeePhotoWrites
       \o AdminEmployeeTools \o AdminEmployeeBulk
       \o AdminEmployeeDetails \o AdminEmployeeHomepage)
  \o Under("AdminHRController", <<"admin", "hr">>, AdminHRRoutes)
  \o Under("PublicNavigationController", <<>>, MenuRoutes
       \o NavigationContentRoutes \o NavigationCategoryRoutes)
  \o Under("AdminNavigationController", <<"admin">>, AdminMenuRoutes
       \o AdminMenuItemRoutes \o MenuContentRoutes)
  \o Under("PublicSliderController", <<"sliders">>, SliderRoutes)
  \o Under("AdminSliderController", <<"admin", "sliders">>, AdminSliderRoutes
       \o AdminSliderTools \o SliderImageRoutes)
  \o Under("AdminDashboardController", <<"admin", "dashboard">>,
       DashboardReads \o DashboardTools \o DashboardAnalytics)
  \o Under("HealthController", <<"health">>, HealthRoutes)
=============================================================================
