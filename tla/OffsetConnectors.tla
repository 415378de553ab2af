-------------------------- MODULE OffsetConnectors --------------------------
(***************************************************************************)
(* The paged sources whose client counts pages or items, or continues at a   *)
(* time.  The loops are in the clients and helpers, the ranges in the adapters.*)
(***************************************************************************)
EXTENDS ConnectorFeatures

\* page numbers and offsets
FluxxPages == Paging("offset", "short", "raise")
FluxxResource ==
  FluxxPages @@ Listing("key", "updated", "none") @@ Whole("replace")
SocrataPages == Paging("offset", "short", "raise")
SocrataDataset ==
  SocrataPages @@ Listing("asc", "updated", "none") @@ Since("server", "ge", "open")
MailchimpPages == Paging("offset", "short", "raise")
MailchimpMerged ==
  MailchimpPages @@ Listing("key", "updated", "none") @@ Since("client", "ge", "open")
WisePages == Paging("offset", "empty", "raise")
WiseTransfers ==
  WisePages @@ Listing("key", "created", "fresh") @@ Since("server", "ge", "now")
DoceboPages == Paging("offset", "next", "raise")
DoceboUsers ==
  DoceboPages @@ Listing("key", "updated", "none") @@ Whole("replace")
DoceboCourseFields ==
  DoceboPages @@ Listing("key", "updated", "none") @@ Whole("replace")
DoceboPlans ==
  DoceboPages @@ Listing("key", "updated", "none") @@ Whole("replace")
DoceboCategories ==
  DoceboPages @@ Listing("key", "updated", "none") @@ Whole("replace")
PersonioPages == Paging("offset", "next", "raise")
PersonioEmployees ==
  PersonioPages @@ Listing("key", "updated", "none") @@ Since("server", "ge", "open")
PersonioAbsences ==
  PersonioPages @@ Listing("key", "updated", "none") @@ Since("server", "ge", "open")
PersonioProjects ==
  PersonioPages @@ Listing("key", "updated", "none") @@ Whole("replace")
PersonioTypes ==
  PersonioPages @@ Listing("key", "updated", "none") @@ Whole("replace")
PersonioReports ==
  PersonioPages @@ Listing("key", "updated", "fresh") @@ Whole("merge")
\* of each employee that has changed since the last run
PersonioBalances ==
  PersonioPages @@ Listing("key", "updated", "changed") @@ Since("client", "ge", "open")
CursorPages == Paging("offset", "short", "raise")
CursorUsage ==
  CursorPages @@ Listing("key", "updated", "none") @@ Whole("replace")
MixpanelProfiles ==
  Paging("offset", "empty", "raise") @@ Listing("key", "updated", "none") @@ Since("server", "ge", "now")
DoceboLearningObjects ==
  DoceboPages @@ Listing("key", "updated", "fresh") @@ Whole("replace")
\* those of the learning objects that are polls, and one reply for each of these
DoceboPolls ==
  DoceboPages @@ Listing("key", "updated", "fresh") @@ Whole("replace")
DoceboSurveyAnswers ==
  Paging("snapshot", "next", "ends") @@ Listing("key", "updated", "fresh") @@ Whole("replace")

\* an exception ends the members of one group, and the table is replaced
DoceboGroupMembers ==
  [DoceboPages EXCEPT !.error = "ends"] @@ Listing("key", "updated", "fresh") @@ Whole("replace")
DoceboPlanCourses ==
  [DoceboPages EXCEPT !.error = "ends"] @@ Listing("key", "updated", "fresh") @@ Whole("replace")
DoceboCourseEnrollments ==
  [DoceboPages EXCEPT !.error = "ends"] @@ Listing("key", "updated", "fresh") @@ Whole("replace")
DoceboSessions ==
  [DoceboPages EXCEPT !.error = "ends"] @@ Listing("key", "updated", "fresh") @@ Whole("replace")
MailchimpReplaced ==
  MailchimpPages @@ Listing("key", "updated", "none") @@ Whole("replace")

\* one reply for each parent, of which no second page is asked for
MailchimpNested ==
  Paging("snapshot", "next", "raise") @@ Listing("key", "updated", "fresh") @@ Whole("replace")

\* a service that gives no total: the length of the first page is taken for it
PlusVibeRequest == "raise"   \* after three retries, at once when it is not allowed
PlusVibePages == Paging("offset", "first", PlusVibeRequest)
PlusVibeCampaigns ==
  PlusVibePages @@ Listing("key", "updated", "none") @@ Since("client", "ge", "open")
PlusVibeLeads ==
  PlusVibePages @@ Listing("key", "updated", "none") @@ Since("client", "ge", "open")
PlusVibeTags ==
  PlusVibePages @@ Listing("key", "updated", "none") @@ Since("client", "ge", "open")
PlusVibeEmailPages == Paging("token", "next", PlusVibeRequest)
PlusVibeEmails ==
  PlusVibeEmailPages @@ Listing("key", "created", "none") @@ Since("client", "ge", "open")
PlusVibeBlocklistPages == Paging("offset", "short", PlusVibeRequest)
PlusVibeBlocklist ==
  PlusVibeBlocklistPages @@ Listing("key", "created", "none") @@ Since("client", "ge", "open")
PlusVibeHooksReply == Paging("snapshot", "next", PlusVibeRequest)
PlusVibeWebhooks ==
  PlusVibeHooksReply @@ Listing("key", "updated", "none") @@ Since("client", "ge", "open")
AttioPages == Paging("offset", "short", "raise")
AttioRecords ==
  AttioPages @@ Listing("key", "updated", "none") @@ Whole("replace")
AttioListEntries ==
  AttioPages @@ Listing("key", "updated", "fresh") @@ Whole("replace")
MondayPages == Paging("offset", "short", "raise")
MondayBoards ==
  MondayPages @@ Listing("key", "updated", "none") @@ Since("client", "ge", "open")
MondayUsers ==
  MondayPages @@ Listing("key", "updated", "none") @@ Whole("replace")
MondayQuery == "raise"   \* an error in the reply is raised, too
MondayReply == Paging("snapshot", "next", MondayQuery)
MondayAccount ==
  MondayReply @@ Listing("key", "updated", "none") @@ Whole("replace")
MondayLists ==
  MondayReply @@ Listing("key", "updated", "none") @@ Whole("replace")
\* one query for each board, or for the workspaces of all boards
MondayBoardParts ==
  MondayReply @@ Listing("key", "updated", "fresh") @@ Whole("replace")
MondayWebhooks ==
  MondayReply @@ Listing("key", "updated", "fresh") @@ Whole("replace")
\* the first page of the dates given on the command line, and no other
MondayUpdates ==
  Paging("offset", "first", MondayQuery) @@ Listing("key", "updated", "none") @@ Since("client", "ge", "open")
QuickBooksObject ==
  Paging("offset", "short", "raise") @@ Listing("asc", "updated", "none") @@ Since("server", "ge", "now")
TrustpilotPages == Paging("offset", "short", "raise")
TrustpilotReviews ==
  TrustpilotPages @@ Listing("key", "updated", "none") @@ Since("client", "ge", "now")
ClickUpPages == Paging("offset", "short", "raise")
ClickUpTasks ==
  ClickUpPages @@ Listing("key", "updated", "fresh") @@ Since("client", "ge", "now")
FreshdeskPages == Paging("offset", "filtered", "raise")
FreshdeskEndpoint ==
  FreshdeskPages @@ Listing("key", "updated", "none") @@ Since("client", "ge", "now")
GitHubRestPages == Paging("offset", "next", "raise")
GitHubEvents ==
  GitHubRestPages @@ Listing("desc", "created", "none") @@ Since("client", "ge", "now")
PipedrivePages == Paging("offset", "next", "raise")
PipedriveRecents ==
  PipedrivePages @@ Listing("key", "updated", "none") @@ Since("server", "ge", "open")
\* of each deal that has changed
PipedriveParticipants ==
  PipedrivePages @@ Listing("key", "updated", "changed") @@ Since("client", "ge", "open")
PipedriveFlow ==
  PipedrivePages @@ Listing("key", "updated", "changed") @@ Since("client", "ge", "open")
PipedriveLeads ==
  [PipedrivePages EXCEPT !.stop = "overlap"] @@ Listing("desc", "updated", "none") @@ Since("client", "ge", "open")
HostawayPages == Paging("offset", "short", "raise")
HostawayRange == Since("client", "ge", "now")
HostawayListings ==
  HostawayPages @@ Listing("key", "updated", "none") @@ HostawayRange
\* the settings of one listing after the other; an exception ends those of one
HostawayFeeSettings ==
  [HostawayPages EXCEPT !.error = "ends"] @@ Listing("key", "updated", "fresh") @@ HostawayRange
HostawayPricingSettings ==
  [HostawayPages EXCEPT !.error = "ends"] @@ Listing("key", "updated", "fresh") @@ Whole("replace")
HostawayAgreements ==
  [HostawayPages EXCEPT !.error = "ends"] @@ Listing("key", "updated", "fresh") @@ Whole("replace")
HostawayReservations ==
  HostawayPages @@ Listing("key", "updated", "none") @@ Whole("replace")
HostawayFinanceFields ==
  Paging("snapshot", "next", "raise") @@ Listing("key", "updated", "fresh") @@ Whole("replace")
HostawayRentalAgreements ==
  Paging("snapshot", "next", "ends") @@ Listing("key", "updated", "fresh") @@ Whole("replace")
HostawayCodeTables ==
  Paging("snapshot", "next", "raise") @@ Listing("key", "updated", "none") @@ Whole("replace")
HostawayPolicies ==
  Paging("snapshot", "next", "raise") @@ Listing("key", "updated", "none") @@ Whole("replace")
HostawayTables ==
  Paging("snapshot", "next", "raise") @@ Listing("key", "updated", "none") @@ Whole("replace")
HostawayConversations ==
  HostawayPages @@ Listing("key", "updated", "none") @@ Whole("replace")
\* of the listings whose range is kept by the cursor
HostawayCalendars ==
  [Paging("snapshot", "next", "raise") @@ Listing("key", "updated", "changed")
     @@ Since("client", "ge", "open") EXCEPT !.write = "replace"]
FirefliesPages == Paging("offset", "short", "raise")
FirefliesTranscripts ==
  FirefliesPages @@ Listing("key", "created", "none") @@ Since("server", "ge", "now")
FirefliesBites ==
  Paging("offset", "short", "raise") @@ Listing("key", "updated", "none") @@ Whole("replace")
FirefliesUsers ==
  Paging("snapshot", "next", "raise") @@ Listing("key", "updated", "none") @@ Whole("replace")
=============================================================================
