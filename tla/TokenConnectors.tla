-------------------------- MODULE TokenConnectors ---------------------------
(***************************************************************************)
(* The paged sources whose client continues with what the service hands it (a*)
(* cursor, a link, the key of the last item), or that have one reply or query.*)
(***************************************************************************)
EXTENDS ConnectorFeatures

\* tokens: a cursor, a link to the next page, the key of the last item
IntercomPages == Paging("token", "next", "raise")
IntercomSearchPages == Paging("token", "next", "raise")
IntercomQuery == Since("server", "gt", "open")
IntercomSearch ==
  IntercomSearchPages @@ Listing("key", "updated", "none") @@ IntercomQuery
IntercomTickets ==
  IntercomPages @@ Listing("key", "updated", "none") @@ Since("server", "ge", "open")

\* the lower end is read again for every item, when it may have moved
IntercomPaginated ==
  IntercomPages @@ Listing("key", "updated", "none") @@ Since("client", "live", "open")
IntercomSimple ==
  IntercomPages @@ Listing("key", "updated", "none") @@ Whole("replace")

\* continued before the smallest time so far, which tells no items of one time apart
PhantombusterPages == Paging("time", "next", "skips")
PhantombusterPhantoms ==
  PhantombusterPages @@ Listing("desc", "created", "none") @@ Since("client", "ge", "now")
GorgiasPages == Paging("token", "older", "repeat")
GorgiasCustomers ==
  GorgiasPages @@ Listing("desc", "updated", "none") @@ Since("client", "ge", "open")
GorgiasTickets ==
  GorgiasPages @@ Listing("desc", "updated", "none") @@ Since("client", "ge", "open")

\* listed by creation, while the loop ends at a page of old updates
GorgiasMessages ==
  GorgiasPages @@ Listing("newest", "updated", "none") @@ Since("client", "ge", "open")
GorgiasSurveys ==
  GorgiasPages @@ Listing("newest", "updated", "none") @@ Since("client", "ge", "open")
ShopifyPages == Paging("token", "next", "raise")
ShopifyProducts ==
  ShopifyPages @@ Listing("asc", "updated", "none") @@ Since("server", "ge", "open")
ShopifyOrders ==
  ShopifyPages @@ Listing("asc", "updated", "none") @@ Since("server", "ge", "open")
ShopifyCustomers ==
  ShopifyPages @@ Listing("asc", "updated", "none") @@ Since("server", "ge", "open")
ShopifyPriceRules ==
  ShopifyPages @@ Listing("asc", "updated", "none") @@ Since("server", "ge", "open")
ShopifyEvents ==
  ShopifyPages @@ Listing("asc", "created", "none") @@ Since("server", "ge", "open")
ShopifyGraphqlPages == Paging("token", "empty", "raise")
ShopifyInventoryItems ==
  ShopifyGraphqlPages @@ Listing("key", "updated", "none") @@ Since("server", "gt", "open")
ShopifyDiscounts ==
  ShopifyGraphqlPages @@ Listing("key", "updated", "none") @@ Whole("merge")
ShopifyTaxonomy ==
  [ShopifyGraphqlPages EXCEPT !.stop = "next"] @@ Listing("key", "updated", "none") @@ Whole("merge")
ShopifyGraphqlProducts ==
  [ShopifyGraphqlPages EXCEPT !.stop = "next"] @@ Listing("key", "updated", "none") @@ Since("server", "gt", "open")
HubSpotPages == Paging("token", "next", "raise")
HubSpotOwners ==
  HubSpotPages @@ Listing("key", "updated", "none") @@ Whole("merge")
HubSpotSearch == Paging("token", "next", "raise")
HubSpotCompanies ==
  HubSpotSearch @@ Listing("key", "updated", "none") @@ Since("server", "ge", "open")
HubSpotActivities ==
  HubSpotSearch @@ Listing("key", "updated", "none") @@ Since("server", "ge", "open")
HubSpotTasks ==
  HubSpotSearch @@ Listing("key", "updated", "none") @@ Since("server", "ge", "open")
HubSpotCommerce ==
  HubSpotSearch @@ Listing("key", "updated", "none") @@ Since("server", "ge", "open")
HubSpotCustom ==
  HubSpotPages @@ Listing("key", "updated", "none") @@ Whole("merge")

\* an error reply has neither items nor a next page
KlaviyoPages == Paging("token", "next", "ends")
KlaviyoEvents ==
  KlaviyoPages @@ Listing("desc", "created", "none") @@ Since("server", "ge", "now")
KlaviyoProfiles ==
  KlaviyoPages @@ Listing("asc", "updated", "none") @@ Since("server", "ge", "now")
KlaviyoMetrics ==
  KlaviyoPages @@ Listing("key", "updated", "none") @@ Since("client", "gt", "open")
KlaviyoCampaigns ==
  KlaviyoPages @@ Listing("asc", "updated", "none") @@ Since("server", "ge", "now")
KlaviyoForms ==
  KlaviyoPages @@ Listing("desc", "updated", "none") @@ Since("server", "ge", "now")
KlaviyoLists ==
  KlaviyoPages @@ Listing("desc", "updated", "none") @@ Since("server", "gt", "open")
KlaviyoTags ==
  KlaviyoPages @@ Listing("key", "updated", "none") @@ Whole("replace")
FundraiseUpPages == Paging("token", "next", "raise")
FundraiseUpDonations ==
  FundraiseUpPages @@ Listing("key", "updated", "none") @@ Whole("replace")
JiraRequest == "raise"   \* after three retries, at once when it is not allowed
JiraPages == Paging("token", "next", JiraRequest)
JiraIssues ==
  JiraPages @@ Listing("desc", "updated", "none") @@ Since("server", "ge", "open")

\* a reply that is a plain list is taken for the last page
JiraUsers ==
  Paging("offset", "first", JiraRequest) @@ Listing("key", "updated", "none") @@ Whole("replace")
JiraVersions ==
  Paging("offset", "next", JiraRequest) @@ Listing("key", "updated", "fresh") @@ Whole("replace")
JiraIssueTypes ==
  Paging("snapshot", "next", JiraRequest) @@ Listing("key", "updated", "none") @@ Whole("replace")
JiraProjects ==
  Paging("snapshot", "next", JiraRequest) @@ Listing("key", "updated", "none") @@ Whole("replace")
JiraEvents ==
  Paging("snapshot", "next", JiraRequest) @@ Listing("key", "updated", "none") @@ Whole("replace")
JiraChangelogPages == Paging("token", "next", JiraRequest)
JiraChangelogs ==
  JiraChangelogPages @@ Listing("key", "updated", "fresh") @@ Whole("replace")
CustomerIoPages == Paging("token", "next", "raise")
CustomerIoBroadcasts ==
  CustomerIoPages @@ Listing("key", "updated", "none") @@ Since("client", "ge", "open")
CustomerIoActivities ==
  CustomerIoPages @@ Listing("key", "updated", "none") @@ Whole("replace")
CustomerIoCustomers ==
  CustomerIoPages @@ Listing("key", "updated", "fresh") @@ Whole("replace")
CustomerIoPostPages == Paging("token", "next", "raise")
CustomerIoObjects ==
  CustomerIoPostPages @@ Listing("key", "updated", "fresh") @@ Whole("replace")
CustomerIoCampaigns ==
  CustomerIoPages @@ Listing("key", "updated", "none") @@ Since("client", "ge", "open")
CustomerIoCollections ==
  CustomerIoPages @@ Listing("key", "updated", "none") @@ Since("client", "ge", "open")
CustomerIoSegments ==
  CustomerIoPages @@ Listing("key", "updated", "none") @@ Since("client", "ge", "open")
CustomerIoReplaced ==
  CustomerIoPages @@ Listing("key", "updated", "none") @@ Whole("replace")
CustomerIoMessages ==
  CustomerIoPages @@ Listing("key", "updated", "none") @@ Whole("merge")
CustomerIoOneReply ==
  Paging("snapshot", "next", "raise") @@ Listing("key", "updated", "none") @@ Whole("replace")

\* of each customer, all of them
CustomerIoCustomerMessages ==
  CustomerIoPages @@ Listing("key", "updated", "fresh") @@ Whole("merge")
CustomerIoCustomerActivities ==
  CustomerIoPages @@ Listing("key", "updated", "fresh") @@ Whole("replace")
CustomerIoRelationships ==
  CustomerIoPages @@ Listing("key", "updated", "fresh") @@ Whole("replace")
CustomerIoAttributes ==
  Paging("snapshot", "next", "raise") @@ Listing("key", "updated", "fresh") @@ Whole("replace")
CustomerIoMetricsReply == Paging("snapshot", "next", "raise")
CustomerIoMetrics ==
  CustomerIoMetricsReply @@ Listing("key", "updated", "fresh") @@ Whole("replace")

\* of each campaign, broadcast or newsletter that has changed since the last run
CustomerIoCampaignMessages ==
  CustomerIoPages @@ Listing("key", "updated", "changed") @@ Since("client", "ge", "open")
CustomerIoBroadcastMessages ==
  CustomerIoPages @@ Listing("key", "updated", "changed") @@ Since("client", "ge", "open")
CustomerIoBroadcastActions ==
  Paging("snapshot", "next", "raise")
    @@ Listing("key", "updated", "changed") @@ Since("client", "ge", "open")
\* the table is replaced with what these have
CustomerIoTestGroups ==
  [CustomerIoBroadcastActions EXCEPT !.write = "replace"]
PinterestPins ==
  Paging("token", "next", "raise") @@ Listing("key", "created", "none") @@ Since("client", "gt", "now")
ZendeskStartTimePages == Paging("token", "empty", "raise")
ZendeskTalkRange == Since("server", "ge", "open")
ZendeskTalk ==
  ZendeskStartTimePages @@ Listing("asc", "updated", "none") @@ ZendeskTalkRange
ZendeskTickets ==
  [ZendeskStartTimePages EXCEPT !.stop = "next"] @@ Listing("asc", "updated", "none") @@ Since("server", "ge", "open")
ZendeskTalkListing ==
  [ZendeskStartTimePages EXCEPT !.stop = "next"] @@ Listing("key", "updated", "none") @@ Whole("replace")
ZendeskTicketFields ==
  Paging("offset", "next", "raise") @@ Listing("key", "updated", "none") @@ Whole("replace")
ZendeskBasic ==
  Paging("token", "next", "raise") @@ Listing("key", "updated", "none") @@ Whole("replace")
LinearPages == Paging("token", "next", "raise")
LinearQueries == Listing("key", "updated", "none")   \* which name no order
LinearResource == LinearPages @@ LinearQueries @@ Since("client", "ge", "now")
LinearOrganization ==
  Paging("snapshot", "next", "raise") @@ Listing("key", "updated", "none") @@ Since("client", "ge", "now")
SlackPages == Paging("token", "next", "raise")
SlackMessages ==
  SlackPages @@ Listing("key", "created", "fresh") @@ Since("server", "ge", "open")
SlackUsers ==
  SlackPages @@ Listing("key", "updated", "none") @@ Whole("replace")
GitHubGraphqlPages == Paging("token", "empty", "raise")
GitHubStargazers ==
  GitHubGraphqlPages @@ Listing("key", "updated", "none") @@ Whole("replace")
ZoomPages == Paging("token", "next", "raise")
ZoomMeetings ==
  ZoomPages @@ Listing("key", "created", "reused") @@ Since("server", "ge", "now")
ZoomUsers ==
  Paging("token", "next", "raise") @@ Listing("key", "updated", "none") @@ Whole("merge")
ZoomParticipants ==
  Paging("token", "next", "raise") @@ Listing("key", "created", "reused") @@ Since("client", "ge", "now")
DynamoDbScan == Paging("token", "next", "raise")
DynamoDbTable ==
  DynamoDbScan @@ Listing("key", "updated", "none") @@ Since("server", "ge", "open")
MongoCursor == Paging("token", "next", "raise")
MongoRange == Since("server", "ge", "open")
MongoAggregatePages == Paging("token", "next", "raise")
MongoCollection ==
  MongoCursor @@ Listing("key", "updated", "none") @@ MongoRange
\* a query of the user, with the interval of the first run in its place holders
MongoAggregation ==
  MongoAggregatePages @@ Listing("key", "updated", "none") @@ Since("client", "ge", "open")
RevenueCatPages == Paging("token", "next", "raise")
RevenueCatRequest == "raise"   \* after three retries
RevenueCatNestedPages == Paging("token", "next", RevenueCatRequest)
RevenueCatCustomers ==
  RevenueCatPages @@ Listing("key", "updated", "none") @@ Whole("replace")
RevenueCatProjectResources ==
  RevenueCatPages @@ Listing("key", "updated", "none") @@ Whole("merge")
RevenueCatProjects ==
  Paging("snapshot", "next", "raise") @@ Listing("key", "updated", "none") @@ Whole("merge")
\* of each customer
RevenueCatNested ==
  RevenueCatNestedPages @@ Listing("key", "updated", "fresh") @@ Whole("replace")
SolidgatePages == Paging("token", "next", "raise")
SolidgateSubscriptions ==
  SolidgatePages @@ Listing("key", "updated", "none") @@ Since("server", "ge", "now")
SolidgateOrders ==
  SolidgatePages @@ Listing("key", "updated", "none") @@ Since("server", "ge", "now")
SolidgateReport == Paging("snapshot", "next", "raise")   \* 120 times asked for
SolidgateEntries ==
  SolidgateReport @@ Listing("key", "created", "none") @@ Since("server", "ge", "now")
StripePages == Paging("token", "next", "raise")
StripeRequest == "raise"   \* after 50 replies that name the rate limit
StripeAsyncPages == Paging("token", "next", StripeRequest)
\* hours, each until the beginning of the next one
StripeHours == Since("server", "ge", "window")
StripeObjects ==
  StripePages @@ Listing("key", "created", "none") @@ Whole("replace")
StripeIncremental ==
  StripePages @@ Listing("key", "created", "none") @@ StripeHours

\* chunks of the time until the run starts, each read by its own loop
StripeChunks == [Whole("replace") EXCEPT !.upto = "window"]
StripeAsync ==
  StripeAsyncPages @@ Listing("key", "created", "none") @@ StripeChunks
AirtableTable ==
  Paging("token", "next", "raise") @@ Listing("key", "updated", "none") @@ Whole("replace")
NotionPages == Paging("token", "next", "raise")
NotionSearch == Paging("token", "next", "raise")
NotionDatabase ==
  NotionPages @@ Listing("key", "updated", "none") @@ Whole("replace")
PrimerPages == Paging("token", "next", "raise")
PrimerPayments ==
  PrimerPages @@ Listing("key", "updated", "none") @@ Whole("merge")
AsanaProjects ==
  Paging("token", "next", "raise") @@ Listing("key", "updated", "fresh") @@ Whole("replace")
AsanaTeams ==
  Paging("token", "next", "raise") @@ Listing("key", "updated", "fresh") @@ Whole("replace")
AsanaTasks ==
  Paging("token", "next", "raise") @@ Listing("key", "updated", "fresh") @@ Since("server", "ge", "open")
\* of each task: the default strategy, replace, starts the cursor of the tasks afresh
AsanaStories ==
  Paging("token", "next", "raise") @@ Listing("key", "updated", "fresh") @@ Whole("replace")
AnthropicPages == Paging("token", "next", "raise")
AnthropicUsers ==
  AnthropicPages @@ Listing("key", "updated", "none") @@ Whole("replace")
AnthropicReply == Paging("snapshot", "next", "raise")   \* one that is not found is empty
AnthropicOrganization ==
  AnthropicReply @@ Listing("key", "updated", "none") @@ Whole("replace")
AnthropicWorkspaceMembers ==
  AnthropicPages @@ Listing("key", "updated", "fresh") @@ Whole("replace")
RedditPages == Paging("token", "next", "raise")
RedditCampaigns ==
  RedditPages @@ Listing("key", "updated", "fresh") @@ Whole("replace")
LinkedInTokenPages == Paging("token", "next", "raise")
LinkedInStartPages == Paging("offset", "short", "raise")
LinkedInAccounts ==
  LinkedInTokenPages @@ Listing("key", "updated", "none") @@ Whole("replace")
LinkedInCampaigns ==
  LinkedInTokenPages @@ Listing("key", "updated", "fresh") @@ Whole("replace")
LinkedInAccountUsers ==
  LinkedInStartPages @@ Listing("key", "updated", "fresh") @@ Whole("replace")
LinkedInConversions ==
  LinkedInStartPages @@ Listing("key", "updated", "fresh") @@ Whole("replace")
LinkedInSegments ==
  LinkedInStartPages @@ Listing("key", "updated", "fresh") @@ Whole("replace")
LinkedInResponses ==
  LinkedInStartPages @@ Listing("key", "created", "fresh") @@ Since("server", "ge", "now")
FacebookRequest == "raise"   \* after twelve attempts that meet a limit
FacebookPages == Paging("token", "next", FacebookRequest)
FacebookCampaigns ==
  FacebookPages @@ Listing("key", "updated", "fresh") @@ Since("client", "ge", "open")
FacebookAds ==
  FacebookPages @@ Listing("key", "updated", "fresh") @@ Whole("merge")
FacebookCreatives ==
  FacebookPages @@ Listing("key", "updated", "fresh") @@ Whole("replace")
FacebookLeads ==
  FacebookPages @@ Listing("key", "created", "fresh") @@ Since("client", "ge", "open")

\* An item whose own status is not SUCCESS is left out.  A request that fails as a
\* whole ends the run with nothing loaded, which the other sources show.
SnapchatPages == Paging("token", "next", "skips")
SnapchatReply == Paging("snapshot", "next", "skips")
SnapchatAccountIds == Listing("key", "updated", "fresh")
SnapchatPagesOfAccounts == SnapchatPages @@ SnapchatAccountIds
SnapchatReplyOfAccounts == SnapchatReply @@ SnapchatAccountIds
SnapchatCampaigns == SnapchatPagesOfAccounts @@ Since("client", "ge", "open")
SnapchatCreatives == SnapchatPagesOfAccounts @@ Since("client", "ge", "open")
SnapchatSegments == SnapchatReplyOfAccounts @@ Since("client", "ge", "open")
SnapchatInvoices ==
  SnapchatReply @@ Listing("key", "updated", "fresh") @@ Since("client", "ge", "open")
SnapchatAccounts ==
  SnapchatReply @@ Listing("key", "updated", "none") @@ Since("client", "ge", "open")
SnapchatTransactions ==
  SnapchatReply @@ Listing("key", "updated", "none") @@ Whole("replace")
SnapchatRoles ==
  SnapchatPages @@ Listing("key", "updated", "none") @@ Whole("replace")

\* one query, whose result does not change while it is read
ElasticsearchIndex ==
  Paging("snapshot", "next", "raise") @@ Listing("key", "updated", "none") @@ Since("server", "ge", "open")
CouchbaseCollection ==
  Paging("snapshot", "next", "raise") @@ Listing("key", "updated", "none") @@ Since("server", "ge", "open")
SalesforceQuery == Paging("snapshot", "next", "raise")
SalesforceOpportunity ==
  SalesforceQuery @@ Listing("asc", "updated", "none") @@ Since("server", "gt", "open")
=============================================================================
