----------------------------- MODULE Connectors -----------------------------
(***************************************************************************)
(* The paged sources of omniload, each by the features module PagedSource    *)
(* tells apart: how the client loops over pages, and what the dlt resource   *)
(* asks for.  The loops are in the clients and helpers, the ranges in the     *)
(* adapters.  The order in which a service lists its items is external where *)
(* the request does not name one; such a listing is taken to be by key.      *)
(* A range that excludes the time at which the run started is not told from  *)
(* one that includes it: what has that time is read by the next run.         *)
(***************************************************************************)
EXTENDS OffsetConnectors, TokenConnectors

\* Different sources may have equal features: each is checked once.
PagedConnectors ==
  {FluxxResource, SocrataDataset, MailchimpMerged, WiseTransfers, DoceboUsers,
   PersonioEmployees, PlusVibeCampaigns, AttioRecords, MondayBoards,
   QuickBooksObject, TrustpilotReviews, ClickUpTasks, FreshdeskEndpoint,
   GitHubEvents, PipedriveRecents, PipedriveLeads, HostawayListings,
   HostawayFeeSettings, FirefliesTranscripts, IntercomSearch, IntercomTickets,
   IntercomPaginated, PhantombusterPhantoms, GorgiasCustomers, ShopifyProducts,
   ShopifyEvents, HubSpotOwners, HubSpotCompanies, KlaviyoEvents, KlaviyoProfiles,
   KlaviyoMetrics, FundraiseUpDonations, JiraIssues, CustomerIoBroadcasts,
   PinterestPins, ZendeskTalk, ZendeskTickets, LinearResource, SlackMessages,
   GitHubStargazers, ZoomMeetings, DynamoDbTable, MongoCollection,
   RevenueCatCustomers, SolidgateSubscriptions, StripeObjects, StripeIncremental,
   ElasticsearchIndex, CouchbaseCollection, SalesforceOpportunity, StripeAsync,
   PersonioAbsences, PersonioProjects, CursorUsage, MixpanelProfiles,
   DoceboLearningObjects, DoceboGroupMembers, MailchimpReplaced, MailchimpNested,
   PlusVibeLeads, PlusVibeEmails, PlusVibeBlocklist, AttioListEntries,
   MondayUsers, HostawayPricingSettings, HostawayReservations,
   HostawayFinanceFields, HostawayRentalAgreements, HostawayCodeTables,
   FirefliesBites, FirefliesUsers, ShopifyCustomers, GorgiasTickets,
   GorgiasMessages, ShopifyInventoryItems, ShopifyDiscounts, ShopifyTaxonomy,
   ShopifyGraphqlProducts, HubSpotCustom, KlaviyoCampaigns, KlaviyoForms,
   KlaviyoLists, KlaviyoTags, JiraUsers, JiraVersions, JiraIssueTypes,
   CustomerIoActivities, CustomerIoCustomers, CustomerIoObjects,
   ZendeskTalkListing, SlackUsers, ZoomUsers, ZoomParticipants,
   RevenueCatProjectResources, AirtableTable, NotionDatabase, PrimerPayments,
   AsanaProjects, AsanaTasks, AnthropicUsers, AnthropicWorkspaceMembers,
   RedditCampaigns, FacebookCampaigns, FacebookAds, SnapchatCampaigns,
   SnapchatAccounts, CustomerIoCampaigns, CustomerIoReplaced, CustomerIoOneReply,
   CustomerIoCustomerMessages, CustomerIoCustomerActivities,
   CustomerIoCampaignMessages, CustomerIoBroadcastMessages,
   CustomerIoBroadcastActions, CustomerIoTestGroups, ShopifyOrders,
   ShopifyPriceRules, GorgiasSurveys, HubSpotActivities, HubSpotCommerce,
   CustomerIoMessages, CustomerIoRelationships, CustomerIoAttributes,
   CustomerIoMetrics, SnapchatInvoices, SnapchatSegments, SnapchatTransactions,
   SnapchatRoles, SnapchatCreatives, LinearOrganization, CustomerIoCollections,
   CustomerIoSegments, HubSpotTasks, DoceboPlanCourses, DoceboCourseEnrollments,
   DoceboSessions, DoceboPolls, DoceboSurveyAnswers, DoceboCourseFields,
   DoceboPlans, DoceboCategories, HostawayAgreements, HostawayPolicies,
   HostawayTables, HostawayConversations, HostawayCalendars, AsanaTeams,
   AsanaStories, JiraProjects, JiraEvents, JiraChangelogs, PlusVibeTags,
   PlusVibeWebhooks, ZendeskTicketFields, ZendeskBasic, IntercomSimple,
   MondayAccount, MondayLists, MondayBoardParts, MondayWebhooks, MondayUpdates,
   LinkedInAccounts, LinkedInCampaigns, LinkedInAccountUsers, LinkedInConversions,
   LinkedInSegments, LinkedInResponses, FacebookCreatives, FacebookLeads,
   AnthropicOrganization, RevenueCatProjects, RevenueCatNested, SolidgateOrders,
   SolidgateEntries, PersonioTypes, PersonioReports, PersonioBalances,
   PipedriveParticipants, PipedriveFlow, MongoAggregation}
=============================================================================
