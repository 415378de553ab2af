------------------------------ MODULE Sources ------------------------------
(***************************************************************************)
(* The source classes of omniload, each by what its interface tells a run:   *)
(* handles_incrementality and the other hooks, the checks dlt_source begins   *)
(* with, the part of --interval-start/--interval-end it hands on, and the     *)
(* resources among which --source-table chooses.  How the resources page and  *)
(* cut their ranges is in Connectors and Reports, which also tell what a       *)
(* merge goes by (here: the row); module IngestRequest says what a run does    *)
(* with such a source.                                                      *)
(***************************************************************************)
EXTENDS TLC

\* a resource: what it reads in a run, and the write disposition it declares
Resource(reads, writes) == [reads |-> reads, writes |-> writes]
Upserts == Resource("cursor", "merge")
Appends == Resource("cursor", "append")
Ranges == Resource("range", "merge")
Refills == Resource("range", "replace")
Piles == Resource("range", "append")
Merges == Resource("whole", "merge")
Copies == Resource("whole", "replace")
Adds == Resource("whole", "append")      \* dlt's default disposition
History == Resource("whole", "scd2")

\* A source that manages incrementality itself, with the guard it has against
\* --incremental-key: none, one on the key that is left of it, or on the request.
Manages(guard, checks, window, tables) ==
  [own |-> TRUE, guard |-> guard, checks |-> checks, window |-> window, tables |-> tables,
   key |-> "ignored", honours |-> FALSE, files |-> FALSE, options |-> "all", rows |-> "dicts"]
\* A source that leaves it to the run: what becomes of the key, and the guard.
Leaves(key, guard, checks, window, tables) ==
  [Manages(guard, checks, window, tables) EXCEPT !.own = FALSE, !.key = key]

Uri == {"uri"}               \* credentials or a host are missing
Table == {"table"}           \* the table is not one of the source's
Both == {"uri", "table"}

-----------------------------------------------------------------------------
(* They leave incrementality to the run *)

\* the key becomes the cursor; both ends of the interval are those of its range
Keyed(checks, table) == Leaves("cursor", "none", checks, "none", {table})
SqlSource == [Keyed(Both, Adds) EXCEPT !.rows = "sql"]
ArrowSource == [Keyed(Uri, Adds) EXCEPT !.rows = "arrow"]
SocrataSource == Keyed(Both, Copies)
DynamoDBSource == Keyed(Uri, Adds)
MongoDbSource == Keyed(Table, Copies)
ElasticsearchSource == Keyed(Table, Merges)
CouchbaseSource == Keyed(Both, Copies)

\* the key is refused, and the guard fires
AirtableSource == Leaves("ignored", "resolved", Both, "none", {Copies})
SmartsheetSource == Leaves("ignored", "resolved", Both, "none", {Copies})
GoogleSheetsSource == Leaves("ignored", "resolved", Both, "none", {Copies})
DoceboSource == Leaves("ignored", "resolved", Both, "none", {Copies})
GoogleAdsSource == Leaves("ignored", "resolved", Both, "recent", {Upserts, Piles})

\* the key is not looked at
AsanaSource == Leaves("ignored", "none", Both, "none", {Copies, Upserts})
MailchimpSource == Leaves("ignored", "none", Both, "none", {Copies, Upserts})
MondaySource == Leaves("ignored", "none", Both, "ever", {Copies, Upserts})
AttioSource == Leaves("ignored", "none", Both, "none", {Copies})
BruinSource == Leaves("ignored", "none", Both, "none", {Copies})
AlliumSource == Leaves("ignored", "none", Uri, "recent", {Refills})
DuneSource == Leaves("ignored", "none", Both, "recent", {Copies, Refills})
KafkaTopic == Leaves("ignored", "none", Uri, "ever", {Appends})

-----------------------------------------------------------------------------
(* They manage it themselves; the guard is on the key that is left *)

Guarded(checks, window, tables) == Manages("resolved", checks, window, tables)

\* everything, or what is newer than the resource's own cursor
LinearSource == Guarded(Both, "ever", {Upserts})
GorgiasSource == Guarded(Both, "ever", {Upserts})
KlaviyoSource == Guarded(Both, "ever", {Upserts, Copies})
HubspotSource == Guarded(Both, "ever", {Upserts, Merges, Appends})
ShopifySource == Guarded(Both, "ever", {Upserts, Merges, History})
StripeSource == Guarded(Both, "ever", {Upserts, Copies})
ZendeskSource == Guarded(Both, "ever", {Upserts, Appends, Copies})
SlackSource == Guarded(Both, "ever", {Appends, Adds, Copies})
ClickupSource == Guarded(Both, "ever", {Upserts, Merges})
FreshdeskSource == Guarded(Both, "ever", {Upserts})
PersonioSource == Guarded(Both, "ever", {Upserts, Merges, Copies})
HostawaySource == Guarded(Both, "ever", {Upserts, Copies})
PinterestSource == Guarded(Both, "ever", {Upserts})
PipedriveSource == Guarded(Both, "ever", {Upserts, Copies})
PhantombusterSource == Guarded(Both, "ever", {Upserts})
QuickBooksSource == Guarded(Uri, "ever", {Upserts})
TrustpilotSource == Guarded(Both, "ever", {Upserts})
ZoomSource == Guarded(Both, "ever", {Upserts, Merges})
FirefliesSource == Guarded(Both, "ever", {Upserts, Copies})
ChessSource == Guarded(Table, "ever", {Copies, Refills, Adds})
MixpanelSource == Guarded(Both, "ever", {Ranges})
InfluxDBSource == Guarded(Uri, "ever", {Appends})
SolidgateSource == Guarded(Both, "recent", {Upserts})
FrankfurterSource == Guarded(Table, "recent", {Upserts, Merges, Copies})
GitHubSource == Guarded(Both, "recent", {Upserts, Copies})

\* the interval is not read, or not handed on
FluxxSource == Guarded(Uri, "none", {Copies})
SalesforceSource == Guarded(Both, "none", {Upserts, Copies})
NotionSource == Guarded(Uri, "none", {Copies})
RevenueCatSource == Guarded(Both, "none", {Merges, Copies})

\* reports
LinkedInAdsSource == Guarded(Both, "ever", {Upserts, Copies})
RedditAdsSource == Guarded(Both, "ever", {Upserts, Ranges, Copies})
FacebookAdsSource == Guarded(Both, "recent", {Upserts, Ranges, Copies})
AppsflyerSource == Guarded(Both, "recent", {Upserts})
ApplovinMaxSource == Guarded(Both, "recent", {Upserts})
AppLovinSource == Guarded(Both, "recent", {Ranges})
GoogleAnalyticsSource == Guarded(Table, "recent", {Ranges, Merges})
TikTokSource == Guarded(Both, "recent", {Ranges})
AdjustSource == Guarded(Both, "recent", {Ranges, Copies})
AppleAppStoreSource == Guarded(Both, "recent", {Upserts})
IsocPulseSource == Guarded(Uri, "recent", {Upserts})

-----------------------------------------------------------------------------
(* They manage it themselves, without a guard *)

Unguarded(checks, window, tables) == Manages("none", checks, window, tables)
IntercomSource == Unguarded(Both, "ever", {Upserts, Copies})
SnapchatAdsSource == Unguarded(Both, "ever", {Upserts, Ranges, Refills, Copies})
CustomerIoSource == Unguarded(Both, "ever", {Upserts, Ranges, Merges, Copies})
WiseSource == Unguarded(Both, "ever", {Upserts, Merges})
AnthropicSource == Unguarded(Both, "ever", {Upserts, Ranges, Copies})
PrimerSource == Unguarded(Both, "ever", {Ranges})
CursorSource == Unguarded(Both, "ever", {Refills, Copies})
IndeedSource == Unguarded(Both, "recent", {Upserts, Merges})
FundraiseupSource == Unguarded(Both, "none", {Upserts, Copies})
JiraSource == Unguarded(Both, "none", {Upserts, Copies})
PlusVibeAISource == Unguarded(Both, "none", {Upserts})
KinesisStream == Unguarded(Uri, "ever", {Appends})

-----------------------------------------------------------------------------
(* They manage it themselves; the guard is on the key that was asked for *)

MqBridgeMessages == Manages("requested", Both, "none", {Merges})
DeltaLakeSource == [Manages("requested", {}, "none", {Copies}) EXCEPT !.honours = TRUE]

\* The sources of files name the options they take, and let the run choose
\* between append and replace.
FileSource(checks) ==
  [Manages("none", checks, "none", {Adds})
     EXCEPT !.honours = TRUE, !.files = TRUE, !.options = "named"]
LocalFilesystemSource == FileSource(Both)
S3CompatibleSource == FileSource(Both)
GCSSource == FileSource(Both)
AzureSource == FileSource(Both)
SFTPSource == FileSource(Both)
FTPSource == FileSource(Both)
SMBSource == FileSource(Both)
HDFSSource == FileSource(Both)
WebHDFSSource == FileSource(Both)
WebdavSource == FileSource(Both)
DatabricksSource == FileSource(Table)
DropboxSource == FileSource(Table)
GoogleDriveSource == FileSource(Table)
SharePointSource == FileSource(Table)
OCISource == FileSource(Table)
OSSSource == FileSource(Table)
RsyncSource == FileSource(Both)
HttpFilesystemSource == FileSource(Both)

\* Different sources may have equal features: each is checked once.
AllSources ==
  {SqlSource, ArrowSource, SocrataSource, DynamoDBSource, MongoDbSource,
   ElasticsearchSource, CouchbaseSource, AirtableSource, SmartsheetSource,
   GoogleSheetsSource, DoceboSource, GoogleAdsSource, AsanaSource, MailchimpSource,
   MondaySource, AttioSource, BruinSource, AlliumSource, DuneSource, KafkaTopic,
   LinearSource, GorgiasSource, KlaviyoSource, HubspotSource, ShopifySource,
   StripeSource, ZendeskSource, SlackSource, ClickupSource, FreshdeskSource,
   PersonioSource, HostawaySource, PinterestSource, PipedriveSource,
   PhantombusterSource, QuickBooksSource, TrustpilotSource, ZoomSource,
   FirefliesSource, ChessSource, MixpanelSource, InfluxDBSource, SolidgateSource,
   FrankfurterSource, GitHubSource, FluxxSource, SalesforceSource, NotionSource,
   RevenueCatSource, LinkedInAdsSource, RedditAdsSource, FacebookAdsSource,
   AppsflyerSource, ApplovinMaxSource, AppLovinSource, GoogleAnalyticsSource,
   TikTokSource, AdjustSource, AppleAppStoreSource, IsocPulseSource, IntercomSource,
   SnapchatAdsSource, CustomerIoSource, WiseSource, AnthropicSource, PrimerSource,
   CursorSource, IndeedSource, FundraiseupSource, JiraSource, PlusVibeAISource,
   KinesisStream, MqBridgeMessages, DeltaLakeSource, LocalFilesystemSource,
   S3CompatibleSource, GCSSource, AzureSource, SFTPSource, FTPSource, SMBSource,
   HDFSSource, WebHDFSSource, WebdavSource, DatabricksSource, DropboxSource,
   GoogleDriveSource, SharePointSource, OCISource, OSSSource, RsyncSource,
   HttpFilesystemSource}
=============================================================================
