------------------------------ MODULE Reports ------------------------------
(***************************************************************************)
(* The report sources of omniload, each by the features module DailyReport   *)
(* tells apart.  A source whose interface always passes an end value to      *)
(* dlt.sources.incremental keeps no cursor.  A merge key of the day and all  *)
(* dimensions identifies a row.                                             *)
(***************************************************************************)
EXTENDS TLC

Asked(start, end) == [start |-> start, end |-> end]
Rows(key, cut) ==
  [key |-> key, cut |-> cut, dated |-> "days", pages |-> "all",
   error |-> "raise", absent |-> "fine"]

-----------------------------------------------------------------------------
\* a cursor on the day, and a primary key
LinkedInIntervals == "spans"
LinkedInReport == Asked("cursor", "today") @@ Rows("row", LinkedInIntervals)
GoogleAdsReport == Asked("cursor", "today") @@ Rows("row", "range")
FrankfurterRates == Asked("cursor", "today") @@ Rows("row", "range")
PulseMetric == Asked("cursor", "today") @@ Rows("row", "range")
AnthropicCodeUsage == Asked("cursor", "today") @@ Rows("row", "days")
\* the cursor is shared by all applications, and each must have a report
AppStoreReport ==
  [Asked("cursor", "today") @@ Rows("row", "range") EXCEPT !.absent = "raise"]

\* a cursor on the day, which is the merge key
FacebookInsights == Asked("cursor", "today") @@ Rows("day", "days")
AppsFlyerReport == Asked("cursor", "today") @@ Rows("day", "range")
AppsFlyerCreatives == Asked("cursor", "today") @@ Rows("day", "range")
\* by all its dimensions, the day among them
AppsFlyerCustom == Asked("cursor", "today") @@ Rows("row", "range")
AppLovinMaxRevenue == Asked("cursor", "yesterday") @@ Rows("day", "days")
\* ten polls, then the day is passed over
IndeedReportForDay == "ends"
IndeedTraffic ==
  [Asked("cursor", "today") @@ Rows("day", "days") EXCEPT !.error = IndeedReportForDay]

\* a given window
AppLovinReport == Asked("window", "yesterday") @@ Rows("row", "range")
AppLovinSkaReport == Asked("window", "yesterday") @@ Rows("day", "range")
\* pages by the number of rows, until a short one or a million rows
GoogleAnalyticsPages == [Rows("day", "range") EXCEPT !.pages = "capped"]
GoogleAnalyticsReport ==
  Asked("window", "today") @@ [GoogleAnalyticsPages EXCEPT !.dated = "instants"]
\* from instant to instant
TikTokIntervals == [Rows("row", "spans") EXCEPT !.dated = "instants"]
TikTokReport == Asked("window", "today") @@ TikTokIntervals
AdjustCampaigns == Asked("window", "today") @@ Rows("day", "range")
AdjustCustom == Asked("window", "today") @@ Rows("both", "range")
SnapchatStatsRange == Asked("window", "today")
SnapchatStatsRows == Rows("row", "range")   \* a series of days
\* of each entity that is listed; a reply that is not a success fails the run
SnapchatStatsReply == "raise"
SnapchatEntityStats == [SnapchatStatsRows EXCEPT !.error = SnapchatStatsReply]
SnapchatStats == SnapchatStatsRange @@ SnapchatEntityStats
\* one request for each account, each of which must succeed
RedditRequest == Rows("row", "range")
RedditReport == Asked("window", "today") @@ RedditRequest
AnthropicCosts == Asked("window", "today") @@ Rows("row", "range")
GoogleAdsQuery == Asked("window", "today") @@ Rows("none", "range")

\* Different sources may have equal features: each is checked once.
ReportConnectors ==
  {LinkedInReport, GoogleAdsReport, FrankfurterRates, PulseMetric,
   AnthropicCodeUsage, AppStoreReport, FacebookInsights, AppsFlyerReport,
   AppsFlyerCreatives, AppsFlyerCustom,
   AppLovinMaxRevenue, IndeedTraffic, AppLovinReport, AppLovinSkaReport,
   GoogleAnalyticsReport, TikTokReport, AdjustCampaigns, AdjustCustom,
   SnapchatStats, RedditReport, AnthropicCosts, GoogleAdsQuery}
=============================================================================
