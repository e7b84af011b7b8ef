SPECIFICATION DeskSpec
CONSTANTS
None = None
Focuses = {"prefs"}
TeamAliases <- MCTeamAliases
SeriesWindow <- MCSeriesWindow
EasternLag = 4
OfferMarkets <- MCOfferMarkets
Ladders <- MCLadders
PrefChoices <- MCPrefChoices
Fairs = {3000, 4690, 5210, 5400, 6000}
Listing <- MCListing
Absences <- MCAbsences
BookGames <- MCBookGames
OwnGame <- MCOwnGame
Hours = {10, 16, 24}
SlatePrefs <- MCPrefs
SlateAsks <- MCSlateAsks
Method = "multiplicative"
MatchWindow = 36
StaleHours = 8
MaxSlateScans = 2
MaxChanges = 2
Transactions <- MCTransactions
FillKickoff = 5
Lookback = 2
TradesPage = 3
MaxTradePages = 4
MaxImports = 2
MaxSamples = 2
History <- MCHistory
TradeLimit = 3
CommitEvery = 4
Limits = {None, 1}
MaxHarvests = 2
MaxSetbacks = 3
Clients = {"home", "cafe"}
Home = "home"
LimitPerClient = 2
LimitGlobal = 4
BaseLockout = 1
MaxLockout = 3
MaxFailures = 7
MaxPasswords = 2
FeedLeague = "nba"
FeedEvents <- MCFeedEvents
PlainOrder <- MCPlainOrder
TeamOfId <- MCTeamOfId
EventsPageSize = 2
MaxEventPages = 4
MaxFetches = 2
MaxListChanges = 3
Enabled = 2
CreditCost = 3
Retries = 2
Budget = 30
MaxRefreshes = 2
HistoryRows <- MCHistoryRows
BakeRate = 7
MaxCloseAge = 3
MaxPairError = 3
MinN = 2
Published <- MCPublished
DefaultVenue = "com"
LegacyFee = 500
TypedRates = {500, 600, 695, 2500}
Tabs = {"phone", "laptop"}
MaxPosts = 3
INVARIANT FeeFollowsVenue
CHECK_DEADLOCK FALSE
