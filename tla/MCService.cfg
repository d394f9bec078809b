SPECIFICATION MCSpec
CONSTANTS
  p1 = p1
  p2 = p2
  n1 = n1
  n2 = n2
  c1 = c1
  c2 = c2
  Listed <- MCListed
  ListedNotifiers <- MCListedNotifiers
  ReportChannels <- MCReportChannels
  Channels = {c1, c2}
  Names = {"a", "b"}
  Formats = {"text", "discord"}
  Requests <- MCRequests
  DefaultPageSize = 1
  MaxInt = 7
  SlackFields = 3
  DiscordFields = 1
  TelegramRows = 1
  RetryTimes = 2
  MaxRounds = 1
INVARIANTS
  TypeOK
  ShownAsSaved
  
PROPERTIES
  PanicsForKnownReason
  ReportsDelivered
\* The process ends: by exit, for want of a prober, or in a panic.
CHECK_DEADLOCK FALSE
