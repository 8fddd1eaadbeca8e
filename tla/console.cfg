\* Two tabs of one session, two requests under way at a time.
SPECIFICATION MCSpec
CONSTANTS
  MaxTabs = 2
  Values = {v}
  Permitted <- AllButRevoke
  MaxSessions = 1
  MaxTokens = 2
  MaxRequests = 2
  Null = Null
INVARIANTS JournalReplays RefusedOnlyWhenOvertaken
PROPERTY NoTokenlessConsole
CHECK_DEADLOCK FALSE
