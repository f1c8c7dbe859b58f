\* A rule pass that failed, against the promise that the next poll retries it.
SPECIFICATION FeedSpec
CONSTANTS
    Docs <- MCDocs
    ItemCap = 2
    MaxLevel = 1
    MaxFeedFaults = 1
    MaxRestarts = 0
PROPERTIES
    NextPollRetries
CHECK_DEADLOCK FALSE
