SPECIFICATION Spec
CONSTANTS
    Pages = {home, p1}
    Assets = {}
    Foreign = {}
    Refused = {}
    BadPort = {port}
    Malformed = {}
    Seeds = {home}
    Limit = 2
    Concurrency = 2
    MaxRedirects = 1
    MaxLinks = 1
CHECK_DEADLOCK FALSE
INVARIANT OneUrlNeverEndsTheCrawl
