SPECIFICATION FairSpec
CONSTANTS
    Pages = {home, p1, p2}
    Assets = {}
    Foreign = {other}
    Refused = {user}
    BadPort = {port}
    Malformed = {odd}
    Seeds = {home, other}
    Limit = 3
    Concurrency = 2
    MaxRedirects = 1
    MaxLinks = 2
\* The crawl ends.
CHECK_DEADLOCK FALSE
INVARIANTS TypeOK WithinLimit RequestsAreVetted EachUrlOnce FrontierExhausted RobotsHonoured
PROPERTY CrawlEnds
