SPECIFICATION Spec
CONSTANTS
    Hosts = {"site", "other", "v6"}
    Literals = {"v6"}
    Mangled = "2001"
    Names = {"root", "moved", "about", "admin", "gone"}
    NoUrl = NoUrl
    Similarities <- SomeSimilarities
    Crawls <- SmallCrawls
\* An audit ends.
CHECK_DEADLOCK FALSE
INVARIANTS TypeOK SchemaSeen OnlyFaqsRaise EveryPageReported SiteBetweenPages TopFive LinksAgree
