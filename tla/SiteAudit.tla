------------------------------ MODULE SiteAudit ------------------------------
(***************************************************************************)
(* orchestrate of app/core/orchestrator.py after the crawl: the pages of   *)
(* the crawl are parsed, then scored (app/core/scorer.py), then chunked,   *)
(* embedded and scored for alignment (app/core/semantic_scorer.py), and    *)
(* the report is put together.  Composes PageParser and PageScore; the     *)
(* embedding model is external: it answers with any similarity.            *)
(***************************************************************************)
EXTENDS PageParser, PageScore

CONSTANTS
    Crawls,        \* what Crawler.crawl may return: pages and failures
    Similarities   \* hundredths of the cosine of a heading and its content

ASSUME SimilaritiesAssumption == Similarities \subseteq -100 .. 100
\* Every page is of the host of the submitted URL, as its normalised form was: a
\* site addressed by an IPv6 literal yields none (LiteralLeavesScope).
ASSUME CrawlsAssumption == \A c \in Crawls :
    /\ Len(c.pages) \in Nat /\ DOMAIN c.pages = 1 .. Len(c.pages)
    /\ \A k \in DOMAIN c.pages :
          IsDocument(c.pages[k].doc) /\ HostOf(c.pages[k].url) \notin Literals

VARIABLES
    pc,        \* where orchestrate is
    crawl,     \* crawl_output
    parsed, scored, semantic,   \* as in the code, one entry per page so far
    report     \* the OrchestrationResult, NoReport before

vars == <<pc, crawl, parsed, scored, semantic, report>>

NoReport == [crawled |-> 0]

-----------------------------------------------------------------------------
(* Means, and the most frequent of a list.                                 *)

\* Mutant of Mean: the sum is divided by one page more.
MeanOffByOne(s) == IF s = <<>> THEN 0 ELSE Round(Total(s), Len(s) + 1)

\* round(sum(s) / len(s)), 0 for an empty list.
Mean(s) == IF s = <<>> THEN 0 ELSE Round(Total(s), Len(s))

Count(s, x)   == Cardinality({i \in DOMAIN s : s[i] = x})
FirstAt(s, x) == First({i \in DOMAIN s : s[i] = x})

\* Mutant of Ahead: the items are taken in the order they came.
AheadByPlace(s, x, y) == FirstAt(s, x) < FirstAt(s, y)

Ahead(s, x, y) ==
    \/ Count(s, x) > Count(s, y)
    \/ Count(s, x) = Count(s, y) /\ FirstAt(s, x) < FirstAt(s, y)

\* Counter(s).most_common(5): ties in the order of their first occurrence.
MostCommon(s) ==
    LET all  == ToSet(s)
        best == Ranked(all, {p \in all \X all : Ahead(s, p[1], p[2])})
    IN  [k \in 1 .. Smaller(5, Cardinality(all)) |-> best[k]]

-----------------------------------------------------------------------------
(* Scores of a page.                                                       *)

\* The numbers score_page reads; an unknown directive or type counts for nothing.
Measured(p) ==
    [titled |-> p.title.given, title |-> Len(p.title.words),
     described |-> p.description.given, description |-> Len(p.description.words),
     canonical |-> p.canonical,
     robots |-> Picked(p.robots.words, {k \in DOMAIN p.robots.words :
                                           p.robots.words[k] \in DOMAIN RobotsPoints}),
     words |-> Len(p.body), distinct |-> Cardinality(ToSet(p.body)),
     headings |-> p.headings, schema |-> p.has_schema,
     types |-> p.schema_types \cap DOMAIN TypePoints,
     faqs |-> Len(p.faq_items), answers |-> Total(p.faq_items),
     links |-> Len(p.links), images |-> p.images]

\* Mutant of Rounded: the weights are taken for percentages.
RoundedUnscaled(hundredths) == {hundredths}

\* The float sum rounds an exact tie either way.
Rounded(hundredths) ==
    {n \in {hundredths \div 100, hundredths \div 100 + 1} :
        /\ 2 * (hundredths - 100 * n) <= 100
        /\ 2 * (100 * n - hundredths) <= 100}

\* score_individual_chunk: the recommendation of a chunk.
ChunkAdvice(score) ==
    IF score > 70 THEN "none" ELSE IF score > 30 THEN "rewrite" ELSE "realign"

\* score_chunks: the recommendation of a page.
PageAdvice(score) ==
    IF score > 70 THEN <<>> ELSE IF score >= 40 THEN <<"review">> ELSE <<"audit">>

Semantic(url, alignments) ==
    [url |-> url, overall |-> Mean(alignments), alignments |-> alignments,
     advice |-> [k \in DOMAIN alignments |-> ChunkAdvice(alignments[k])]]

\* Why a page could not be reached: the status' message, else the crawler's
\* detail, else a default.
Reason(failure) ==
    IF failure.known THEN "status" ELSE IF failure.detail THEN "detail" ELSE "default"

-----------------------------------------------------------------------------

Page == Len(parsed) + 1

\* parse of the next page; an exception leaves orchestrate.
Parse ==
    /\ pc = "parse" /\ Page <= Len(crawl.pages)
    /\ IF Breaks(crawl.pages[Page].doc)
       THEN pc' = "raised" /\ UNCHANGED parsed
       ELSE /\ parsed' = Append(parsed, Parsed(crawl.pages[Page].url, crawl.pages[Page].doc))
            /\ UNCHANGED pc
    /\ UNCHANGED <<crawl, scored, semantic, report>>

\* on_status_change("SCORING"); AuditJobs has what may fail in it.
AnnounceScoring ==
    /\ pc = "parse" /\ Page > Len(crawl.pages)
    /\ pc' = "score"
    /\ UNCHANGED <<crawl, parsed, scored, semantic, report>>

\* score_page of the next page.  Its UnreachablePage is never returned: a page
\* that the crawler returns has status 200.
ScorePage == LET p == parsed[Len(scored) + 1] IN
    /\ pc = "score" /\ Len(scored) < Len(parsed)
    /\ \E overall \in Rounded(Weighted(Measured(p))) :
          scored' = Append(scored, [url |-> p.url, overall |-> overall,
                                    advice |-> Advice(Measured(p))])
    /\ UNCHANGED <<pc, crawl, parsed, semantic, report>>

StartSemantic ==
    /\ pc = "score" /\ Len(scored) = Len(parsed)
    /\ pc' = "semantic"
    /\ UNCHANGED <<crawl, parsed, scored, semantic, report>>

\* The pages that are embedded: those with a chunk.
WithChunks == Picked(parsed, {k \in DOMAIN parsed : Chunks(parsed[k]) # <<>>})

Embed == LET p == WithChunks[Len(semantic) + 1] IN
    /\ pc = "semantic" /\ Len(semantic) < Len(WithChunks)
    /\ \/ \E alignments \in [DOMAIN Chunks(p) -> Similarities] :
             /\ semantic' = Append(semantic, Semantic(p.url, alignments))
             /\ UNCHANGED pc
       \/ pc' = "raised" /\ UNCHANGED semantic
    /\ UNCHANGED <<crawl, parsed, scored, report>>

OverallOf(s) == [k \in DOMAIN s |-> s[k].overall]

\* The recommendations of all pages, in the order of the pages.
AllAdvice(s)         == FlattenSeq([k \in DOMAIN s |-> s[k].advice])
AllSemanticAdvice(s) == FlattenSeq([k \in DOMAIN s |-> PageAdvice(s[k].overall)])

\* score_site, score_semantic and the OrchestrationResult.
Result ==
    [crawled |-> Len(crawl.pages),
     overall |-> Mean(OverallOf(scored)),
     semantic |-> Mean(OverallOf(semantic)),
     pages |-> scored, semantic_pages |-> semantic,
     unreachable |-> [k \in DOMAIN crawl.failures |->
         [url |-> crawl.failures[k].url, reason |-> Reason(crawl.failures[k])]],
     recommendations |-> MostCommon(AllAdvice(scored)),
     semantic_recommendations |-> MostCommon(AllSemanticAdvice(semantic))]

Finish ==
    /\ pc = "semantic" /\ Len(semantic) = Len(WithChunks)
    /\ pc' = "done"
    /\ report' = Result
    /\ UNCHANGED <<crawl, parsed, scored, semantic>>

Init ==
    /\ pc = "parse"
    /\ crawl \in Crawls
    /\ parsed = <<>> /\ scored = <<>> /\ semantic = <<>>
    /\ report = NoReport

Next == Parse \/ AnnounceScoring \/ ScorePage \/ StartSemantic \/ Embed \/ Finish

Spec == Init /\ [][Next]_vars
-----------------------------------------------------------------------------
(* Properties.                                                             *)

TypeOK ==
    /\ pc \in {"parse", "score", "semantic", "done", "raised"}
    /\ crawl \in Crawls
    /\ Len(parsed) <= Len(crawl.pages) /\ Len(scored) <= Len(parsed)
    /\ Len(semantic) <= Len(WithChunks)
    /\ \A k \in DOMAIN scored : scored[k].overall \in 0 .. 100
    /\ report.crawled \in 0 .. Len(crawl.pages)

Doc(k) == crawl.pages[k].doc

\* The valid JSON-LD of a page as its author wrote it, wherever it stands.
Written(d) == {i \in Tagged(d, {"script"}) : d[i].data.ld /\ d[i].data.valid}

(***************************************************************************)
(* Which structured data the scorer hears of, although the body text is    *)
(* extracted first and destroys scripts: every valid JSON-LD that stands   *)
(* outside the page's main element (or body, without one), and no other.   *)
(* A page whose only JSON-LD is inside it is told to add JSON-LD.          *)
(***************************************************************************)
SchemaSeen == \A k \in DOMAIN parsed :
    LET seen == Written(Doc(k)) \ Inside(Doc(k)) IN
    /\ parsed[k].has_schema <=> seen # {}
    /\ parsed[k].schema_types = UNION {Doc(k)[i].data.types : i \in seen}

Broken(d) == \E i \in Written(d) \ Inside(d) :
    \E n \in DOMAIN d[i].data.entries : BreaksItem(d[i].data.entries[n])

(***************************************************************************)
(* One page ends the audit of the whole site exactly when a FAQ entry that *)
(* the parser reads holds an answer the code fails on; whatever else a     *)
(* page contains, and the same entry in a place the parser does not read,  *)
(* is scored.                                                              *)
(***************************************************************************)
OnlyFaqsRaise ==
    /\ \A k \in DOMAIN parsed : ~Broken(Doc(k))
    /\ pc = "raised" => Len(parsed) = Len(crawl.pages) \/ Broken(Doc(Page))

(***************************************************************************)
(* A report accounts for every page of the crawl once and in its order: as *)
(* scored, as unreachable, and as embedded if it has a section with text.  *)
(* So the worker's check for "no page scored" never holds after the one    *)
(* for "no page crawled" (AuditJobs).                                      *)
(***************************************************************************)
UrlsOf(s) == [k \in DOMAIN s |-> s[k].url]

EveryPageReported == pc = "done" =>
    /\ UrlsOf(report.pages) = UrlsOf(crawl.pages)
    /\ UrlsOf(report.unreachable) = UrlsOf(crawl.failures)
    /\ report.crawled = Len(report.pages)
    /\ UrlsOf(report.semantic_pages)
        = UrlsOf(Picked(parsed, {k \in DOMAIN parsed : \E n \in DOMAIN parsed[k].sections :
              parsed[k].sections[n].heading > 0 /\ parsed[k].sections[n].content > 0}))

Between(n, s) ==
    IF s = <<>> THEN n = 0
    ELSE (\E k \in DOMAIN s : s[k] <= n) /\ (\E k \in DOMAIN s : n <= s[k])

(***************************************************************************)
(* A site scores between its worst and its best page, and its semantic     *)
(* clarity lies between its worst and its best section's: taking the mean  *)
(* of rounded means never leaves that range.  That the range is 0-100 is   *)
(* another matter (SemanticInRange).                                       *)
(***************************************************************************)
SiteBetweenPages == pc = "done" =>
    /\ Between(report.overall, OverallOf(scored))
    /\ Between(report.semantic, FlattenSeq([k \in DOMAIN semantic |-> semantic[k].alignments]))

(***************************************************************************)
(* README.md:70, "Overall and per-category scores are 0-100", of the       *)
(* category "Semantic clarity" that README.md:68 lists.  The code breaks   *)
(* it: a cosine may be negative, and nothing clamps it.                    *)
(***************************************************************************)
SemanticInRange == pc = "done" => report.semantic \in 0 .. 100

(***************************************************************************)
(* The recommendations of a site are five of the most frequent of its      *)
(* pages: none that is left out was given more often than one that is      *)
(* shown, and none is shown twice.                                         *)
(***************************************************************************)
TopFive == pc = "done" =>
    LET given == AllAdvice(scored)
        shown == report.recommendations
    IN  /\ IsInjective(shown)
        /\ Len(shown) = Smaller(5, Cardinality(ToSet(given)))
        /\ \A k \in DOMAIN shown, x \in ToSet(given) \ ToSet(shown) :
               Count(given, x) <= Count(given, shown[k])

(***************************************************************************)
(* The parser and the crawler read the links of one page from two trees.   *)
(* A link that is scored is one the crawler follows, on the page's host,   *)
(* of the form assert_url_safe accepts and unchanged by normalising it     *)
(* again.  And a page that is told it has no internal links, while the     *)
(* crawler follows some, has them all in decomposed parts.                 *)
(***************************************************************************)
LinksAgree == \A k \in DOMAIN parsed :
    LET d == Doc(k)
        base == parsed[k].url
        followed == {i \in Tagged(d, {"a"}) : normalize_url(d[i].data, base) # NoUrl}
    IN  /\ ToSet(parsed[k].links) \subseteq ToSet(CrawlerLinks(d, base))
        /\ \A u \in ToSet(CrawlerLinks(d, base)) :
               InScope(u, base) /\ SafeForm(u) /\ Settled(u, base)
        /\ parsed[k].links = <<>> => \A i \in followed : \E e \in Inside(d) :
               i \in e .. d[e].last /\ (d[e].tag \in EXCLUDE_TAGS \/ d[e].ad)
=============================================================================
