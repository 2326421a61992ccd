----------------------------- MODULE PageParser -----------------------------
(***************************************************************************)
(* parse of app/core/parser.py and chunk of app/core/chunker.py.  The tree *)
(* of a page is the sequence of its nodes in document order; a node knows  *)
(* the last node below it, so what is below node e is e + 1 .. d[e].last.  *)
(* _extract_body_text runs first and decomposes nodes of the tree that     *)
(* every later extraction reads.                                           *)
(***************************************************************************)
EXTENDS UrlNormal, Lists

Headings == {"h1", "h2", "h3", "h4", "h5", "h6"}

EXCLUDE_TAGS == {"script", "style", "nav", "footer", "header", "link", "noscript",
                 "g", "menu", "button", "svg", "canvas"}

(***************************************************************************)
(* A node is [tag, last, ad, data]: ad when its class is one of            *)
(* EXCLUDE_CLASSES; data is what a "text" says, the content of a meta tag, *)
(* the href of an "a", whether an "img" has a non-blank alt, whether a     *)
(* canonical "link" has an href, and the JSON of a "script".               *)
(***************************************************************************)
IsTree(d) == DOMAIN d = 1 .. Len(d) /\ Len(d) \in Nat /\ \A i \in DOMAIN d :
    /\ d[i].last \in i .. Len(d)
    /\ \A j \in i .. d[i].last : d[j].last <= d[i].last

\* A string of the tree, which is never empty: its words, and whether white space
\* stands before the first and after the last of them.
IsText(t) == /\ t \in [words: Seq(STRING), opens: BOOLEAN, ends: BOOLEAN]
             /\ t.words = <<>> => t.opens /\ t.ends

\* A string that may be missing: given, unless it is None or empty, and its words.
Strings  == [given: BOOLEAN, words: Seq(STRING)]
IsGiven(t) == t \in Strings /\ (~t.given => t.words = <<>>)
NoString == [given |-> FALSE, words |-> <<>>]

\* An entry of the mainEntity of a FAQPage: whether it has a name, what its two
\* texts are ("empty": a value without text for the code, "other": one it fails
\* on), and the words of those that are text.
Answers  == {"absent", "empty", "text", "other"}
FaqEntry == [name: BOOLEAN, accepted: Answers, text: Answers, words: Nat]

\* A script's JSON: whether it is JSON-LD, whether json.loads accepts it, the
\* @type strings anywhere in it, the entries of its FAQPage nodes in their order.
Json == [ld: BOOLEAN, valid: BOOLEAN, types: SUBSET STRING, entries: Seq(FaqEntry),
         words: Seq(STRING)]

IsDocument(d) == IsTree(d) /\ \A i \in DOMAIN d :
    /\ d[i].tag = "text" => IsText(d[i].data)
    /\ d[i].tag = "meta" => /\ d[i].data \in [name: STRING, content: Strings]
                            /\ IsGiven(d[i].data.content)
    /\ d[i].tag \in {"img", "link"} => d[i].data \in BOOLEAN
    /\ d[i].tag = "script" => d[i].data \in Json

Below(d, e)   == e + 1 .. d[e].last
Tagged(d, ts) == {i \in DOMAIN d : d[i].tag \in ts}
First(S)      == CHOOSE i \in S : \A j \in S : i <= j
Parent(d, e)  == CHOOSE p \in 0 .. e - 1 :
    /\ p # 0 => e <= d[p].last
    /\ \A q \in p + 1 .. e - 1 : d[q].last < e

-----------------------------------------------------------------------------
(* The order of parse.                                                     *)

\* soup.find("main") or soup.find("body"), 0 for neither.
Container(d) ==
    IF Tagged(d, {"main"}) # {} THEN First(Tagged(d, {"main"}))
    ELSE IF Tagged(d, {"body"}) # {} THEN First(Tagged(d, {"body"}))
    ELSE 0

Inside(d) == IF Container(d) = 0 THEN {} ELSE Below(d, Container(d))

\* Mutant of Gone: JSON-LD is spared.
GoneButJson(d) == UNION {{e} \cup Below(d, e) : e \in {i \in Inside(d) :
    d[i].tag \in EXCLUDE_TAGS \ {"script"} \/ d[i].ad}}

\* What _extract_body_text decomposes: excluded nodes with all that is below them.
Gone(d) == UNION {{e} \cup Below(d, e) : e \in {i \in Inside(d) :
    d[i].tag \in EXCLUDE_TAGS \/ d[i].ad}}

Left(d) == DOMAIN d \ Gone(d)
Found(d, ts) == Tagged(d, ts) \cap Left(d)

-----------------------------------------------------------------------------
(* The extractions, on what is left.                                       *)

\* The text nodes of S, in order.
TextsOf(d, S) == Picked(d, S \cap Found(d, {"text"}))

\* get_text(separator=" ", strip=True): the words of every text of S.
Words(d, S) ==
    LET texts == TextsOf(d, S)
    IN  FlattenSeq([k \in DOMAIN texts |-> texts[k].data.words])

BodyText(d) == Words(d, Inside(d))

\* .text has no separator: the last word of a text and the first of the next are
\* one word where no white space stands between them.
Continues(texts, k) == k > 1 /\ ~texts[k].data.opens /\ ~texts[k - 1].data.ends
JoinedLength(texts) ==
    Total([k \in DOMAIN texts |-> Len(texts[k].data.words) - IF Continues(texts, k) THEN 1 ELSE 0])

\* soup.find: what is read of the first node of S, or a default without one.
FirstOf(d, S, default, Data(_)) == IF S = {} THEN default ELSE Data(First(S))

\* .string: the text of a node below which is nothing else but what is around it.
StringOf(d, e) ==
    LET left == Below(d, e) \cap Left(d)
    IN  FirstOf(d, {t \in left \cap Tagged(d, {"text"}) :
                       \A k \in left : k = t \/ t \in Below(d, k)}, NoString,
                LAMBDA t : [given |-> TRUE, words |-> d[t].data.words])

Title(d) == FirstOf(d, Found(d, {"title"}), NoString, LAMBDA i : StringOf(d, i))
Meta(d, name) ==
    FirstOf(d, {i \in Found(d, {"meta"}) : d[i].data.name = name}, NoString,
            LAMBDA i : d[i].data.content)
Canonical(d) == FirstOf(d, Found(d, {"link"}), FALSE, LAMBDA i : d[i].data)

HeadingsOf(d) ==
    LET hs == InOrder(Found(d, Headings))
    IN  [k \in DOMAIN hs |-> [tag |-> d[hs[k]].tag,
                               words |-> JoinedLength(TextsOf(d, Below(d, hs[k])))]]

ImagesWithoutAlt(d) == Cardinality({i \in Found(d, {"img"}) : ~d[i].data})

\* The links of a set of nodes, as the parser and Crawler._extract_links take them.
LinksOf(d, S, base) ==
    LET url == [i \in S |-> normalize_url(d[i].data, base)]
    IN  Picked(url, {i \in S : url[i] # NoUrl})
InternalLinks(d, base) == LinksOf(d, Found(d, {"a"}), base)
CrawlerLinks(d, base)  == LinksOf(d, Tagged(d, {"a"}), base)

-----------------------------------------------------------------------------
(* JSON-LD.                                                                *)

JsonLd(d) == {i \in Found(d, {"script"}) : d[i].data.ld /\ d[i].data.valid}
SchemaTypes(d) == UNION {d[i].data.types : i \in JsonLd(d)}
Entries(d) ==
    LET scripts == Picked(d, JsonLd(d))
    IN  FlattenSeq([k \in DOMAIN scripts |-> scripts[k].data.entries])

IsItem(e) == e.name /\ (e.accepted # "absent" \/ e.text # "absent")

\* A list item that is no object has no get; " ".join takes strings only.
BreaksItem(e) == IsItem(e) /\ "other" \in {e.accepted, e.text}

Breaks(d) == \E k \in DOMAIN Entries(d) : BreaksItem(Entries(d)[k])
FaqItems(d) ==
    LET items == Picked(Entries(d), {k \in DOMAIN Entries(d) : IsItem(Entries(d)[k])})
    IN  [k \in DOMAIN items |-> items[k].words]

-----------------------------------------------------------------------------
(* Sections and chunks.                                                    *)

\* Text of one following sibling; a script asked for its own text returns it.
SiblingWords(d, k) ==
    IF d[k].tag = "script" THEN d[k].data.words ELSE Words(d, {k} \cup Below(d, k))

SectionOf(d, h) ==
    LET after   == {k \in Left(d) : k > d[h].last /\ Parent(d, k) = Parent(d, h)}
        stop    == {k \in after : d[k].tag \in Headings}
        content == InOrder({k \in after : \A s \in stop : k < s})
    IN  [heading |-> Len(Words(d, Below(d, h))),
         content |-> Total([n \in DOMAIN content |-> Len(SiblingWords(d, content[n]))])]

Sections(d) == LET hs == InOrder(Found(d, Headings))
               IN  [k \in DOMAIN hs |-> SectionOf(d, hs[k])]

\* Mutant of Chunks: a section needs only a heading.
ChunksOfHeadings(page) == InOrder({k \in DOMAIN page.sections : page.sections[k].heading > 0})

\* chunk: the positions of the sections that have both a heading and content.
Chunks(page) == InOrder({k \in DOMAIN page.sections :
    page.sections[k].heading > 0 /\ page.sections[k].content > 0})

\* parse of a page that does not raise.
Parsed(url, d) ==
    [url         |-> url,
     body        |-> BodyText(d),
     has_schema  |-> JsonLd(d) # {},
     schema_types |-> SchemaTypes(d),
     faq_items   |-> FaqItems(d),
     images      |-> ImagesWithoutAlt(d),
     title       |-> Title(d),
     description |-> Meta(d, "description"),
     robots      |-> Meta(d, "robots"),
     canonical   |-> Canonical(d),
     headings    |-> HeadingsOf(d),
     links       |-> InternalLinks(d, url),
     sections    |-> Sections(d)]
=============================================================================
