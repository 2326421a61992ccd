-------------------------- MODULE SiteAudit_proofs --------------------------
(***************************************************************************)
(* What normalize_url does to a link and the parse to a page, for every    *)
(* reference and every tree, and what the report of an audit then is.      *)
(***************************************************************************)
EXTENDS SiteAudit, PageScore_proofs

-----------------------------------------------------------------------------
(* Links.                                                                  *)

LEMMA TidyForm ==
    ASSUME NEW u
    PROVE  /\ Tidy(u).scheme = u.scheme
           /\ Tidy(u).netloc = [host |-> HostOf(u), brackets |-> FALSE, port |-> "none",
                                creds |-> FALSE]
           /\ Tidy(u).path.lower /\ Tidy(u).path.slashes = 0
           /\ Tidy(u).extra = FALSE
BY DEF Tidy

(* A normalised URL has the host its page has, which names it unless it is  *)
(* an IPv6 address.                                                         *)
LEMMA NormalForm ==
    ASSUME NEW base, NEW ref, normalize_url(ref, base) # NoUrl,
           HostOf(base) \notin Literals
    PROVE  /\ normalize_url(ref, base) = Tidy(Join(base, ref))
           /\ HostOf(Join(base, ref)) = HostOf(base)
           /\ normalize_url(ref, base).scheme \in {"http", "https"}
           /\ ~normalize_url(ref, base).netloc.creds
           /\ HostOf(normalize_url(ref, base)) = HostOf(base)
           /\ PortOf(normalize_url(ref, base)) = "none"
<1> DEFINE v == Join(base, ref)
           u == normalize_url(ref, base)
<1>1. u = Tidy(v) /\ v.scheme \in {"http", "https"} /\ HostOf(v) = HostOf(base)
  BY DEF normalize_url
<1>2. /\ u.scheme \in {"http", "https"}
      /\ u.netloc = [host |-> HostOf(base), brackets |-> FALSE, port |-> "none", creds |-> FALSE]
  BY <1>1, TidyForm
<1>3. HostOf(u) = HostOf(base) /\ PortOf(u) = "none"
  BY <1>2 DEF HostOf, PortOf
<1> QED
  BY <1>1, <1>2, <1>3

(* Links of a page whose host is a name: what is queued passes every check  *)
(* that assert_url_safe makes of its form, and is on the page's host.       *)
THEOREM NormalIsSafe ==
    ASSUME NEW base, NEW ref, HostOf(base) \notin Literals,
           normalize_url(ref, base) # NoUrl
    PROVE  SafeForm(normalize_url(ref, base)) /\ InScope(normalize_url(ref, base), base)
<1> DEFINE u == normalize_url(ref, base)
<1>1. u.scheme \in {"http", "https"} /\ ~u.netloc.creds /\ PortOf(u) = "none"
      /\ HostOf(u) = HostOf(base)
  BY NormalForm
<1> QED
  BY <1>1 DEF SafeForm, InScope

(* One form per page: a normalised URL is left as it is by normalising it   *)
(* again, from any page of that host, so visited compares like with like.   *)
THEOREM NormalIsSettled ==
    ASSUME NEW base, NEW ref, HostOf(base) \notin Literals,
           normalize_url(ref, base) # NoUrl,
           NEW other, HostOf(other) = HostOf(base)
    PROVE  Settled(normalize_url(ref, base), other)
<1> DEFINE u == normalize_url(ref, base)
<1> DEFINE v == Join(base, ref)
<1>1. u = Tidy(v) /\ HostOf(v) = HostOf(base)
  BY NormalForm
<1>2. u.scheme \in {"http", "https"} /\ HostOf(u) = HostOf(other)
  BY NormalForm
<1>3. Tidy(u) = u
  <2>1. HostOf(u) = HostOf(v)
    BY <1>1, <1>2
  <2>2. u.scheme = v.scheme /\ u.path.name = v.path.name
    BY <1>1 DEF Tidy
  <2>3. Tidy(u) = Tidy(v)
    BY <2>1, <2>2 DEF Tidy
  <2> QED
    BY <1>1, <2>3
<1>4. Absolute(u).kind = "url" /\ Join(other, Absolute(u)) = u
  BY DEF Absolute, Join
<1> QED
  BY <1>2, <1>3, <1>4 DEF Settled, normalize_url

(* A host written as an IPv6 address loses its brackets: what normalize_url *)
(* makes of the submitted URL of such a site, and of any link on it, has    *)
(* another host and a port that cannot be read.  crawl puts the normalised  *)
(* form of the submitted URL in its queue, so nothing of it is crawled.     *)
THEOREM LiteralLeavesScope ==
    ASSUME NEW base, NEW ref, HostOf(base) \in Literals,
           normalize_url(ref, base) # NoUrl
    PROVE  /\ ~InScope(normalize_url(ref, base), base)
           /\ ~SafeForm(normalize_url(ref, base))
<1> DEFINE u == normalize_url(ref, base)
           v == Join(base, ref)
<1>1. u = Tidy(v) /\ HostOf(v) = HostOf(base)
  BY DEF normalize_url
<1>2. u.netloc = [host |-> HostOf(base), brackets |-> FALSE, port |-> "none", creds |-> FALSE]
  BY <1>1, TidyForm
<1>3. HostOf(u) = Mangled /\ PortOf(u) = "bad"
  BY <1>2 DEF HostOf, PortOf
<1>4. HostOf(base) # Mangled
  BY HostsAssumption
<1> QED
  BY <1>3, <1>4 DEF InScope, SafeForm

-----------------------------------------------------------------------------
(* Pages.                                                                  *)

LEMMA FirstExists ==
    ASSUME NEW S \in SUBSET Nat, S # {}
    PROVE  First(S) \in S /\ \A j \in S : First(S) <= j
BY LeastExists DEF First, Least

(* A main or body element is a node of the tree.                           *)
LEMMA ContainerIsNode ==
    ASSUME NEW d, IsTree(d), Container(d) # 0
    PROVE  Container(d) \in DOMAIN d
<1>1. \A ts : Tagged(d, ts) \subseteq DOMAIN d /\ Tagged(d, ts) \in SUBSET Nat
  BY DEF IsTree, Tagged
<1>2. \A ts : Tagged(d, ts) # {} => First(Tagged(d, ts)) \in Tagged(d, ts)
  BY <1>1, FirstExists
<1> QED
  BY <1>1, <1>2 DEF Container

(* Decomposing an element takes away nothing outside the container.        *)
LEMMA GoneIsInside ==
    ASSUME NEW d, IsTree(d)
    PROVE  Gone(d) \subseteq Inside(d)
<1> SUFFICES ASSUME NEW e \in Inside(d), NEW i \in {e} \cup Below(d, e)
             PROVE  i \in Inside(d)
  BY DEF Gone
<1> DEFINE c == Container(d)
<1>1. c # 0 /\ e \in c + 1 .. d[c].last /\ Inside(d) = c + 1 .. d[c].last
  BY DEF Inside, Below
<1>2. c \in DOMAIN d /\ c \in Nat /\ d[c].last \in c .. Len(d)
  <2>1. c \in DOMAIN d
    BY <1>1, ContainerIsNode
  <2> HIDE DEF c
  <2> QED
    BY <2>1 DEF IsTree
<1>3. e \in c .. d[c].last /\ e \in Nat
  BY <1>1, <1>2
<1>4. d[e].last <= d[c].last
  BY <1>2, <1>3 DEF IsTree
<1>5. d[e].last \in Nat
  <2>1. e \in DOMAIN d
    BY <1>1, <1>2 DEF IsTree
  <2> QED
    BY <2>1, <1>3 DEF IsTree
<1>6. i \in e .. d[e].last \/ i = e
  BY <1>3, <1>5 DEF Below
<1> QED
  BY <1>1, <1>2, <1>3, <1>4, <1>5, <1>6

(* The nodes of a tree are numbers, and finitely many.                     *)
LEMMA NodesAre ==
    ASSUME NEW d, IsTree(d), NEW S \in SUBSET DOMAIN d
    PROVE  S \in SUBSET Nat /\ S \in SUBSET Int /\ IsFiniteSet(S) /\ Cardinality(S) \in Nat
<1>1. IsFiniteSet(1 .. Len(d)) /\ 1 .. Len(d) \subseteq Nat /\ DOMAIN d = 1 .. Len(d)
  BY FS_Interval DEF IsTree
<1>2. IsFiniteSet(S)
  BY <1>1, FS_Subset
<1> QED
  BY <1>1, <1>2, FS_CardinalityType

LEMMA FoundAre ==
    ASSUME NEW d, NEW ts
    PROVE  /\ Found(d, ts) \in SUBSET DOMAIN d /\ Tagged(d, ts) \in SUBSET DOMAIN d
           /\ \A i \in Found(d, ts) : d[i].tag \in ts
BY DEF Found, Tagged, Left

LEMMA FirstFound ==
    ASSUME NEW d, IsTree(d), NEW S \in SUBSET DOMAIN d, S # {}
    PROVE  First(S) \in S
BY NodesAre, FirstExists

(* A string of the tree.                                                   *)
LEMMA StringsAre ==
    ASSUME NEW t, IsText(t)
    PROVE  /\ t.words \in Seq(STRING) /\ t.opens \in BOOLEAN /\ t.ends \in BOOLEAN
           /\ Len(t.words) \in Nat /\ (Len(t.words) = 0 => t.opens)
BY DEF IsText

(* The text nodes of a part of a page.                                     *)
LEMMA TextListIs ==
    ASSUME NEW d, IsDocument(d), NEW S
    PROVE  /\ DOMAIN TextsOf(d, S) = 1 .. Len(TextsOf(d, S)) /\ Len(TextsOf(d, S)) \in Nat
           /\ \A k \in DOMAIN TextsOf(d, S) : IsText(TextsOf(d, S)[k].data)
<1> DEFINE I == S \cap Found(d, {"text"})
           A == {e \in {d[i] : i \in I} : IsText(e.data)}
           texts == Picked(d, I)
<1>1. I \in SUBSET DOMAIN d /\ \A i \in I : d[i].tag = "text"
  BY FoundAre
<1>2. I \in SUBSET Int /\ IsFiniteSet(I)
  BY <1>1, NodesAre DEF IsDocument
<1>3. \A i \in I : IsText(d[i].data)
  BY <1>1 DEF IsDocument
<1>4. (\A i \in I : d[i] \in A) /\ \A e \in A : IsText(e.data)
  BY <1>3
<1> HIDE DEF I, A
<1>5. texts \in Seq(A)
  BY <1>2, <1>4, PickedIs
<1>6. TextsOf(d, S) = texts
  BY DEF TextsOf, I
<1> HIDE DEF texts
<1>7. /\ Len(texts) \in Nat /\ DOMAIN texts = 1 .. Len(texts)
      /\ \A k \in DOMAIN texts : texts[k] \in A
  BY <1>5
<1> QED
  BY <1>4, <1>6, <1>7, Zenon

LEMMA WordsAre ==
    ASSUME NEW d, IsDocument(d), NEW S
    PROVE  Words(d, S) \in Seq(STRING)
<1> DEFINE texts == TextsOf(d, S)
           parts == [k \in DOMAIN texts |-> texts[k].data.words]
<1>1. Words(d, S) = FlattenSeq(parts)
  BY DEF Words
<1>2. /\ DOMAIN texts = 1 .. Len(texts) /\ Len(texts) \in Nat
      /\ \A k \in DOMAIN texts : IsText(texts[k].data)
  BY TextListIs
<1> HIDE DEF texts
<1>3. \A k \in DOMAIN texts : texts[k].data.words \in Seq(STRING)
  BY <1>2, StringsAre
<1>4. parts \in Seq(Seq(STRING))
  BY <1>2, <1>3
<1> HIDE DEF parts
<1> QED
  BY <1>1, <1>4, FlattenParts

(* Words that run together are fewer, but never less than none.            *)
LEMMA JoinedIs ==
    ASSUME NEW d, IsDocument(d), NEW S
    PROVE  JoinedLength(TextsOf(d, S)) \in Nat
<1> DEFINE texts == TextsOf(d, S)
           part(k) == Len(texts[k].data.words) - IF Continues(texts, k) THEN 1 ELSE 0
           parts == [k \in DOMAIN texts |-> part(k)]
<1>1. /\ DOMAIN texts = 1 .. Len(texts) /\ Len(texts) \in Nat
      /\ \A k \in DOMAIN texts : IsText(texts[k].data)
  BY TextListIs
<1>2. JoinedLength(texts) = Total(parts)
  BY DEF JoinedLength
<1> HIDE DEF texts
<1>3. \A k \in DOMAIN texts : part(k) \in Nat
  <2> SUFFICES ASSUME NEW k \in DOMAIN texts PROVE part(k) \in Nat
    OBVIOUS
  <2> DEFINE n == Len(texts[k].data.words)
  <2>1. n \in Nat /\ (n = 0 => texts[k].data.opens)
    BY <1>1, StringsAre
  <2>2. Continues(texts, k) => ~texts[k].data.opens
    BY DEF Continues
  <2> HIDE DEF n
  <2>3. (n - IF Continues(texts, k) THEN 1 ELSE 0) \in Nat
    BY <2>1, <2>2
  <2> QED
    BY <2>3 DEF n
<1> HIDE DEF part
<1>4. Len(parts) = Len(texts) /\ \A k \in 1 .. Len(parts) : parts[k] \in Nat
  BY <1>1, <1>3
<1> HIDE DEF parts
<1>5. Total(parts) \in Nat
  BY <1>1, <1>4, TotalNat
<1> QED
  BY <1>2, <1>5 DEF texts

(* What the scorer reads of any document.                                  *)
LEMMA TextsAre ==
    ASSUME NEW d, IsDocument(d)
    PROVE  /\ IsGiven(Title(d)) /\ BodyText(d) \in Seq(STRING)
           /\ \A name : IsGiven(Meta(d, name))
           /\ Canonical(d) \in BOOLEAN
<1>1. IsGiven(NoString)
  BY DEF IsGiven, Strings, NoString
<1>2. IsGiven(Title(d))
  <2>1. ASSUME NEW e PROVE IsGiven(StringOf(d, e))
    <3> DEFINE left == Below(d, e) \cap Left(d)
               T == {t \in left \cap Tagged(d, {"text"}) :
                         \A k \in left : k = t \/ t \in Below(d, k)}
    <3>1. T \in SUBSET DOMAIN d /\ \A i \in T : d[i].tag = "text"
      BY DEF Tagged
    <3>2. StringOf(d, e) = IF T = {} THEN NoString
                           ELSE [given |-> TRUE, words |-> d[First(T)].data.words]
      BY DEF StringOf, FirstOf
    <3> HIDE DEF T
    <3>3. T # {} => First(T) \in T
      BY <3>1, FirstFound DEF IsDocument
    <3>4. T # {} => d[First(T)].data.words \in Seq(STRING)
      BY <3>1, <3>3, StringsAre DEF IsDocument
    <3> QED
      BY <1>1, <3>2, <3>4 DEF IsGiven, Strings
  <2>2. Title(d) = NoString \/ Title(d) = StringOf(d, First(Found(d, {"title"})))
    BY DEF Title, FirstOf
  <2> QED
    BY <1>1, <2>1, <2>2
<1>3. BodyText(d) \in Seq(STRING)
  BY WordsAre DEF BodyText
<1>4. ASSUME NEW name PROVE IsGiven(Meta(d, name))
  <2> DEFINE S == {i \in Found(d, {"meta"}) : d[i].data.name = name}
  <2>1. S \in SUBSET DOMAIN d /\ \A i \in S : d[i].tag = "meta"
    BY FoundAre
  <2>2. \A i \in S : IsGiven(d[i].data.content)
    BY <2>1 DEF IsDocument
  <2>3. Meta(d, name) = IF S = {} THEN NoString ELSE d[First(S)].data.content
    BY DEF Meta, FirstOf
  <2> HIDE DEF S
  <2>4. S # {} => First(S) \in S
    BY <2>1, FirstFound DEF IsDocument
  <2> QED
    BY <1>1, <2>2, <2>3, <2>4
<1>5. Canonical(d) \in BOOLEAN
  <2> DEFINE S == Found(d, {"link"})
  <2>1. S \in SUBSET DOMAIN d /\ \A i \in S : d[i].tag = "link"
    BY FoundAre
  <2>2. \A i \in S : d[i].data \in BOOLEAN
    BY <2>1 DEF IsDocument
  <2> HIDE DEF S
  <2>3. S # {} => First(S) \in S
    BY <2>1, FirstFound DEF IsDocument
  <2>4. Canonical(d) = IF S = {} THEN FALSE ELSE d[First(S)].data
    BY DEF Canonical, FirstOf, S
  <2> QED
    BY <2>2, <2>3, <2>4
<1> QED
  BY <1>2, <1>3, <1>4, <1>5

HeadingList == Seq([tag: {"h1", "h2", "h3", "h4", "h5", "h6"}, words: Nat])

LEMMA HeadingsAre ==
    ASSUME NEW d, IsDocument(d)
    PROVE  HeadingsOf(d) \in HeadingList
<1> DEFINE S == Found(d, Headings)
           hs == InOrder(S)
<1>1. S \in SUBSET DOMAIN d /\ \A i \in S : d[i].tag \in Headings
  BY FoundAre
<1> HIDE DEF S
<1>2. hs \in Seq(S)
  BY <1>1, NodesAre, InOrderIs DEF IsDocument
<1> HIDE DEF hs
<1> DEFINE entry(i) == [tag |-> d[i].tag,
                         words |-> JoinedLength(TextsOf(d, Below(d, i)))]
           R == [tag: {"h1", "h2", "h3", "h4", "h5", "h6"}, words: Nat]
<1>3. \A i \in S : entry(i) \in R
  <2>1. \A i : JoinedLength(TextsOf(d, Below(d, i))) \in Nat
    BY JoinedIs
  <2> QED
    BY <1>1, <2>1 DEF Headings
<1>4. HeadingsOf(d) = [k \in DOMAIN hs |-> entry(hs[k])]
  BY DEF HeadingsOf, hs, S
<1> HIDE DEF entry, R
<1>5. HeadingsOf(d) \in Seq(R)
  BY <1>2, <1>3, <1>4
<1> QED
  BY <1>5 DEF R, HeadingList

LEMMA InsideAre ==
    ASSUME NEW d, IsTree(d)
    PROVE  Inside(d) \subseteq DOMAIN d
<1> DEFINE c == Container(d)
<1>1. CASE c = 0
  BY <1>1 DEF Inside
<1>2. CASE c # 0
  <2>1. c \in DOMAIN d /\ Inside(d) = c + 1 .. d[c].last
    BY <1>2, ContainerIsNode DEF Inside, Below
  <2> HIDE DEF c
  <2> QED
    BY <2>1 DEF IsTree
<1> QED
  BY <1>1, <1>2

(* The JSON-LD that the scorer hears of is the valid JSON-LD outside the    *)
(* container, whatever the tree: parse runs _extract_body_text first.       *)
THEOREM JsonOutsideIsSeen ==
    ASSUME NEW d, IsTree(d)
    PROVE  JsonLd(d) = Written(d) \ Inside(d)
<1>1. \A i \in Tagged(d, {"script"}) : i \in Gone(d) <=> i \in Inside(d)
  <2> SUFFICES ASSUME NEW i \in Tagged(d, {"script"}), i \in Inside(d)
               PROVE  i \in Gone(d)
    BY GoneIsInside
  <2>1. d[i].tag \in EXCLUDE_TAGS
    BY DEF Tagged, EXCLUDE_TAGS
  <2> QED
    BY <2>1 DEF Gone
<1>2. Tagged(d, {"script"}) \subseteq DOMAIN d
  BY DEF Tagged
<1> QED
  BY <1>1, <1>2 DEF JsonLd, Found, Left, Written

(* What is picked of a list: its elements at the positions.                *)
LEMMA PickedValues ==
    ASSUME NEW s, NEW I \in SUBSET Int, IsFiniteSet(I)
    PROVE  ToSet(Picked(s, I)) = {s[i] : i \in I}
BY PickedSet

(* The FAQ entries that are read: those of the JSON-LD that is left.       *)
LEMMA EntriesAre ==
    ASSUME NEW d, IsDocument(d)
    PROVE  /\ Entries(d) \in Seq(FaqEntry)
           /\ ToSet(Entries(d)) = UNION {ToSet(d[i].data.entries) : i \in JsonLd(d)}
<1> DEFINE I == JsonLd(d)
           L == Seq(FaqEntry)
           A == {e \in {d[i] : i \in I} : e.data.entries \in L}
           scripts == Picked(d, I)
           parts == [k \in DOMAIN scripts |-> scripts[k].data.entries]
<1>1. I \in SUBSET DOMAIN d /\ \A i \in I : d[i].tag = "script"
  BY FoundAre DEF JsonLd
<1>2. I \in SUBSET Int /\ IsFiniteSet(I)
  BY <1>1, NodesAre DEF IsDocument
<1>3. \A i \in I : d[i].data.entries \in L
  BY <1>1 DEF IsDocument, Json
<1>4. (\A i \in I : d[i] \in A) /\ \A e \in A : e.data.entries \in L
  BY <1>3
<1> HIDE DEF I, A, L
<1>5. scripts \in Seq(A) /\ ToSet(scripts) = {d[i] : i \in I}
  <2>1. Picked(d, I) \in Seq(A)
    BY <1>2, <1>4, PickedIs
  <2>2. ToSet(Picked(d, I)) = {d[i] : i \in I}
    BY <1>2, PickedValues
  <2> QED
    BY <2>1, <2>2, Zenon
<1> HIDE DEF scripts
<1>6. parts \in Seq(L) /\ DOMAIN parts = DOMAIN scripts
  BY <1>4, <1>5
<1>7. Parts(parts) = UNION {ToSet(d[i].data.entries) : i \in I}
  <2>1. \A k \in DOMAIN scripts : parts[k] = scripts[k].data.entries
    OBVIOUS
  <2> HIDE DEF parts
  <2>2. {ToSet(parts[k]) : k \in DOMAIN parts} = {ToSet(e.data.entries) : e \in ToSet(scripts)}
    BY <1>6, <2>1 DEF ToSet
  <2>3. {ToSet(e.data.entries) : e \in ToSet(scripts)} = {ToSet(d[i].data.entries) : i \in I}
    BY <1>5
  <2> QED
    BY <2>2, <2>3 DEF Parts
<1> HIDE DEF parts
<1>8. Entries(d) = FlattenSeq(parts)
  BY DEF Entries, parts, scripts, I
<1>9. Entries(d) \in L /\ ToSet(Entries(d)) = Parts(parts)
  BY <1>6, <1>8, FlattenParts DEF L
<1> QED
  BY <1>7, <1>9 DEF I, L

LEMMA FaqItemsAre ==
    ASSUME NEW d, IsDocument(d)
    PROVE  FaqItems(d) \in Seq(Nat)
<1> DEFINE E == Entries(d)
           I == {k \in DOMAIN E : IsItem(E[k])}
           items == Picked(E, I)
<1>1. E \in Seq(FaqEntry)
  BY EntriesAre
<1>2. \A e \in FaqEntry : e.words \in Nat
  BY DEF FaqEntry
<1> HIDE DEF E
<1>3. DOMAIN E = 1 .. Len(E) /\ Len(E) \in Nat /\ \A k \in DOMAIN E : E[k] \in FaqEntry
  BY <1>1
<1>4. I \in SUBSET Int /\ IsFiniteSet(I) /\ \A k \in I : E[k] \in FaqEntry
  <2>1. I \subseteq 1 .. Len(E) /\ IsFiniteSet(1 .. Len(E))
    BY <1>3, FS_Interval
  <2>2. IsFiniteSet(I)
    BY <2>1, FS_Subset
  <2> QED
    BY <1>3, <2>1, <2>2
<1> HIDE DEF I
<1>5. items \in Seq(FaqEntry)
  BY <1>4, PickedIs
<1> HIDE DEF items
<1>6. FaqItems(d) = [k \in DOMAIN items |-> items[k].words]
  BY DEF FaqItems, items, I, E
<1> QED
  BY <1>2, <1>5, <1>6

(* The links that are kept of a set of nodes.                              *)
LEMMA LinksAre ==
    ASSUME NEW d, IsTree(d), NEW S \in SUBSET DOMAIN d, NEW base
    PROVE  LET kept == {i \in S : normalize_url(d[i].data, base) # NoUrl}
           IN  /\ ToSet(LinksOf(d, S, base)) = {normalize_url(d[i].data, base) : i \in kept}
               /\ Len(LinksOf(d, S, base)) \in Nat
               /\ LinksOf(d, S, base) = <<>> => kept = {}
<1> DEFINE url == [i \in S |-> normalize_url(d[i].data, base)]
           kept == {i \in S : url[i] # NoUrl}
<1>1. kept \in SUBSET Int /\ IsFiniteSet(kept)
  BY NodesAre
<1>2. /\ Len(Picked(url, kept)) = Cardinality(kept)
      /\ Cardinality(kept) \in Nat /\ ToSet(Picked(url, kept)) = {url[i] : i \in kept}
  <2> HIDE DEF kept, url
  <2> QED
    BY <1>1, PickedSet
<1>3. LinksOf(d, S, base) = Picked(url, kept)
  BY DEF LinksOf
<1>4. Picked(url, kept) = <<>> => kept = {}
  <2> HIDE DEF kept, url
  <2>1. Picked(url, kept) = <<>> => Cardinality(kept) = 0
    BY <1>2
  <2> QED
    BY <1>1, <2>1, FS_EmptySet
<1>5. /\ kept = {i \in S : normalize_url(d[i].data, base) # NoUrl}
      /\ {url[i] : i \in kept} = {normalize_url(d[i].data, base) : i \in kept}
  OBVIOUS
<1> HIDE DEF kept, url
<1> QED
  BY <1>2, <1>3, <1>4, <1>5

(* The sections of a page are a list, and so are the ones that are chunks. *)
LEMMA ChunksAre ==
    ASSUME NEW d, IsDocument(d), NEW url
    PROVE  LET p == Parsed(url, d)
               I == {k \in DOMAIN p.sections :
                        p.sections[k].heading > 0 /\ p.sections[k].content > 0}
           IN  /\ DOMAIN Chunks(p) = 1 .. Len(Chunks(p)) /\ Len(Chunks(p)) \in Nat
               /\ Chunks(p) # <<>> <=> I # {}
<1> DEFINE p == Parsed(url, d)
           I == {k \in DOMAIN p.sections :
                     p.sections[k].heading > 0 /\ p.sections[k].content > 0}
           S == Found(d, Headings)
<1>1. p.sections = Sections(d)
  BY DEF Parsed
<1>2. S \in SUBSET DOMAIN d
  BY FoundAre
<1>3. InOrder(S) \in Seq(S)
  BY <1>2, NodesAre, InOrderIs DEF IsDocument
<1>4. Len(InOrder(S)) \in Nat /\ DOMAIN InOrder(S) = 1 .. Len(InOrder(S))
  <2> HIDE DEF S
  <2> QED
    BY <1>3
<1>5. DOMAIN p.sections = 1 .. Len(InOrder(S))
  BY <1>1, <1>4 DEF Sections
<1>6. I \in SUBSET Int /\ IsFiniteSet(I)
  <2>1. I \subseteq 1 .. Len(InOrder(S)) /\ IsFiniteSet(1 .. Len(InOrder(S)))
    BY <1>4, <1>5, FS_Interval
  <2>2. IsFiniteSet(I)
    BY <2>1, FS_Subset
  <2> QED
    BY <1>4, <2>1, <2>2
<1>7. Chunks(p) = InOrder(I)
  BY DEF Chunks
<1> HIDE DEF I, p
<1>8. /\ InOrder(I) \in Seq(I) /\ Len(InOrder(I)) = Cardinality(I)
      /\ Cardinality(I) \in Nat /\ DOMAIN InOrder(I) = 1 .. Cardinality(I)
  BY <1>6, InOrderIs
<1>9. InOrder(I) # <<>> <=> I # {}
  <2>1. InOrder(I) = <<>> <=> Len(InOrder(I)) = 0
    BY <1>8
  <2>2. Cardinality(I) = 0 <=> I = {}
    BY <1>6, FS_EmptySet
  <2> QED
    BY <1>8, <2>1, <2>2
<1> QED
  BY <1>7, <1>8, <1>9 DEF I, p

(* What score_page reads of any document is a page.                        *)
LEMMA MeasuredIsPage ==
    ASSUME NEW d, IsDocument(d), NEW url
    PROVE  IsPage(Measured(Parsed(url, d)))
<1> DEFINE p == Parsed(url, d)
           m == Measured(p)
<1>1. /\ p.title = Title(d) /\ p.description = Meta(d, "description") /\ p.body = BodyText(d)
      /\ p.robots = Meta(d, "robots") /\ p.canonical = Canonical(d)
      /\ p.headings = HeadingsOf(d) /\ p.has_schema = (JsonLd(d) # {})
      /\ p.faq_items = FaqItems(d) /\ p.images = ImagesWithoutAlt(d)
      /\ p.links = InternalLinks(d, url)
  BY DEF Parsed
<1> HIDE DEF p
<1>2. /\ p.title.given \in BOOLEAN /\ Len(p.title.words) \in Nat
      /\ Len(p.title.words) > 0 => p.title.given
      /\ p.description.given \in BOOLEAN /\ Len(p.description.words) \in Nat
      /\ Len(p.description.words) > 0 => p.description.given
      /\ p.canonical \in BOOLEAN /\ Len(p.body) \in Nat
  <2>1. ASSUME NEW t, IsGiven(t)
        PROVE  /\ t.given \in BOOLEAN /\ Len(t.words) \in Nat
               /\ Len(t.words) > 0 => t.given
    BY <2>1 DEF IsGiven, Strings
  <2>2. IsGiven(p.title) /\ IsGiven(p.description)
    BY <1>1, TextsAre
  <2>3. p.canonical \in BOOLEAN /\ Len(p.body) \in Nat
    BY <1>1, TextsAre
  <2> QED
    BY <2>1, <2>2, <2>3
<1>3. Cardinality(ToSet(p.body)) \in Nat /\ Cardinality(ToSet(p.body)) <= Len(p.body)
  BY <1>1, TextsAre, ToSetFinite
<1>4. Picked(p.robots.words, {k \in DOMAIN p.robots.words :
                                  p.robots.words[k] \in DOMAIN RobotsPoints})
      \in Seq(DOMAIN RobotsPoints)
  <2> DEFINE r == p.robots.words
             D == DOMAIN RobotsPoints
             I == {k \in DOMAIN r : r[k] \in D}
  <2>1. r \in Seq(STRING)
    BY <1>1, TextsAre DEF IsGiven, Strings
  <2> HIDE DEF r, D
  <2>2. DOMAIN r = 1 .. Len(r) /\ Len(r) \in Nat
    BY <2>1
  <2>3. IsFiniteSet(1 .. Len(r)) /\ I \subseteq 1 .. Len(r)
    BY <2>2, FS_Interval
  <2>4. I \in SUBSET Int /\ IsFiniteSet(I) /\ \A i \in I : r[i] \in D
    BY <2>2, <2>3, FS_Subset
  <2> HIDE DEF I
  <2>5. Picked(r, I) \in Seq(D)
    BY <2>4, PickedIs
  <2> QED
    BY <2>5 DEF r, D, I
<1>5. p.headings \in HeadingList /\ p.has_schema \in BOOLEAN
  BY <1>1, HeadingsAre
<1>6. Len(p.faq_items) \in Nat /\ Total(p.faq_items) \in Nat
  <2>1. p.faq_items \in Seq(Nat)
    BY <1>1, FaqItemsAre
  <2>2. Len(p.faq_items) \in Nat /\ \A k \in 1 .. Len(p.faq_items) : p.faq_items[k] \in Nat
    BY <2>1
  <2> QED
    BY <2>2, TotalNat
<1>7. Len(p.links) \in Nat
  BY <1>1, LinksAre, FoundAre DEF InternalLinks, IsDocument
<1>8. p.images \in Nat
  <2>1. {i \in Found(d, {"img"}) : ~d[i].data} \in SUBSET DOMAIN d
    BY FoundAre
  <2> QED
    BY <1>1, <2>1, NodesAre DEF ImagesWithoutAlt, IsDocument
<1>9. p.schema_types \cap DOMAIN TypePoints \in SUBSET DOMAIN TypePoints
  OBVIOUS
<1>10. m = [titled |-> p.title.given, title |-> Len(p.title.words),
             described |-> p.description.given, description |-> Len(p.description.words),
             canonical |-> p.canonical, robots |-> m.robots,
             words |-> Len(p.body), distinct |-> Cardinality(ToSet(p.body)),
             headings |-> p.headings, schema |-> p.has_schema, types |-> m.types,
             faqs |-> Len(p.faq_items), answers |-> Total(p.faq_items),
             links |-> Len(p.links), images |-> p.images]
       /\ m.robots \in Seq(DOMAIN RobotsPoints) /\ m.types \in SUBSET DOMAIN TypePoints
  BY <1>4, <1>9 DEF Measured
<1> HIDE DEF m
<1>11. m \in PageFields
  <2> DEFINE title       == Len(p.title.words)
             description == Len(p.description.words)
             words       == Len(p.body)
             distinct    == Cardinality(ToSet(p.body))
             faqs        == Len(p.faq_items)
             answers     == Total(p.faq_items)
             links       == Len(p.links)
             robots      == m.robots
             types       == m.types
  <2>1. /\ title \in Nat /\ description \in Nat /\ words \in Nat /\ distinct \in Nat
        /\ p.title.given \in BOOLEAN /\ p.description.given \in BOOLEAN /\ p.canonical \in BOOLEAN
    BY <1>2, <1>3
  <2>2. /\ faqs \in Nat /\ answers \in Nat /\ links \in Nat /\ p.images \in Nat
        /\ p.has_schema \in BOOLEAN
    BY <1>5, <1>6, <1>7, <1>8
  <2>3. robots \in Seq(DOMAIN RobotsPoints) /\ types \in SUBSET DOMAIN TypePoints
    BY <1>10
  <2>4. p.headings \in Seq([tag: {"h1", "h2", "h3", "h4", "h5", "h6"}, words: Nat])
    BY <1>5 DEF HeadingList
  <2>5. m = [titled |-> p.title.given, title |-> title,
             described |-> p.description.given, description |-> description,
             canonical |-> p.canonical, robots |-> robots, words |-> words,
             distinct |-> distinct, headings |-> p.headings, schema |-> p.has_schema,
             types |-> types, faqs |-> faqs, answers |-> answers, links |-> links,
             images |-> p.images]
    BY <1>10
  <2> HIDE DEF title, description, words, distinct, faqs, answers, links, robots, types
  <2> QED
    BY <2>1, <2>2, <2>3, <2>4, <2>5 DEF PageFields
<1>12. m.distinct <= m.words /\ Headed(m)
  <2>1. m.distinct = Cardinality(ToSet(p.body)) /\ m.words = Len(p.body)
    BY <1>10
  <2>2. m.titled = p.title.given /\ m.title = Len(p.title.words)
    BY <1>10
  <2>3. m.described = p.description.given /\ m.description = Len(p.description.words)
    BY <1>10
  <2>4. m.distinct <= m.words
    BY <1>3, <2>1
  <2>5. (m.title > 0 => m.titled) /\ (m.description > 0 => m.described)
    BY <1>2, <2>2, <2>3
  <2> QED
    BY <2>4, <2>5 DEF Headed
<1>13. IsPage(m)
  BY <1>11, <1>12, IsPageDef
<1> QED
  BY <1>13 DEF p, m

-----------------------------------------------------------------------------
(* Audits.                                                                 *)

ParsedOf(c, k) == Parsed(c.pages[k].url, c.pages[k].doc)
AllParsed(c) == {ParsedOf(c, k) : k \in DOMAIN c.pages}

PageUrls(c) == {c.pages[k].url : k \in DOMAIN c.pages}
Scores(c) == [url: PageUrls(c), overall: 0 .. 100, advice: Seq(AdviceStrings)]
Alignments(c) == {Semantic(u, s) : u \in PageUrls(c), s \in Seq(Similarities) \ {<<>>}}

(* Every parsed page is the parse of the crawled page in its place, the     *)
(* ones that follow are parsed before any is scored, and only an entry the  *)
(* code fails on or an error of the embedding model ends this.              *)
ParsedInv ==
    /\ crawl \in Crawls
    /\ parsed \in Seq(AllParsed(crawl))
    /\ Len(parsed) <= Len(crawl.pages)
    /\ \A k \in DOMAIN parsed : parsed[k] = ParsedOf(crawl, k)
    /\ \A k \in DOMAIN parsed : ~Breaks(Doc(k))
    /\ pc \in {"parse", "score", "semantic", "done", "raised"}
    /\ pc = "raised" => Len(parsed) = Len(crawl.pages) \/ Breaks(Doc(Page))
    /\ pc \in {"score", "semantic", "done"} => Len(parsed) = Len(crawl.pages)

(* The scores are those of the first pages, in their order.                *)
ScoredInv ==
    /\ scored \in Seq(Scores(crawl))
    /\ Len(scored) <= Len(parsed)
    /\ \A k \in DOMAIN scored : scored[k].url = crawl.pages[k].url
    /\ pc = "parse" => scored = <<>>
    /\ pc \in {"semantic", "done"} => Len(scored) = Len(parsed)

(* The alignments are those of the first pages with a chunk.               *)
SemanticInv ==
    /\ semantic \in Seq(Alignments(crawl))
    /\ Len(semantic) <= Len(WithChunks)
    /\ \A k \in DOMAIN semantic : semantic[k].url = WithChunks[k].url
    /\ pc \in {"parse", "score"} => semantic = <<>>
    /\ pc = "done" => Len(semantic) = Len(WithChunks)

ReportInv == report = IF pc = "done" THEN Result ELSE NoReport

Inv == ParsedInv /\ ScoredInv /\ SemanticInv /\ ReportInv

(* The crawled pages are documents, of a host that is no literal.          *)
LEMMA CrawledAre ==
    ASSUME ParsedInv
    PROVE  /\ Len(parsed) \in Nat /\ Len(crawl.pages) \in Nat
           /\ DOMAIN parsed = 1 .. Len(parsed) /\ DOMAIN crawl.pages = 1 .. Len(crawl.pages)
           /\ \A k \in DOMAIN crawl.pages :
                  IsDocument(Doc(k)) /\ HostOf(crawl.pages[k].url) \notin Literals
           /\ \A k \in DOMAIN parsed : k \in DOMAIN crawl.pages
<1>1. /\ Len(parsed) \in Nat /\ DOMAIN parsed = 1 .. Len(parsed)
      /\ Len(parsed) <= Len(crawl.pages) /\ crawl \in Crawls
  BY DEF ParsedInv
<1>2. /\ Len(crawl.pages) \in Nat /\ DOMAIN crawl.pages = 1 .. Len(crawl.pages)
      /\ \A k \in DOMAIN crawl.pages :
             IsDocument(Doc(k)) /\ HostOf(crawl.pages[k].url) \notin Literals
  BY <1>1, CrawlsAssumption DEF Doc
<1> QED
  BY <1>1, <1>2

(* The pages that are embedded, in the order of the crawl.                 *)
LEMMA WithChunksAre ==
    ASSUME ParsedInv
    PROVE  /\ Len(WithChunks) \in Nat /\ DOMAIN WithChunks = 1 .. Len(WithChunks)
           /\ \A k \in 1 .. Len(WithChunks) :
                  /\ WithChunks[k].url \in PageUrls(crawl) /\ Chunks(WithChunks[k]) # <<>>
                  /\ DOMAIN Chunks(WithChunks[k]) = 1 .. Len(Chunks(WithChunks[k]))
                  /\ Len(Chunks(WithChunks[k])) \in Nat
<1> DEFINE I == {k \in DOMAIN parsed : Chunks(parsed[k]) # <<>>}
<1>1. /\ DOMAIN parsed = 1 .. Len(parsed) /\ Len(parsed) \in Nat
      /\ \A k \in DOMAIN parsed : k \in DOMAIN crawl.pages /\ IsDocument(Doc(k))
  BY CrawledAre
<1>2. I \in SUBSET Int /\ IsFiniteSet(I)
  <2>1. I \subseteq 1 .. Len(parsed) /\ IsFiniteSet(1 .. Len(parsed))
    BY <1>1, FS_Interval
  <2>2. IsFiniteSet(I)
    BY <2>1, FS_Subset
  <2> QED
    BY <1>1, <2>1, <2>2
<1>3. \A i \in I : i \in DOMAIN parsed /\ Chunks(parsed[i]) # <<>>
  OBVIOUS
<1>4. WithChunks = Picked(parsed, I)
  BY DEF WithChunks
<1> HIDE DEF I
<1>5. /\ Len(WithChunks) = Cardinality(I) /\ Cardinality(I) \in Nat
      /\ DOMAIN WithChunks = 1 .. Cardinality(I)
      /\ \A k \in 1 .. Cardinality(I) :
             InOrder(I)[k] \in I /\ WithChunks[k] = parsed[InOrder(I)[k]]
  BY <1>2, <1>4, PickedSet
<1>6. ASSUME NEW i \in I
      PROVE  /\ parsed[i].url \in PageUrls(crawl) /\ Chunks(parsed[i]) # <<>>
             /\ DOMAIN Chunks(parsed[i]) = 1 .. Len(Chunks(parsed[i]))
             /\ Len(Chunks(parsed[i])) \in Nat
  <2>1. parsed[i] = Parsed(crawl.pages[i].url, Doc(i)) /\ i \in DOMAIN crawl.pages
    BY <1>1, <1>3 DEF ParsedInv, ParsedOf, Doc
  <2>2. parsed[i].url = crawl.pages[i].url
    BY <2>1 DEF Parsed
  <2>3. IsDocument(Doc(i))
    BY <1>1, <1>3
  <2>4. /\ DOMAIN Chunks(parsed[i]) = 1 .. Len(Chunks(parsed[i]))
        /\ Len(Chunks(parsed[i])) \in Nat
    BY <2>1, <2>3, ChunksAre
  <2> QED
    BY <1>3, <2>1, <2>2, <2>4 DEF PageUrls
<1> QED
  BY <1>5, <1>6

LEMMA WithChunksNext == ParsedInv' => (Len(WithChunks) \in Nat)'
<1>1. ParsedInv => Len(WithChunks) \in Nat
  BY WithChunksAre
<1> QED
  BY <1>1, PTL

(* score_page gives a page a score and recommendations it may give.        *)
LEMMA ScoreIs ==
    ASSUME NEW d, IsDocument(d), NEW url
    PROVE  /\ Rounded(Weighted(Measured(Parsed(url, d)))) \subseteq 0 .. 100
           /\ Advice(Measured(Parsed(url, d))) \in Seq(AdviceStrings)
<1> DEFINE m == Measured(Parsed(url, d))
           w == Weighted(m)
<1>1. IsPage(m)
  BY MeasuredIsPage
<1> HIDE DEF m
<1> HIDE DEF w
<1>2. w \in 0 .. 10000
  <2>1. w \in 0 .. 100 * 100
    BY <1>1, ScoresOfAnyPage, Zenon DEF w
  <2>2. 100 * 100 = 10000
    OBVIOUS
  <2> QED
    BY <2>1, <2>2
<1>3. Rounded(w) \subseteq 0 .. 100
  <2> DEFINE q == w \div 100
  <2>1. q \in Int /\ 100 * q <= w /\ w < 100 * q + 100
    BY <1>2
  <2>2. \A n \in Rounded(w) : n \in {q, q + 1} /\ 2 * (100 * n - w) <= 100
    BY DEF Rounded
  <2> HIDE DEF q
  <2>3. w \in Int /\ 0 <= w /\ w <= 10000
    BY <1>2
  <2>4. 0 <= q /\ q <= 100
    BY <2>1, <2>3
  <2>5. 2 * (100 * (q + 1) - w) <= 100 => q + 1 <= 100
    BY <2>1, <2>3
  <2>6. \A n \in Rounded(w) : n = q \/ (n = q + 1 /\ 2 * (100 * (q + 1) - w) <= 100)
    BY <2>2
  <2>7. q \in 0 .. 100 /\ (2 * (100 * (q + 1) - w) <= 100 => q + 1 \in 0 .. 100)
    BY <2>1, <2>4, <2>5
  <2> QED
    BY <2>6, <2>7, Zenon
<1>4. Advice(m) \in Seq(AdviceStrings)
  BY <1>1, AdviceIs DEF Once
<1> QED
  BY <1>3, <1>4 DEF w, m

LEMMA InitInv == Init => Inv
<1> SUFFICES ASSUME Init PROVE Inv
  OBVIOUS
<1>1. /\ pc = "parse" /\ crawl \in Crawls /\ parsed = <<>> /\ scored = <<>> /\ semantic = <<>>
      /\ report = NoReport
  BY DEF Init
<1>2. Len(crawl.pages) \in Nat
  BY <1>1, CrawlsAssumption
<1>3. ParsedInv
  BY <1>1, <1>2 DEF ParsedInv
<1>4. ScoredInv
  BY <1>1 DEF ScoredInv
<1>5. SemanticInv
  <2>1. Len(WithChunks) \in Nat
    BY <1>3, WithChunksAre
  <2> QED
    BY <1>1, <2>1 DEF SemanticInv
<1> QED
  BY <1>1, <1>3, <1>4, <1>5 DEF Inv, ReportInv

LEMMA ParseInv == Inv /\ Parse => Inv'
<1> SUFFICES ASSUME Inv, Parse PROVE Inv'
  OBVIOUS
<1>1. /\ crawl' = crawl /\ scored' = scored /\ semantic' = semantic /\ report' = report
      /\ crawl \in Crawls /\ pc = "parse" /\ scored = <<>> /\ semantic = <<>>
      /\ report = NoReport /\ pc' \in {"parse", "raised"}
  BY DEF Parse, Inv, ParsedInv, ScoredInv, SemanticInv, ReportInv
<1>2. ParsedInv'
  <2>1. CASE Breaks(Doc(Page)) /\ pc' = "raised" /\ parsed' = parsed
    <3>1. Page' = Page
      BY <2>1 DEF Page
    <3> QED
      BY <1>1, <2>1, <3>1 DEF Inv, ParsedInv, Doc
  <2>2. CASE ~Breaks(Doc(Page)) /\ pc' = pc /\ parsed' = Append(parsed, ParsedOf(crawl, Page))
    <3>1. /\ parsed \in Seq(AllParsed(crawl)) /\ Len(parsed) \in Nat
          /\ Page = Len(parsed) + 1 /\ Page <= Len(crawl.pages)
      BY DEF Parse, Page, Inv, ParsedInv
    <3>2. Page \in DOMAIN crawl.pages
      BY <3>1, <1>1, CrawlsAssumption
    <3>3. ParsedOf(crawl, Page) \in AllParsed(crawl)
      BY <3>2 DEF AllParsed
    <3>4. /\ parsed' \in Seq(AllParsed(crawl)) /\ Len(parsed') = Page
          /\ \A k \in DOMAIN parsed' : \/ k \in DOMAIN parsed /\ parsed'[k] = parsed[k]
                                       \/ k = Page /\ parsed'[k] = ParsedOf(crawl, Page)
      BY <2>2, <3>1, <3>3
    <3>5. \A k \in DOMAIN parsed' : parsed'[k] = ParsedOf(crawl, k) /\ ~Breaks(Doc(k))
      BY <2>2, <3>4 DEF Inv, ParsedInv
    <3> QED
      BY <1>1, <2>2, <3>1, <3>4, <3>5 DEF ParsedInv, Doc
  <2> QED
    BY <2>1, <2>2 DEF Parse, ParsedOf, Doc
<1>3. ScoredInv'
  <2>1. Len(parsed)' \in Nat
    BY <1>2 DEF ParsedInv
  <2> QED
    BY <1>1, <2>1 DEF ScoredInv
<1>4. SemanticInv'
  <2>1. Len(WithChunks)' \in Nat
    BY <1>2, WithChunksNext
  <2> QED
    BY <1>1, <2>1 DEF SemanticInv
<1> QED
  BY <1>1, <1>2, <1>3, <1>4 DEF Inv, ReportInv

LEMMA AnnounceInv == Inv /\ AnnounceScoring => Inv'
<1> SUFFICES ASSUME Inv, AnnounceScoring PROVE Inv'
  OBVIOUS
<1>1. /\ crawl' = crawl /\ parsed' = parsed /\ scored' = scored /\ semantic' = semantic
      /\ report' = report /\ pc = "parse" /\ pc' = "score"
      /\ scored = <<>> /\ semantic = <<>> /\ report = NoReport
  BY DEF AnnounceScoring, Inv, ScoredInv, SemanticInv, ReportInv
<1>2. Len(parsed) = Len(crawl.pages)
  <2>1. Len(parsed) \in Nat /\ Len(crawl.pages) \in Nat /\ Len(parsed) <= Len(crawl.pages)
    BY CrawledAre DEF Inv, ParsedInv
  <2> QED
    BY <2>1 DEF AnnounceScoring, Page
<1>3. ParsedInv'
  BY <1>1, <1>2 DEF Inv, ParsedInv, Doc
<1>4. WithChunks' = WithChunks
  BY <1>1 DEF WithChunks
<1> QED
  BY <1>1, <1>3, <1>4 DEF Inv, ScoredInv, SemanticInv, ReportInv

LEMMA ScorePageInv == Inv /\ ScorePage => Inv'
<1> SUFFICES ASSUME Inv, ScorePage PROVE Inv'
  OBVIOUS
<1> DEFINE n == Len(scored) + 1
           d == Doc(n)
           url == crawl.pages[n].url
<1>1. /\ crawl' = crawl /\ parsed' = parsed /\ semantic' = semantic /\ report' = report
      /\ pc' = pc /\ pc = "score" /\ Len(scored) < Len(parsed)
  BY DEF ScorePage
<1>2. /\ Len(scored) \in Nat /\ scored \in Seq(Scores(crawl)) /\ DOMAIN scored = 1 .. Len(scored)
  BY DEF Inv, ScoredInv
<1>3. n \in DOMAIN parsed /\ n \in DOMAIN crawl.pages /\ IsDocument(d)
  BY <1>1, <1>2, CrawledAre DEF Inv
<1>4. parsed[n] = Parsed(url, d)
  BY <1>3 DEF Inv, ParsedInv, ParsedOf, Doc
<1>5. PICK overall \in Rounded(Weighted(Measured(parsed[n]))) :
          scored' = Append(scored, [url |-> parsed[n].url, overall |-> overall,
                                    advice |-> Advice(Measured(parsed[n]))])
  BY DEF ScorePage
<1> DEFINE score == [url |-> parsed[n].url, overall |-> overall,
                     advice |-> Advice(Measured(parsed[n]))]
<1>6. overall \in 0 .. 100 /\ Advice(Measured(parsed[n])) \in Seq(AdviceStrings)
  BY <1>3, <1>4, <1>5, ScoreIs
<1>7. parsed[n].url = url /\ url \in PageUrls(crawl)
  BY <1>3, <1>4 DEF Parsed, PageUrls
<1>8. score \in Scores(crawl) /\ score.url = url
  BY <1>6, <1>7 DEF Scores
<1> HIDE DEF score
<1>9. /\ scored' \in Seq(Scores(crawl)) /\ Len(scored') = n /\ n <= Len(parsed)
      /\ \A k \in DOMAIN scored' : \/ k \in DOMAIN scored /\ scored'[k] = scored[k]
                                   \/ k = n /\ scored'[k] = score
  <2>1. scored' = Append(scored, score)
    BY <1>5 DEF score
  <2>2. n <= Len(parsed)
    BY <1>3, CrawledAre DEF Inv
  <2> QED
    BY <1>2, <1>8, <2>1, <2>2
<1>10. ScoredInv'
  <2>1. \A k \in DOMAIN scored' : scored'[k].url = crawl.pages[k].url
    BY <1>8, <1>9 DEF Inv, ScoredInv
  <2> QED
    BY <1>1, <1>9, <2>1 DEF ScoredInv
<1>11. ParsedInv'
  BY <1>1 DEF Inv, ParsedInv, Doc
<1>12. WithChunks' = WithChunks
  BY <1>1 DEF WithChunks
<1> QED
  BY <1>1, <1>10, <1>11, <1>12 DEF Inv, SemanticInv, ReportInv

LEMMA StartSemanticInv == Inv /\ StartSemantic => Inv'
<1> SUFFICES ASSUME Inv, StartSemantic PROVE Inv'
  OBVIOUS
<1>1. /\ crawl' = crawl /\ parsed' = parsed /\ scored' = scored /\ semantic' = semantic
      /\ report' = report /\ pc = "score" /\ pc' = "semantic" /\ Len(scored) = Len(parsed)
  BY DEF StartSemantic
<1>2. WithChunks' = WithChunks
  BY <1>1 DEF WithChunks
<1> QED
  BY <1>1, <1>2 DEF Inv, ParsedInv, Doc, ScoredInv, SemanticInv, ReportInv

LEMMA EmbedInv == Inv /\ Embed => Inv'
<1> SUFFICES ASSUME Inv, Embed PROVE Inv'
  OBVIOUS
<1> DEFINE n == Len(semantic) + 1
           p == WithChunks[n]
<1>1. /\ crawl' = crawl /\ parsed' = parsed /\ scored' = scored /\ report' = report
      /\ pc = "semantic" /\ Len(semantic) < Len(WithChunks)
  BY DEF Embed
<1>2. /\ Len(semantic) \in Nat /\ semantic \in Seq(Alignments(crawl))
      /\ DOMAIN semantic = 1 .. Len(semantic) /\ Len(parsed) = Len(crawl.pages)
      /\ Len(WithChunks) \in Nat
  BY <1>1, WithChunksAre DEF Inv, ParsedInv, SemanticInv
<1>3. WithChunks' = WithChunks
  BY <1>1 DEF WithChunks
<1>4. n \in 1 .. Len(WithChunks)
  BY <1>1, <1>2
<1>5. CASE pc' = "raised" /\ semantic' = semantic
  <2>1. ParsedInv'
    BY <1>1, <1>2, <1>5 DEF Inv, ParsedInv, Doc
  <2> QED
    BY <1>1, <1>3, <1>5, <2>1 DEF Inv, ScoredInv, SemanticInv, ReportInv
<1>6. ASSUME NEW s \in [DOMAIN Chunks(p) -> Similarities],
             semantic' = Append(semantic, Semantic(p.url, s)), pc' = pc
      PROVE  Inv'
  <2> DEFINE new == Semantic(p.url, s)
  <2>1. /\ p.url \in PageUrls(crawl) /\ Chunks(p) # <<>>
        /\ DOMAIN Chunks(p) = 1 .. Len(Chunks(p)) /\ Len(Chunks(p)) \in Nat
    BY <1>4, WithChunksAre DEF Inv
  <2>2. s \in Seq(Similarities) \ {<<>>}
    <3> DEFINE c == Chunks(p)
    <3>1. c # <<>> /\ DOMAIN c = 1 .. Len(c) /\ Len(c) \in Nat /\ s \in [DOMAIN c -> Similarities]
      BY <2>1
    <3>2. Chunks(p) = InOrder({k \in DOMAIN p.sections :
              p.sections[k].heading > 0 /\ p.sections[k].content > 0})
      BY DEF Chunks
    <3>3. Len(c) # 0
      BY <2>1
    <3> HIDE DEF c, p
    <3> QED
      BY <3>1, <3>3
  <2>3. new \in Alignments(crawl) /\ new.url = p.url
    <3>1. new.url = p.url
      BY DEF Semantic
    <3>2. new \in Alignments(crawl)
      <4> DEFINE S == Seq(Similarities) \ {<<>>}
                 U == PageUrls(crawl)
      <4>1. p.url \in U /\ s \in S
        BY <2>1, <2>2
      <4>2. Alignments(crawl) = {Semantic(u, t) : u \in U, t \in S}
        BY DEF Alignments
      <4> HIDE DEF p, S, U
      <4> QED
        BY <4>1, <4>2
    <3> QED
      BY <3>1, <3>2 DEF p
  <2> HIDE DEF new, p
  <2>4. /\ semantic' \in Seq(Alignments(crawl)) /\ Len(semantic') = n
        /\ \A k \in DOMAIN semantic' : \/ k \in DOMAIN semantic /\ semantic'[k] = semantic[k]
                                       \/ k = n /\ semantic'[k] = new
    <3>1. semantic' = Append(semantic, new)
      BY <1>6 DEF new
    <3> QED
      BY <1>2, <2>3, <3>1
  <2>5. \A k \in DOMAIN semantic' : semantic'[k].url = WithChunks[k].url
    BY <2>3, <2>4 DEF Inv, SemanticInv, p
  <2>6. SemanticInv'
    BY <1>1, <1>3, <1>4, <1>6, <2>4, <2>5 DEF SemanticInv
  <2>7. ParsedInv'
    BY <1>1, <1>6 DEF Inv, ParsedInv, Doc
  <2> QED
    BY <1>1, <1>6, <2>6, <2>7 DEF Inv, ScoredInv, ReportInv
<1> QED
  BY <1>5, <1>6 DEF Embed

LEMMA FinishInv == Inv /\ Finish => Inv'
<1> SUFFICES ASSUME Inv, Finish PROVE Inv'
  OBVIOUS
<1>1. /\ crawl' = crawl /\ parsed' = parsed /\ scored' = scored /\ semantic' = semantic
      /\ report' = Result /\ pc = "semantic" /\ pc' = "done" /\ Len(semantic) = Len(WithChunks)
  BY DEF Finish
<1>2. WithChunks' = WithChunks
  BY <1>1 DEF WithChunks
<1>3. Result' = Result
  BY <1>1 DEF Result
<1> QED
  BY <1>1, <1>2, <1>3 DEF Inv, ParsedInv, Doc, ScoredInv, SemanticInv, ReportInv

THEOREM InvIsInvariant == Spec => []Inv
<1>1. Inv /\ [Next]_vars => Inv'
  <2> SUFFICES ASSUME Inv, [Next]_vars PROVE Inv'
    OBVIOUS
  <2>1. CASE UNCHANGED vars
    <3>1. WithChunks' = WithChunks /\ Result' = Result /\ Page' = Page
      BY <2>1 DEF WithChunks, Result, Page, vars
    <3> QED
      BY <2>1, <3>1 DEF Inv, ParsedInv, Doc, ScoredInv, SemanticInv, ReportInv, vars
  <2> QED
    BY <2>1, ParseInv, AnnounceInv, ScorePageInv, StartSemanticInv, EmbedInv, FinishInv DEF Next
<1> QED
  BY InitInv, <1>1, PTL DEF Spec

(* In every audit, has_schema and schema_types are those of the JSON-LD     *)
(* outside the container of the page.                                       *)
THEOREM ScorerHearsOutside == Spec => []SchemaSeen
<1>1. Inv => SchemaSeen
  <2> SUFFICES ASSUME Inv, NEW k \in DOMAIN parsed
               PROVE  LET seen == Written(Doc(k)) \ Inside(Doc(k)) IN
                      /\ parsed[k].has_schema <=> seen # {}
                      /\ parsed[k].schema_types = UNION {Doc(k)[i].data.types : i \in seen}
    BY DEF SchemaSeen
  <2>1. parsed[k] = ParsedOf(crawl, k) /\ k \in DOMAIN crawl.pages /\ crawl \in Crawls
    BY CrawledAre DEF Inv, ParsedInv
  <2>2. IsTree(Doc(k))
    BY <2>1, CrawlsAssumption DEF Doc, IsDocument
  <2>3. JsonLd(Doc(k)) = Written(Doc(k)) \ Inside(Doc(k))
    BY <2>2, JsonOutsideIsSeen
  <2>4. /\ parsed[k].has_schema = (JsonLd(Doc(k)) # {})
        /\ parsed[k].schema_types = SchemaTypes(Doc(k))
    BY <2>1 DEF ParsedOf, Parsed, Doc
  <2> QED
    BY <2>3, <2>4 DEF SchemaTypes
<1> QED
  BY InvIsInvariant, <1>1, PTL

(* The types of every audit's state, and scores out of 100.                *)
THEOREM TypeCorrect == Spec => []TypeOK
<1>1. Inv => TypeOK
  <2> SUFFICES ASSUME Inv PROVE TypeOK
    OBVIOUS
  <2>1. Len(crawl.pages) \in Nat
    BY CrawledAre DEF Inv
  <2>2. \A k \in DOMAIN scored : scored[k].overall \in 0 .. 100
    <3>1. \A v \in Scores(crawl) : v.overall \in 0 .. 100
      BY DEF Scores
    <3>2. scored \in Seq(Scores(crawl))
      BY DEF Inv, ScoredInv
    <3> QED
      BY <3>1, <3>2
  <2>3. report.crawled \in 0 .. Len(crawl.pages)
    <3>1. report.crawled = 0 \/ report.crawled = Len(crawl.pages)
      BY DEF Inv, ReportInv, Result, NoReport
    <3> QED
      BY <2>1, <3>1
  <2> QED
    BY <2>2, <2>3 DEF Inv, ParsedInv, ScoredInv, SemanticInv, TypeOK
<1> QED
  BY InvIsInvariant, <1>1, PTL

(* The parser fails on a document exactly when an entry it reads has an     *)
(* answer it fails on.                                                      *)
LEMMA BreaksIsBroken ==
    ASSUME NEW d, IsDocument(d)
    PROVE  Breaks(d) <=> Broken(d)
<1> DEFINE E == Entries(d)
           J == JsonLd(d)
<1>1. J = Written(d) \ Inside(d)
  BY JsonOutsideIsSeen DEF IsDocument
<1>2. ToSet(E) = UNION {ToSet(d[i].data.entries) : i \in J}
  BY EntriesAre
<1>3. Breaks(d) <=> \E e \in ToSet(E) : BreaksItem(e)
  BY DEF Breaks, ToSet
<1>4. Broken(d) <=> \E i \in J : \E e \in ToSet(d[i].data.entries) : BreaksItem(e)
  BY <1>1 DEF Broken, ToSet
<1> HIDE DEF E, J
<1> QED
  BY <1>2, <1>3, <1>4

(* In every audit, only an FAQ entry that is read and has such an answer    *)
(* ends the parse of the site.                                              *)
THEOREM FaqsAloneRaise == Spec => []OnlyFaqsRaise
<1>1. Inv => OnlyFaqsRaise
  <2> SUFFICES ASSUME Inv PROVE OnlyFaqsRaise
    OBVIOUS
  <2>1. /\ Len(parsed) \in Nat /\ Len(crawl.pages) \in Nat /\ Len(parsed) <= Len(crawl.pages)
        /\ DOMAIN crawl.pages = 1 .. Len(crawl.pages)
        /\ \A k \in DOMAIN crawl.pages : IsDocument(Doc(k))
        /\ \A k \in DOMAIN parsed : k \in DOMAIN crawl.pages
    BY CrawledAre DEF Inv, ParsedInv
  <2>2. \A k \in DOMAIN crawl.pages : Breaks(Doc(k)) <=> Broken(Doc(k))
    BY <2>1, BreaksIsBroken
  <2>3. \A k \in DOMAIN parsed : ~Broken(Doc(k))
    BY <2>1, <2>2 DEF Inv, ParsedInv
  <2>4. Len(parsed) # Len(crawl.pages) => Page \in DOMAIN crawl.pages
    BY <2>1 DEF Page
  <2>5. pc = "raised" => Len(parsed) = Len(crawl.pages) \/ Broken(Doc(Page))
    BY <2>2, <2>4 DEF Inv, ParsedInv
  <2> QED
    BY <2>3, <2>5 DEF OnlyFaqsRaise
<1> QED
  BY InvIsInvariant, <1>1, PTL

(* Every report accounts for the pages of its crawl, in their order.       *)
THEOREM ReportIsComplete == Spec => []EveryPageReported
<1>1. Inv => EveryPageReported
  <2> SUFFICES ASSUME Inv, pc = "done"
               PROVE  /\ UrlsOf(report.pages) = UrlsOf(crawl.pages)
                      /\ UrlsOf(report.unreachable) = UrlsOf(crawl.failures)
                      /\ report.crawled = Len(report.pages)
                      /\ UrlsOf(report.semantic_pages)
                          = UrlsOf(Picked(parsed, {k \in DOMAIN parsed :
                                \E n \in DOMAIN parsed[k].sections :
                                    parsed[k].sections[n].heading > 0
                                    /\ parsed[k].sections[n].content > 0}))
    BY DEF EveryPageReported
  <2>1. /\ report.pages = scored /\ report.semantic_pages = semantic
        /\ report.crawled = Len(crawl.pages)
        /\ report.unreachable = [k \in DOMAIN crawl.failures |->
               [url |-> crawl.failures[k].url, reason |-> Reason(crawl.failures[k])]]
    BY DEF Inv, ReportInv, Result
  <2>2. /\ Len(scored) = Len(crawl.pages) /\ DOMAIN scored = DOMAIN crawl.pages
        /\ \A k \in DOMAIN scored : scored[k].url = crawl.pages[k].url
    <3>1. /\ Len(scored) = Len(parsed) /\ Len(parsed) = Len(crawl.pages)
          /\ DOMAIN scored = 1 .. Len(scored)
      BY DEF Inv, ParsedInv, ScoredInv
    <3> QED
      BY <3>1, CrawledAre DEF Inv, ScoredInv
  <2>3. UrlsOf(scored) = UrlsOf(crawl.pages)
    BY <2>2 DEF UrlsOf
  <2>4. UrlsOf(report.unreachable) = UrlsOf(crawl.failures)
    BY <2>1 DEF UrlsOf
  <2>5. UrlsOf(semantic) = UrlsOf(WithChunks)
    <3>1. DOMAIN semantic = DOMAIN WithChunks
      <4>1. Len(semantic) = Len(WithChunks) /\ DOMAIN semantic = 1 .. Len(semantic)
        BY DEF Inv, SemanticInv
      <4> QED
        BY <4>1, WithChunksAre DEF Inv
    <3> QED
      BY <3>1 DEF UrlsOf, Inv, SemanticInv
  <2> DEFINE S == {k \in DOMAIN parsed : \E n \in DOMAIN parsed[k].sections :
                      parsed[k].sections[n].heading > 0 /\ parsed[k].sections[n].content > 0}
  <2>6. WithChunks = Picked(parsed, S)
    <3>1. ASSUME NEW k \in DOMAIN parsed
          PROVE  Chunks(parsed[k]) # <<>> <=> \E n \in DOMAIN parsed[k].sections :
                     parsed[k].sections[n].heading > 0 /\ parsed[k].sections[n].content > 0
      <4>1. parsed[k] = Parsed(crawl.pages[k].url, Doc(k)) /\ IsDocument(Doc(k))
        BY CrawledAre DEF Inv, ParsedInv, ParsedOf, Doc
      <4> DEFINE p == parsed[k]
                 I == {n \in DOMAIN p.sections :
                          p.sections[n].heading > 0 /\ p.sections[n].content > 0}
      <4>2. Chunks(p) # <<>> <=> I # {}
        BY <4>1, ChunksAre
      <4> QED
        BY <4>2
    <3>2. {k \in DOMAIN parsed : Chunks(parsed[k]) # <<>>} = S
      BY <3>1
    <3> QED
      BY <3>2 DEF WithChunks
  <2> QED
    BY <2>1, <2>2, <2>3, <2>4, <2>5, <2>6
<1> QED
  BY InvIsInvariant, <1>1, PTL

(* The mean of a list, rounded, lies between two of its members.           *)
LEMMA MeanBetween ==
    ASSUME NEW s, Len(s) \in Nat, DOMAIN s = 1 .. Len(s), s # <<>>, Len(s) # 0,
           NEW lo \in Int, NEW hi \in Int,
           \A k \in DOMAIN s : s[k] \in Int /\ lo <= s[k] /\ s[k] <= hi
    PROVE  /\ Mean(s) \in Int /\ lo <= Mean(s) /\ Mean(s) <= hi
           /\ Between(Mean(s), s)
<1> DEFINE n == Len(s)
           t == Total(s)
           m == Round(t, n)
<1>1. n \in Nat \ {0} /\ m = Mean(s) /\ 1 \in DOMAIN s
  BY DEF Mean
<1>2. t \in Int /\ n * lo <= t /\ t <= n * hi
  BY TotalBetween
<1>3. m \in lo .. hi
  <2> HIDE DEF n, t
  <2> QED
    BY <1>1, <1>2, RoundBetween DEF RoundsTo
<1>4. \E k \in DOMAIN s : s[k] <= m
  <2> SUFFICES ASSUME \A k \in DOMAIN s : ~(s[k] <= m) PROVE FALSE
    OBVIOUS
  <2>1. m + 1 \in Int /\ \A k \in 1 .. n : s[k] \in Int /\ m + 1 <= s[k] /\ s[k] <= hi
    BY <1>3
  <2>2. n * (m + 1) <= t
    BY <1>1, <2>1, TotalBetween
  <2> HIDE DEF n, t, m
  <2>3. Round(t, n) \in m + 1 .. hi
    BY <1>1, <1>2, <2>1, <2>2, RoundBetween DEF RoundsTo
  <2> QED
    BY <1>3, <2>3 DEF m
<1>5. \E k \in DOMAIN s : m <= s[k]
  <2> SUFFICES ASSUME \A k \in DOMAIN s : ~(m <= s[k]) PROVE FALSE
    OBVIOUS
  <2>1. m - 1 \in Int /\ \A k \in 1 .. n : s[k] \in Int /\ lo <= s[k] /\ s[k] <= m - 1
    BY <1>3
  <2>2. t <= n * (m - 1)
    BY <1>1, <2>1, TotalBetween
  <2> HIDE DEF n, t, m
  <2>3. Round(t, n) \in lo .. m - 1
    BY <1>1, <1>2, <2>1, <2>2, RoundBetween DEF RoundsTo
  <2> QED
    BY <1>3, <2>3 DEF m
<1> QED
  BY <1>1, <1>3, <1>4, <1>5 DEF Between

LEMMA SimilarityIs == \A x \in Similarities : x \in Int /\ -100 <= x /\ x <= 100
<1>1. \A x \in -100 .. 100 : x \in Int /\ -100 <= x /\ x <= 100
  OBVIOUS
<1> QED
  BY <1>1, SimilaritiesAssumption

(* The alignment score of a page lies between two of its sections'.        *)
LEMMA AlignmentIs ==
    ASSUME NEW c, NEW v \in Alignments(c)
    PROVE  /\ v.alignments \in Seq(Similarities) /\ v.overall \in Int
           /\ -100 <= v.overall /\ v.overall <= 100
           /\ \E x \in ToSet(v.alignments) : x <= v.overall
           /\ \E x \in ToSet(v.alignments) : v.overall <= x
<1>1. PICK u \in PageUrls(c), s \in Seq(Similarities) \ {<<>>} : v = Semantic(u, s)
  BY DEF Alignments
<1>2. v.alignments = s /\ v.overall = Mean(s)
  BY <1>1 DEF Semantic
<1>3. /\ Len(s) \in Nat /\ DOMAIN s = 1 .. Len(s) /\ s # <<>> /\ Len(s) # 0
      /\ s \in Seq(Similarities)
  OBVIOUS
<1>4. \A k \in DOMAIN s : s[k] \in Int /\ -100 <= s[k] /\ s[k] <= 100
  <2>1. \A k \in DOMAIN s : s[k] \in Similarities
    BY <1>3
  <2> QED
    BY <2>1, SimilarityIs
<1>5. /\ Mean(s) \in Int /\ -100 <= Mean(s) /\ Mean(s) <= 100 /\ Between(Mean(s), s)
  <2> DEFINE lo == -100
             hi == 100
  <2>1. lo \in Int /\ hi \in Int
    OBVIOUS
  <2>2. \A k \in DOMAIN s : s[k] \in Int /\ lo <= s[k] /\ s[k] <= hi
    BY <1>4
  <2> HIDE DEF lo, hi
  <2>3. Mean(s) \in Int /\ lo <= Mean(s) /\ Mean(s) <= hi /\ Between(Mean(s), s)
    BY <1>3, <2>1, <2>2, MeanBetween
  <2> QED
    BY <2>3 DEF lo, hi
<1>6. (\E k \in DOMAIN s : s[k] <= Mean(s)) /\ \E k \in DOMAIN s : Mean(s) <= s[k]
  BY <1>3, <1>5 DEF Between
<1> QED
  BY <1>2, <1>3, <1>5, <1>6 DEF ToSet

(* In every report the site scores between its worst and its best page,    *)
(* and its alignment lies between its worst and its best section.          *)
THEOREM SiteScoreIsBetween == Spec => []SiteBetweenPages
<1>1. Inv => SiteBetweenPages
  <2> DEFINE flat == FlattenSeq([k \in DOMAIN semantic |-> semantic[k].alignments])
  <2> SUFFICES ASSUME Inv, pc = "done"
               PROVE  Between(report.overall, OverallOf(scored)) /\ Between(report.semantic, flat)
    BY DEF SiteBetweenPages
  <2>1. report.overall = Mean(OverallOf(scored)) /\ report.semantic = Mean(OverallOf(semantic))
    BY DEF Inv, ReportInv, Result
  <2>2. Between(report.overall, OverallOf(scored))
    <3> DEFINE s == OverallOf(scored)
               lo == 0
               hi == 100
    <3>1. /\ DOMAIN s = 1 .. Len(s) /\ Len(s) \in Nat /\ (s = <<>> \/ (s # <<>> /\ Len(s) # 0))
          /\ \A k \in DOMAIN s : s[k] \in Int /\ lo <= s[k] /\ s[k] <= hi
      <4> DEFINE R == lo .. hi
      <4>1. /\ \A v \in Scores(crawl) : v.overall \in R
            /\ \A x \in R : x \in Int /\ lo <= x /\ x <= hi
        BY DEF Scores
      <4>2. scored \in Seq(Scores(crawl))
        BY DEF Inv, ScoredInv
      <4>3. s = [k \in DOMAIN scored |-> scored[k].overall]
        BY DEF OverallOf
      <4> HIDE DEF s, R, lo, hi
      <4>4. s \in Seq(R)
        BY <4>1, <4>2, <4>3
      <4>5. /\ DOMAIN s = 1 .. Len(s) /\ Len(s) \in Nat /\ (s = <<>> \/ (s # <<>> /\ Len(s) # 0))
            /\ \A k \in DOMAIN s : s[k] \in R
        BY <4>4
      <4> QED
        BY <4>1, <4>5
    <3>2. lo \in Int /\ hi \in Int
      OBVIOUS
    <3> HIDE DEF s, lo, hi
    <3>3. CASE s = <<>>
      BY <2>1, <3>3 DEF Between, Mean, s
    <3>4. CASE s # <<>>
      <4>1. Between(Mean(s), s)
        BY <3>2, <3>1, <3>4, MeanBetween
      <4> QED
        BY <2>1, <4>1 DEF s
    <3> QED
      BY <3>3, <3>4 DEF s
  <2>3. semantic \in Seq(Alignments(crawl)) /\ Len(semantic) \in Nat
        /\ DOMAIN semantic = 1 .. Len(semantic)
        /\ \A k \in DOMAIN semantic : semantic[k] \in Alignments(crawl)
    BY DEF Inv, SemanticInv
  <2>4. CASE semantic = <<>>
    <3>1. OverallOf(semantic) = <<>> /\ flat = <<>>
      BY <2>4 DEF OverallOf, FlattenSeq
    <3>2. report.semantic = 0
      BY <2>1, <3>1 DEF Mean
    <3> QED
      BY <2>2, <3>1, <3>2 DEF Between
  <2>5. CASE semantic # <<>>
    <3> DEFINE s == OverallOf(semantic)
               m == Mean(s)
               parts == [k \in DOMAIN semantic |-> semantic[k].alignments]
    <3>1. /\ DOMAIN s = 1 .. Len(s) /\ Len(s) \in Nat /\ s # <<>> /\ Len(s) # 0
          /\ DOMAIN s = DOMAIN semantic
          /\ \A k \in DOMAIN s : /\ s[k] = semantic[k].overall
                                 /\ s[k] \in Int /\ -100 <= s[k] /\ s[k] <= 100
      <4>1. \A k \in DOMAIN semantic : semantic[k].overall \in Int
                /\ -100 <= semantic[k].overall /\ semantic[k].overall <= 100
        BY <2>3, AlignmentIs
      <4>2. s = [k \in DOMAIN semantic |-> semantic[k].overall]
        BY DEF OverallOf
      <4> HIDE DEF s
      <4>3. s \in Seq(Int) /\ Len(s) = Len(semantic)
        BY <2>3, <4>1, <4>2
      <4> QED
        BY <2>3, <2>5, <4>1, <4>2, <4>3
    <3>2. m \in Int /\ Between(m, s)
      <4> DEFINE lo == -100
                 hi == 100
      <4>1. lo \in Int /\ hi \in Int
        OBVIOUS
      <4>2. \A k \in DOMAIN s : s[k] \in Int /\ lo <= s[k] /\ s[k] <= hi
        BY <3>1
      <4> HIDE DEF lo, hi, s
      <4> QED
        BY <3>1, <4>1, <4>2, MeanBetween
    <3>3. parts \in Seq(Seq(Similarities))
      BY <2>3, AlignmentIs
    <3>4. flat \in Seq(Similarities) /\ ToSet(flat) = Parts(parts)
      BY <3>3, FlattenParts
    <3>5. \A k \in DOMAIN semantic : ToSet(semantic[k].alignments) \subseteq ToSet(flat)
      BY <3>4 DEF Parts
    <3>6. \A x \in ToSet(flat) : x \in Int
      <4>1. ToSet(flat) \subseteq Similarities
        BY <3>4 DEF ToSet
      <4> QED
        BY <4>1, SimilarityIs
    <3> HIDE DEF s, m, flat, parts
    <3>7. \E x \in ToSet(flat) : x <= m
      <4>1. PICK k \in DOMAIN s : s[k] <= m
        BY <3>1, <3>2 DEF Between
      <4>2. PICK x \in ToSet(semantic[k].alignments) : x <= semantic[k].overall
        BY <2>3, <3>1, AlignmentIs
      <4>3. x \in ToSet(flat) /\ x \in Int /\ s[k] \in Int /\ s[k] = semantic[k].overall
        BY <3>1, <3>5, <3>6
      <4> QED
        BY <3>2, <4>1, <4>2, <4>3
    <3>8. \E x \in ToSet(flat) : m <= x
      <4>1. PICK k \in DOMAIN s : m <= s[k]
        BY <3>1, <3>2 DEF Between
      <4>2. PICK x \in ToSet(semantic[k].alignments) : semantic[k].overall <= x
        BY <2>3, <3>1, AlignmentIs
      <4>3. x \in ToSet(flat) /\ x \in Int /\ s[k] \in Int /\ s[k] = semantic[k].overall
        BY <3>1, <3>5, <3>6
      <4> QED
        BY <3>2, <4>1, <4>2, <4>3
    <3>9. flat # <<>>
      BY <3>7 DEF ToSet
    <3>10. Between(m, flat)
      BY <3>7, <3>8, <3>9 DEF Between, ToSet
    <3> QED
      BY <2>1, <2>2, <3>10 DEF m, s
  <2> QED
    BY <2>4, <2>5
<1> QED
  BY InvIsInvariant, <1>1, PTL

(* The links of a page: those that are kept for the score are among those  *)
(* the crawler follows, which are in scope, safe and settled.               *)
THEOREM ParserAndCrawlerAgree == Spec => []LinksAgree
<1>1. ASSUME NEW d, IsDocument(d), NEW base, HostOf(base) \notin Literals
      PROVE  /\ ToSet(InternalLinks(d, base)) \subseteq ToSet(CrawlerLinks(d, base))
             /\ \A u \in ToSet(CrawlerLinks(d, base)) :
                    InScope(u, base) /\ SafeForm(u) /\ Settled(u, base)
             /\ InternalLinks(d, base) = <<>> =>
                    \A i \in {i \in Tagged(d, {"a"}) : normalize_url(d[i].data, base) # NoUrl} :
                        \E e \in Inside(d) :
                            i \in e .. d[e].last /\ (d[e].tag \in EXCLUDE_TAGS \/ d[e].ad)
  <2> DEFINE url(i) == normalize_url(d[i].data, base)
             all == {i \in Tagged(d, {"a"}) : url(i) # NoUrl}
             left == {i \in Found(d, {"a"}) : url(i) # NoUrl}
  <2>1. IsTree(d)
    BY <1>1 DEF IsDocument
  <2>2. ToSet(CrawlerLinks(d, base)) = {url(i) : i \in all}
    BY <2>1, LinksAre, FoundAre DEF CrawlerLinks
  <2>3. /\ ToSet(InternalLinks(d, base)) = {url(i) : i \in left}
        /\ InternalLinks(d, base) = <<>> => left = {}
    BY <2>1, LinksAre, FoundAre DEF InternalLinks
  <2>4. left \subseteq all
    BY DEF Found
  <2>5. ASSUME NEW u \in ToSet(CrawlerLinks(d, base))
        PROVE  InScope(u, base) /\ SafeForm(u) /\ Settled(u, base)
    <3>1. PICK i \in all : u = url(i)
      BY <2>2
    <3>2. url(i) # NoUrl
      OBVIOUS
    <3> QED
      BY <1>1, <3>1, <3>2, NormalIsSafe, NormalIsSettled
  <2>6. ASSUME left = {}, NEW i \in all
        PROVE  \E e \in Inside(d) :
                   i \in e .. d[e].last /\ (d[e].tag \in EXCLUDE_TAGS \/ d[e].ad)
    <3>1. i \in Gone(d) /\ i \in DOMAIN d
      BY <2>6 DEF Found, Left, Tagged
    <3>2. PICK e \in Inside(d) : /\ d[e].tag \in EXCLUDE_TAGS \/ d[e].ad
                                 /\ i \in {e} \cup Below(d, e)
      BY <3>1 DEF Gone
    <3>3. e \in DOMAIN d
      BY <2>1, <3>2, InsideAre
    <3>4. e \in Nat /\ d[e].last \in Nat /\ e <= d[e].last
      BY <2>1, <3>3 DEF IsTree
    <3>5. i \in e .. d[e].last
      BY <3>2, <3>4 DEF Below
    <3> QED
      BY <3>2, <3>5
  <2> HIDE DEF all, left
  <2>7. ToSet(InternalLinks(d, base)) \subseteq ToSet(CrawlerLinks(d, base))
    BY <2>2, <2>3, <2>4
  <2> QED
    BY <2>3, <2>5, <2>6, <2>7 DEF all
<1>2. Inv => LinksAgree
  <2> SUFFICES ASSUME Inv, NEW k \in DOMAIN parsed
               PROVE  LET d == Doc(k)
                          base == parsed[k].url
                          followed == {i \in Tagged(d, {"a"}) :
                                          normalize_url(d[i].data, base) # NoUrl}
                      IN  /\ ToSet(parsed[k].links) \subseteq ToSet(CrawlerLinks(d, base))
                          /\ \A u \in ToSet(CrawlerLinks(d, base)) :
                                 InScope(u, base) /\ SafeForm(u) /\ Settled(u, base)
                          /\ parsed[k].links = <<>> => \A i \in followed : \E e \in Inside(d) :
                                 i \in e .. d[e].last /\ (d[e].tag \in EXCLUDE_TAGS \/ d[e].ad)
    BY DEF LinksAgree
  <2>1. IsDocument(Doc(k)) /\ HostOf(crawl.pages[k].url) \notin Literals
    BY CrawledAre DEF Inv
  <2>2. parsed[k] = Parsed(crawl.pages[k].url, Doc(k))
    BY DEF Inv, ParsedInv, ParsedOf, Doc
  <2>3. parsed[k].links = InternalLinks(Doc(k), parsed[k].url)
        /\ HostOf(parsed[k].url) \notin Literals
    BY <2>1, <2>2 DEF Parsed
  <2> QED
    BY <1>1, <2>1, <2>3, Zenon
<1> QED
  BY InvIsInvariant, <1>2, PTL

AheadIn(s) == {p \in ToSet(s) \X ToSet(s) : Ahead(s, p[1], p[2])}

(* How often and where first a list has a member.                          *)
LEMMA CountsAre ==
    ASSUME NEW A, NEW s \in Seq(A), NEW x \in ToSet(s)
    PROVE  /\ Count(s, x) \in Nat /\ FirstAt(s, x) \in Nat
           /\ FirstAt(s, x) \in DOMAIN s /\ s[FirstAt(s, x)] = x
<1> DEFINE I == {i \in DOMAIN s : s[i] = x}
<1>1. DOMAIN s = 1 .. Len(s) /\ Len(s) \in Nat
  OBVIOUS
<1>2. I \subseteq 1 .. Len(s) /\ IsFiniteSet(1 .. Len(s)) /\ I # {}
  <2>1. IsFiniteSet(1 .. Len(s))
    BY <1>1, FS_Interval
  <2>2. \E i \in DOMAIN s : s[i] = x
    BY DEF ToSet
  <2> QED
    BY <1>1, <2>1, <2>2
<1>3. I \in SUBSET Nat /\ IsFiniteSet(I)
  BY <1>1, <1>2, FS_Subset
<1>4. Count(s, x) = Cardinality(I) /\ FirstAt(s, x) = First(I)
  BY DEF Count, FirstAt
<1>5. \A i \in I : i \in DOMAIN s /\ s[i] = x
  OBVIOUS
<1> HIDE DEF I
<1>6. Cardinality(I) \in Nat /\ First(I) \in I
  BY <1>2, <1>3, FS_CardinalityType, FirstExists
<1> QED
  BY <1>3, <1>4, <1>5, <1>6

(* Of two different members one is ahead of the other.                     *)
LEMMA AheadOrders ==
    ASSUME NEW A, NEW s \in Seq(A)
    PROVE  Orders(AheadIn(s), ToSet(s))
<1> DEFINE all == ToSet(s)
           R == AheadIn(s)
           n(x) == Count(s, x)
           f(x) == FirstAt(s, x)
<1>1. \A x \in all : n(x) \in Nat /\ f(x) \in Nat /\ s[f(x)] = x
  BY CountsAre
<1>2. \A x, y \in all : <<x, y>> \in R <=> n(x) > n(y) \/ (n(x) = n(y) /\ f(x) < f(y))
  BY DEF AheadIn, Ahead
<1>3. \A x, y \in all : f(x) = f(y) => x = y
  BY <1>1
<1> HIDE DEF all, R, n, f
<1>4. \A x \in all : <<x, x>> \notin R
  BY <1>1, <1>2
<1>5. ASSUME NEW x \in all, NEW y \in all, NEW z \in all, <<x, y>> \in R, <<y, z>> \in R
      PROVE  <<x, z>> \in R
  <2>1. /\ n(x) \in Nat /\ n(y) \in Nat /\ n(z) \in Nat
        /\ f(x) \in Nat /\ f(y) \in Nat /\ f(z) \in Nat
    BY <1>1
  <2>2. /\ n(x) > n(y) \/ (n(x) = n(y) /\ f(x) < f(y))
        /\ n(y) > n(z) \/ (n(y) = n(z) /\ f(y) < f(z))
    BY <1>2, <1>5
  <2>3. n(x) > n(z) \/ (n(x) = n(z) /\ f(x) < f(z))
    BY <2>1, <2>2
  <2> QED
    BY <1>2, <2>3
<1>6. ASSUME NEW x \in all, NEW y \in all, x # y
      PROVE  <<x, y>> \in R \/ <<y, x>> \in R
  <2>1. n(x) \in Nat /\ n(y) \in Nat /\ f(x) \in Nat /\ f(y) \in Nat /\ f(x) # f(y)
    BY <1>1, <1>3, <1>6
  <2>2. \/ n(x) > n(y) \/ (n(x) = n(y) /\ f(x) < f(y))
        \/ n(y) > n(x) \/ (n(y) = n(x) /\ f(y) < f(x))
    BY <2>1
  <2> QED
    BY <1>2, <2>2
<1>7. Orders(R, all)
  BY <1>4, <1>5, <1>6 DEF Orders
<1> QED
  BY <1>7 DEF R, all

(* most_common(5) of any list.                                             *)
LEMMA MostCommonIs ==
    ASSUME NEW A, NEW s \in Seq(A)
    PROVE  /\ IsInjective(MostCommon(s))
           /\ Len(MostCommon(s)) = Smaller(5, Cardinality(ToSet(s)))
           /\ \A k \in DOMAIN MostCommon(s), x \in ToSet(s) \ ToSet(MostCommon(s)) :
                  Count(s, x) <= Count(s, MostCommon(s)[k])
<1> DEFINE all  == ToSet(s)
           R == AheadIn(s)
           c == Cardinality(all)
           best == Ranked(all, R)
           n == Smaller(5, c)
           m == MostCommon(s)
<1>1. IsFiniteSet(all) /\ c \in Nat
  BY ToSetFinite
<1>2. Orders(R, all)
  BY AheadOrders
<1>3. m = [k \in 1 .. n |-> best[k]]
  BY DEF MostCommon, AheadIn
<1>4. \A x, y \in all : <<x, y>> \in R => Count(s, y) <= Count(s, x)
  <2> SUFFICES ASSUME NEW x \in all, NEW y \in all, Ahead(s, x, y)
               PROVE  Count(s, y) <= Count(s, x)
    BY DEF AheadIn
  <2>1. Count(s, x) \in Nat /\ Count(s, y) \in Nat
    BY CountsAre
  <2> QED
    BY <2>1 DEF Ahead
<1> HIDE DEF all, R
<1>5. /\ best \in Seq(all) /\ Len(best) = c /\ ToSet(best) = all
      /\ \A k \in 1 .. c : best[k] \in all
      /\ \A j, k \in 1 .. c : j < k => <<best[j], best[k]>> \in R
      /\ IsInjective(best)
  BY <1>1, <1>2, RankedIs, RankedInjective
<1> HIDE DEF best, c
<1>6. n \in Nat /\ n <= c /\ (n = c \/ n = 5)
  BY <1>1 DEF Smaller
<1> HIDE DEF n, m
<1>7. /\ DOMAIN best = 1 .. c /\ DOMAIN m = 1 .. n
      /\ \A k \in 1 .. n : k \in 1 .. c /\ m[k] = best[k]
  BY <1>1, <1>3, <1>5, <1>6
<1>8. Len(m) = n
  <2>1. m \in [1 .. n -> all]
    BY <1>3, <1>5, <1>7
  <2> QED
    BY <1>6, <2>1
<1>9. IsInjective(m)
  BY <1>5, <1>7 DEF IsInjective
<1>10. ASSUME NEW k \in 1 .. n, NEW x \in all \ ToSet(m)
       PROVE  Count(s, x) <= Count(s, m[k])
  <2>1. PICK j \in 1 .. c : best[j] = x
    BY <1>5, <1>7 DEF ToSet
  <2>2. j \notin 1 .. n
    BY <1>7, <1>10, <2>1 DEF ToSet
  <2>3. k < j
    BY <1>6, <2>2
  <2>4. <<best[k], x>> \in R /\ best[k] = m[k] /\ best[k] \in all
    BY <1>5, <1>7, <2>1, <2>3
  <2> QED
    BY <1>4, <2>4
<1> QED
  BY <1>7, <1>8, <1>9, <1>10 DEF m, n, all, c

(* In every report, the recommendations are the most frequent ones.        *)
THEOREM RecommendationsAreTop == Spec => []TopFive
<1>1. Inv => TopFive
  <2> SUFFICES ASSUME Inv, pc = "done"
               PROVE  LET given == AllAdvice(scored)
                          shown == report.recommendations
                      IN  /\ IsInjective(shown)
                          /\ Len(shown) = Smaller(5, Cardinality(ToSet(given)))
                          /\ \A k \in DOMAIN shown, x \in ToSet(given) \ ToSet(shown) :
                                 Count(given, x) <= Count(given, shown[k])
    BY DEF TopFive
  <2>1. report.recommendations = MostCommon(AllAdvice(scored))
    BY DEF Inv, ReportInv, Result
  <2>2. AllAdvice(scored) \in Seq(AdviceStrings)
    <3> DEFINE parts == [k \in DOMAIN scored |-> scored[k].advice]
               L == Seq(AdviceStrings)
    <3>1. (\A v \in Scores(crawl) : v.advice \in L) /\ scored \in Seq(Scores(crawl))
      BY DEF Scores, Inv, ScoredInv
    <3> HIDE DEF L
    <3>2. parts \in Seq(L)
      BY <3>1
    <3> HIDE DEF parts
    <3>3. AllAdvice(scored) = FlattenSeq(parts)
      BY DEF AllAdvice, parts
    <3> QED
      BY <3>2, <3>3, FlattenParts DEF L
  <2> QED
    BY <2>1, <2>2, MostCommonIs
<1> QED
  BY InvIsInvariant, <1>1, PTL
=============================================================================
