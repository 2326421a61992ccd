----------------------------- MODULE MCSiteAudit -----------------------------
(* The pages TLC audits: small trees, each with one of the situations in     *)
(* which the order of the extractions matters, and crawls of up to two.      *)
EXTENDS SiteAudit

Shift(s, n) == [i \in DOMAIN s |-> [s[i] EXCEPT !.last = @ + n]]
Nested(kids) == FoldLeft(LAMBDA s, k : s \o Shift(k, Len(s)), <<>>, kids)
Node(tag, data, ad, kids) ==
    <<[tag |-> tag, last |-> 1 + Len(Nested(kids)), ad |-> ad, data |-> data]>>
    \o Shift(Nested(kids), 1)

Box(tag, kids) == Node(tag, {}, FALSE, kids)
Ad(kids)       == Node("div", {}, TRUE, kids)
Text(words)    == Node("text", [words |-> words, opens |-> TRUE, ends |-> TRUE], FALSE, <<>>)
Glued(words)   == Node("text", [words |-> words, opens |-> FALSE, ends |-> FALSE], FALSE, <<>>)
Titled(tag, words) == Box(tag, IF words = <<>> THEN <<>> ELSE <<Text(words)>>)
Link(ref)      == Node("a", ref, FALSE, <<Text(<<"link">>)>>)
Img(alt)       == Node("img", alt, FALSE, <<>>)
MetaTag(name, words) ==
    Node("meta", [name |-> name, content |-> [given |-> TRUE, words |-> words]], FALSE, <<>>)
CanonicalTag   == Node("link", TRUE, FALSE, <<>>)
Script(valid, types, entries) ==
    Node("script", [ld |-> TRUE, valid |-> valid, types |-> types, entries |-> entries,
                    words |-> <<"json">>], FALSE, <<>>)
PlainScript ==
    Node("script", [ld |-> FALSE, valid |-> FALSE, types |-> {}, entries |-> <<>>,
                    words |-> <<"code">>], FALSE, <<>>)

Entry(name, accepted, text, words) ==
    [name |-> name, accepted |-> accepted, text |-> text, words |-> words]
Faq    == <<Entry(TRUE, "text", "absent", 3), Entry(TRUE, "empty", "text", 2),
            Entry(FALSE, "other", "text", 1), Entry(TRUE, "absent", "absent", 0)>>
BadFaq == <<Entry(TRUE, "text", "absent", 3), Entry(TRUE, "absent", "other", 0)>>

(* URLs of the site and of others. *)
Netloc(host, port, creds) == [host |-> host, brackets |-> FALSE, port |-> port, creds |-> creds]
Path(name, lower, slashes) == [name |-> name, lower |-> lower, slashes |-> slashes]
Url(scheme, netloc, path, extra) ==
    [scheme |-> scheme, netloc |-> netloc, path |-> path, extra |-> extra]

Home6 == Url("https", [host |-> "v6", brackets |-> TRUE, port |-> "none", creds |-> FALSE],
             Path("root", TRUE, 0), FALSE)
Home  == Url("https", Netloc("site", "none", FALSE), Path("root", TRUE, 0), FALSE)
Moved == Url("https", Netloc("site", "web", FALSE), Path("moved", FALSE, 1), TRUE)

About   == Relative(Path("about", FALSE, 2), TRUE)
Admin   == Absolute(Url("http", Netloc("site", "bad", TRUE), Path("admin", TRUE, 1), FALSE))
Other   == Absolute(Url("https", Netloc("other", "none", FALSE), Path("root", TRUE, 0), FALSE))
Mailto  == Absolute(Url("other", Netloc("site", "none", FALSE), Path("root", TRUE, 0), FALSE))
Literal == Absolute(Home6)

Plain == Box("html", <<
    Box("head", <<Titled("title", <<"a", "b">>), MetaTag("description", <<"a">>),
                  MetaTag("robots", <<"index", "other">>), CanonicalTag,
                  Script(TRUE, {"Article", "Recipe"}, Faq)>>),
    Box("body", <<Titled("h1", <<"a", "b">>), Text(<<"a", "c">>), Link(About), Img(FALSE),
                  Titled("h2", <<"d">>), Box("p", <<Text(<<"a">>)>>), Link(Admin)>>)>>)

NavOnly == Box("html", <<
    Box("head", <<Titled("title", <<"a">>), MetaTag("description", <<>>)>>),
    Box("body", <<Box("nav", <<Link(About), Titled("h2", <<"b">>)>>), Titled("h1", <<"a">>),
                  Text(<<"c">>), Link(Other), Script(TRUE, {"Product"}, Faq)>>)>>)

WithMain == Box("html", <<
    Box("body", <<Box("header", <<Titled("h1", <<"a">>), Script(TRUE, {"Event"}, <<>>),
                                  Text(<<"b">>), Titled("h2", <<"c">>), Link(Literal)>>),
                  Box("main", <<Box("h3", <<Box("b", <<Glued(<<"d">>)>>), Glued(<<"d", "f">>)>>),
                                Text(<<"e">>), PlainScript,
                                Box("button", <<Link(About)>>)>>),
                  Box("nav", <<Link(About), Link(Mailto), Link(Unreadable)>>)>>)>>)

BrokenHead == Box("html", <<Box("head", <<Script(TRUE, {"Article"}, BadFaq)>>),
                            Box("body", <<Text(<<"a">>)>>)>>)
BrokenBody == Box("html", <<Box("head", <<Script(FALSE, {"Article"}, BadFaq)>>),
                            Box("body", <<Script(TRUE, {"Article"}, BadFaq), Text(<<"a">>)>>)>>)

Ads == Box("html", <<
    Box("body", <<Ad(<<Link(About), Box("svg", <<Titled("title", <<"x">>)>>)>>),
                  Box("div", <<Titled("h1", <<>>), Text(<<"a">>)>>),
                  Titled("h2", <<"b">>), Ad(<<Text(<<"x">>)>>), Img(TRUE)>>)>>)

Docs == {<<>>, Plain, NavOnly, WithMain, BrokenHead, BrokenBody, Ads}

Fetched(url) == [url: {url}, doc: Docs]
Failed(url)  == [url: {url}, known: BOOLEAN, detail: BOOLEAN]
Gone404      == Url("https", Netloc("site", "none", FALSE), Path("gone", TRUE, 0), FALSE)

SmallCrawls ==
    {[pages |-> p, failures |-> <<>>] : p \in
        {<<a, b>> : a \in Fetched(Home), b \in Fetched(Moved)}
        \cup {<<a>> : a \in Fetched(Moved)}}
    \cup {[pages |-> p, failures |-> <<f>>] :
            p \in {<<>>} \cup {<<a>> : a \in Fetched(Home)}, f \in Failed(Gone404)}
(* A negative one, the ends of a band, one over it. *)
SomeSimilarities == {-7, 31, 70, 71}
=============================================================================
