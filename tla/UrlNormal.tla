------------------------------ MODULE UrlNormal ------------------------------
(***************************************************************************)
(* normalize_url of app/core/utils.py, the form in which the crawler and   *)
(* the parser keep a link, next to the checks a URL has to pass later:     *)
(* Crawler._in_scope and the ones assert_url_safe makes before it asks the *)
(* DNS.  A URL is a record of the parts urlparse tells apart; a path is a  *)
(* name with its letter case and its trailing slashes.                     *)
(***************************************************************************)
EXTENDS Naturals

CONSTANTS
    Hosts,      \* host names and IP addresses, in lower case
    Literals,   \* the IPv6 addresses among them, written in brackets
    Mangled,    \* what urlparse reads of an IPv6 address without its brackets
    Names,      \* paths, up to letter case and trailing slashes
    NoUrl       \* None

ASSUME HostsAssumption == Literals \subseteq Hosts /\ Mangled \notin Hosts

Ports == {"none", "web", "other", "bad"}   \* "bad": urlparse cannot read it

Netlocs == [host: Hosts \cup {Mangled}, brackets: BOOLEAN, port: Ports, creds: BOOLEAN]
Paths   == [name: Names, lower: BOOLEAN, slashes: Nat]
Urls    == [scheme: {"http", "https", "other"}, netloc: Netlocs, path: Paths,
            extra: BOOLEAN]                \* extra: a query or a fragment

(* What an href or a Location holds: a URL, a path, or what cannot be joined. *)
Absolute(u)       == [kind |-> "url", url |-> u]
Relative(p, extra) == [kind |-> "path", path |-> p, extra |-> extra]
Unreadable        == [kind |-> "bad"]

Refs == {Absolute(u) : u \in Urls} \cup {Relative(p, e) : p \in Paths, e \in BOOLEAN}
        \cup {Unreadable}

\* urlparse(u).hostname and .port: an IPv6 address without brackets is cut at
\* its first colon, and the rest is taken for a port.
HostOf(u) == IF u.netloc.host \in Literals /\ ~u.netloc.brackets THEN Mangled
             ELSE u.netloc.host
PortOf(u) == IF u.netloc.host \in Literals /\ ~u.netloc.brackets THEN "bad"
             ELSE u.netloc.port

\* urljoin of a reference that can be joined.
Join(base, ref) ==
    IF ref.kind = "url" THEN ref.url
    ELSE [base EXCEPT !.path = ref.path, !.extra = ref.extra]

\* Mutant of Tidy: the netloc is left as it was.
TidyNetlocKept(u) ==
    [scheme |-> u.scheme, netloc |-> u.netloc,
     path   |-> [name |-> u.path.name, lower |-> TRUE, slashes |-> 0], extra |-> FALSE]

\* The netloc becomes the bare hostname, query and fragment go, then
\* .lower().rstrip("/") of the whole.
Tidy(u) ==
    [scheme |-> u.scheme,
     netloc |-> [host |-> HostOf(u), brackets |-> FALSE, port |-> "none", creds |-> FALSE],
     path   |-> [name |-> u.path.name, lower |-> TRUE, slashes |-> 0],
     extra  |-> FALSE]

normalize_url(ref, base) ==
    IF ref.kind = "bad" THEN NoUrl
    ELSE LET u == Join(base, ref) IN
         IF u.scheme \in {"http", "https"} /\ HostOf(u) = HostOf(base) THEN Tidy(u) ELSE NoUrl

-----------------------------------------------------------------------------

InScope(u, base) == HostOf(u) = HostOf(base)

\* assert_url_safe before the DNS; a port that cannot be read raises.
SafeForm(u) ==
    /\ u.scheme \in {"http", "https"}
    /\ ~u.netloc.creds
    /\ PortOf(u) \in {"none", "web"}

\* A URL as queued and compared: normalising it again, from any page of its
\* host, gives it back.
Settled(u, base) == normalize_url(Absolute(u), base) = u
=============================================================================
