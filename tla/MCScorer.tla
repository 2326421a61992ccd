------------------------------ MODULE MCScorer ------------------------------
(* The pages TLC audits: a page that only just escapes every recommendation, *)
(* with the metrics of one category at every value around its thresholds.    *)
EXTENDS Scorer

Lean == [titled |-> TRUE, title |-> 5, described |-> TRUE, description |-> 15, canonical |-> TRUE,
         robots |-> <<"index", "noarchive">>,
         words |-> 800, distinct |-> 600,
         headings |-> <<Heading("h1", 5), Heading("h2", 5), Heading("h3", 5)>>,
         schema |-> TRUE, types |-> {"Article", "Person", "WebPage"},
         faqs |-> 6, answers |-> 60, links |-> 6, images |-> 0]

Metadata ==
    {[Lean EXCEPT !.title = t, !.titled = (t > 0), !.description = d, !.described = (d > 0),
                  !.canonical = c] : t \in 0 .. 28, d \in 0 .. 33, c \in BOOLEAN}
    \cup {[Lean EXCEPT !.title = 0, !.description = 0, !.described = d] : d \in BOOLEAN}
    \cup {[Lean EXCEPT !.robots = r] : r \in SeqOf(DOMAIN RobotsPoints, 2)}

Bodies ==
    {[Lean EXCEPT !.words = w, !.distinct = Smaller(d, w)] :
        w \in {100 * k : k \in 0 .. 32}, d \in {100 * k : k \in 1 .. 32}}

Tags(words) == [tag: {"h1", "h2", "h3"}, words: words]
Headed ==
    {[Lean EXCEPT !.headings = h] :
        h \in SeqOf(Tags({0, 4, 12}), 2) \cup [1 .. 3 -> Tags({3, 11})]}

Structured ==
    {[Lean EXCEPT !.schema = FALSE, !.types = {}, !.faqs = 0, !.answers = 0]}
    \cup {[Lean EXCEPT !.types = t, !.faqs = 10, !.answers = 500] : t \in SUBSET DOMAIN TypePoints}
    \cup {[Lean EXCEPT !.types = {t}] : t \in DOMAIN TypePoints}
    \cup UNION {{[Lean EXCEPT !.faqs = f, !.answers = a * f + b] :
                    a \in {0, 9, 10, 11, 49, 50, 52}, b \in 0 .. 1} : f \in 1 .. 18}
    \cup {[Lean EXCEPT !.faqs = 5, !.answers = a] : a \in 50 .. 250}

Rest == {[Lean EXCEPT !.links = l, !.images = i] :
            l \in 0 .. 50, i \in {0, 1, 5, 10, 11, 20, 21, 24}}

Audited == Metadata \cup Bodies \cup Headed \cup Structured \cup Rest
=============================================================================
