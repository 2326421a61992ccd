------------------------------ MODULE PageScore ------------------------------
(***************************************************************************)
(* score_page of app/core/scorer.py as operators: the points of every      *)
(* metric to the unit and the recommendations of every category.  A page   *)
(* is the numbers score_page reads off a ParsedPage; lengths are word      *)
(* counts.                                                                 *)
(***************************************************************************)
EXTENDS Lists

(* Scores.                                                                 *)

\* round(n / d) of Python for d > 0: to the nearest integer, halves to even.
Round(n, d) ==
    LET q == n \div d
        r == n % d
    IN  IF 2 * r < d \/ (2 * r = d /\ q % 2 = 0) THEN q ELSE q + 1

Larger(a, b)  == IF a < b THEN b ELSE a
Smaller(a, b) == IF a < b THEN a ELSE b

\* Mutants of InWindow: the excess is negative; lengths are compared with the
\* upper end of the window only.
InWindowReversed(n, lower, upper, most, least) ==
    IF n < lower THEN Round(n * most, lower)
    ELSE IF n <= upper THEN most
    ELSE Larger(most - 2 * (upper - n), least)
InWindowOfUpper(n, lower, upper, most, least) ==
    IF n <= upper THEN Round(n * most, upper)
    ELSE Larger(most - 2 * (n - upper), least)

\* A length against a window of good lengths, the shape several metrics share.
InWindow(n, lower, upper, most, least) ==
    IF n < lower THEN Round(n * most, lower)
    ELSE IF n <= upper THEN most
    ELSE Larger(most - 2 * (n - upper), least)

TitleScore(p)       == InWindow(p.title, 5, 15, 30, 10)
DescriptionScore(p) == InWindow(p.description, 15, 20, 30, 10)
CanonicalScore(p)   == IF p.canonical THEN 20 ELSE 0

RobotsPoints == [index |-> 10, noindex |-> -10, follow |-> 10, nofollow |-> -10,
                 all |-> 20, none |-> -20, noarchive |-> -5, nosnippet |-> -5]

\* Mutant of RobotsBase: nothing is granted to a page without a robots meta tag.
RobotsBaseZero == 0
RobotsBase == 12

\* The points of the directives, in their order, clamped to 0..20 at the end.
RobotsScore(p) ==
    LET points == [i \in DOMAIN p.robots |-> RobotsPoints[p.robots[i]]]
    IN  Larger(0, Smaller(20, RobotsBase + Total(points)))

MetadataScore(p) == TitleScore(p) + DescriptionScore(p) + CanonicalScore(p) + RobotsScore(p)

WordScore(p) == InWindow(p.words, 800, 2500, 20, 7)

AtLevel(p, tag) == {i \in DOMAIN p.headings : p.headings[i].tag = tag}
HeadingWords(p) == Total([i \in DOMAIN p.headings |-> p.headings[i].words])

\* a <= average heading length of p < b; a page without headings has average 0.
AverageIn(p, a, b) ==
    IF p.headings = <<>> THEN a <= 0 /\ 0 < b
    ELSE a * Len(p.headings) <= HeadingWords(p) /\ HeadingWords(p) < b * Len(p.headings)
AverageIs(p, a) == p.headings # <<>> /\ HeadingWords(p) = a * Len(p.headings)

HeadingScore(p) ==
    (CASE Cardinality(AtLevel(p, "h1")) = 1 -> 10
       [] Cardinality(AtLevel(p, "h1")) > 1 -> 5
       [] OTHER -> 0)
    + (CASE Len(p.headings) >= 3 -> 10 [] Len(p.headings) \in 1 .. 2 -> 5 [] OTHER -> 0)
    + (CASE AtLevel(p, "h1") = {} -> 0 [] AtLevel(p, "h2") # {} -> 10 [] OTHER -> 5)
    + (CASE AverageIn(p, 5, 10) \/ AverageIs(p, 10) -> 10 [] AverageIn(p, 1, 5) -> 5 [] OTHER -> 0)

\* The share of distinct words of the body, p.distinct of p.words.
BodyScore(p) ==
    IF p.words = 0 THEN 0
    ELSE IF 10 * p.distinct > 7 * p.words THEN 40
    ELSE Round(40 * p.distinct, p.words)

ContentScore(p) == WordScore(p) + HeadingScore(p) + BodyScore(p)

TypePoints == [Product |-> 5, Organization |-> 5, Article |-> 4, BreadcrumbList |-> 4,
               LocalBusiness |-> 4, Person |-> 4, WebPage |-> 3, Event |-> 3, Review |-> 3]

(***************************************************************************)
(* What score_page reads off a page: the words of its title, description   *)
(* and body, whether it has the first two (one that is blank has no word), *)
(* how many of the body's words are distinct, the directives of its robots *)
(* meta tag, its headings, whether it has JSON-LD and the types in it that *)
(* count, its FAQ items and the words of their answers, its internal       *)
(* links, its images without an alt text.                                  *)
(***************************************************************************)
IsPage(p) ==
    /\ p \in [titled: BOOLEAN, title: Nat, described: BOOLEAN, description: Nat,
              canonical: BOOLEAN,
              robots: Seq(DOMAIN RobotsPoints), words: Nat, distinct: Nat,
              headings: Seq([tag: {"h1", "h2", "h3", "h4", "h5", "h6"}, words: Nat]),
              schema: BOOLEAN, types: SUBSET DOMAIN TypePoints, faqs: Nat, answers: Nat,
              links: Nat, images: Nat]
    /\ p.distinct <= p.words
    /\ p.title > 0 => p.titled
    /\ p.description > 0 => p.described

\* The points of the types worth n each.
Worth(p, n) == n * Cardinality({t \in p.types : TypePoints[t] = n})

\* Mutant of TypesScore: the points are not capped.
TypesScoreUncapped(p) == Worth(p, 3) + Worth(p, 4) + Worth(p, 5)
TypesScore(p) == Smaller(30, Worth(p, 3) + Worth(p, 4) + Worth(p, 5))

\* p.answers words in p.faqs answers; the two ends of 10..50 are both in it.
FaqScore(p) ==
    IF p.faqs = 0 THEN 0
    ELSE 10 + InWindow(p.faqs, 5, 10, 20, 7)
         + (CASE p.answers < 10 * p.faqs -> 0
              [] p.answers > 50 * p.faqs -> 10
              [] OTHER -> Round(20 * p.answers, 50 * p.faqs))

StructuredScore(p) == (IF p.schema THEN 20 ELSE 0) + TypesScore(p) + FaqScore(p)

LinkScore(p) ==
    CASE p.links = 0 -> 0
      [] p.links \in 1 .. 5 -> 30
      [] p.links \in 6 .. 20 -> Round(100 * p.links, 20)
      [] OTHER -> Larger(100 - 2 * (p.links - 20), 50)

ImageScore(p) ==
    CASE p.images <= 10 -> Round(100 * 10 - 50 * p.images, 10)
      [] p.images \in 11 .. 20 -> Round(50 * 10 - 50 * (p.images - 10), 10)
      [] OTHER -> 0

(***************************************************************************)
(* Hundredths of score_page's overall score before round(): the float sum  *)
(* rounds a tie either way, so what is said of the score is said of this.  *)
(***************************************************************************)
Weighted(p) == 40 * StructuredScore(p) + 25 * MetadataScore(p) + 20 * ContentScore(p)
               + 10 * LinkScore(p) + 5 * ImageScore(p)

-----------------------------------------------------------------------------
(* The recommendations of each category, in the order of the code.         *)

When(condition, recommendations) == IF condition THEN recommendations ELSE <<>>

StructuredAdvice(p) ==
    When(~p.schema, <<"Add_JSON_LD">>)
    \o When(TypesScore(p) = 0, <<"Add_high_value_schema_types">>)
    \o When(TypesScore(p) \in 1 .. 10, <<"Add_more_specific_schema_types">>)
    \o IF p.faqs = 0 THEN <<"Add_FAQPage_schema">>
       ELSE When(p.faqs <= 5, <<"Add_more_FAQ_items">>)
            \o When(p.faqs > 10, <<"Keep_FAQ_items_under_10">>)
            \o When(p.answers < 10 * p.faqs, <<"Expand_FAQ_answers">>)
            \o When(p.answers > 50 * p.faqs, <<"Keep_FAQ_answers_concise">>)

\* Mutant of LinkAdvice: the second band stops one link too early.
LinkAdviceGap(p) ==
    When(p.links = 0, <<"Add_internal_links">>)
    \o When(p.links \in 1 .. 4, <<"Add_more_internal_links">>)
    \o When(p.links > 20, <<"Keep_internal_links_focused">>)

LinkAdvice(p) ==
    When(p.links = 0, <<"Add_internal_links">>)
    \o When(p.links \in 1 .. 5, <<"Add_more_internal_links">>)
    \o When(p.links > 20, <<"Keep_internal_links_focused">>)

ContentAdvice(p) ==
    When(p.words < 800, <<"Lengthen_your_Content", "Make_your_Content_descriptive">>)
    \o When(p.words > 2500, <<"Make_your_content_specific", "Long_Content_is_spam">>)
    \o When(Cardinality(AtLevel(p, "h1")) > 1, <<"Use_only_one_H1">>)
    \o When(AtLevel(p, "h1") = {}, <<"Add_a_single_H1">>)
    \o When(Len(p.headings) \in 1 .. 2, <<"Add_more_headings">>)
    \o When(p.headings = <<>>, <<"Add_headings">>)
    \o When(AtLevel(p, "h1") = {}, <<"Add_H1_and_H2_headings">>)
    \o When(AtLevel(p, "h1") # {} /\ AtLevel(p, "h2") = {}, <<"Add_H2_headings">>)
    \o When(AverageIn(p, 1, 5), <<"Make_headings_more_descriptive">>)
    \o When(AverageIn(p, 0, 1) \/ ~(AverageIn(p, 0, 10) \/ AverageIs(p, 10)),
            <<"Keep_headings_concise">>)
    \o When(p.words = 0, <<"Write_content", "Without_content_no_visibility">>)
    \o When(p.words > 0 /\ 10 * p.distinct < 4 * p.words,
            <<"Rewrite_content", "Avoid_keyword_stuffing">>)
    \o When(10 * p.distinct \in 4 * p.words .. 7 * p.words /\ p.words > 0,
            <<"Enrich_your_content">>)

ImageAdvice(p) ==
    When(p.images \in 1 .. 10, <<"Add_descriptive_alt_text">>)
    \o When(p.images \in 11 .. 20, <<"Urgently_add_alt_text">>)
    \o When(p.images > 20, <<"Audit_all_images">>)

MetadataAdvice(p) ==
    When(~p.titled, <<"Title_is_required", "Title_is_important">>)
    \o When(p.titled /\ p.title < 5, <<"Lengthen_your_Title", "Make_your_Title_descriptive">>)
    \o When(p.title > 15, <<"Make_the_title_short">>)
    \o When(~p.described, <<"Description_is_required", "Description_is_important">>)
    \o When(p.described /\ p.description < 15,
            <<"Lengthen_your_Description", "Make_your_Description_descriptive">>)
    \o When(p.description > 20, <<"Make_the_description_short">>)
    \o When(~p.canonical, <<"Canonical_URL_is_required">>)
    \o When(RobotsScore(p) = 0, <<"Remove_restrictive_directives">>)
    \o When(RobotsScore(p) \in 1 .. 11, <<"Review_restrictions">>)
    \o When(RobotsScore(p) = 12, <<"Consider_index_follow">>)

\* What score_site collects of a page, category by category.
Advice(p) == StructuredAdvice(p) \o LinkAdvice(p) \o ContentAdvice(p) \o ImageAdvice(p)
             \o MetadataAdvice(p)
=============================================================================
