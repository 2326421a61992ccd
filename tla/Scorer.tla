------------------------------- MODULE Scorer -------------------------------
(***************************************************************************)
(* The deterministic scoring of PageScore in use: a page is scored, its    *)
(* owner follows a recommendation, the page is scored again.               *)
(***************************************************************************)
EXTENDS PageScore

CONSTANTS
    Start,   \* the pages audited first
    Draft    \* bound: words an owner adds to or cuts from a body at a time

ASSUME StartAssumption == \A p \in Start : IsPage(p)

(* A draft never jumps over the window of good lengths.                     *)
ASSUME DraftAssumption == Draft \in 1 .. 1700

VARIABLE page

-----------------------------------------------------------------------------
(* The smallest edit that follows each recommendation.                     *)

\* Mutant of TooLong: the comparison is turned round.
TooLongReversed(n, upper) == n < upper

TooShort(n, lower) == n < lower
TooLong(n, upper)  == n > upper

EditTitle ==
    \/ TooShort(page.title, 5) /\ page' = [page EXCEPT !.title = @ + 1, !.titled = TRUE]
    \/ TooLong(page.title, 15) /\ page' = [page EXCEPT !.title = @ - 1]

EditDescription ==
    \/ /\ TooShort(page.description, 15)
       /\ page' = [page EXCEPT !.description = @ + 1, !.described = TRUE]
    \/ TooLong(page.description, 20) /\ page' = [page EXCEPT !.description = @ - 1]

AddCanonical == ~page.canonical /\ page' = [page EXCEPT !.canonical = TRUE]

\* "Remove restrictive directives", "Consider setting to index, follow".
EditRobots ==
    \/ /\ RobotsScore(page) < 12
       /\ \E i \in DOMAIN page.robots :
             /\ RobotsPoints[page.robots[i]] < 0
             /\ page' = [page EXCEPT !.robots = RemoveAt(@, i)]
    \/ /\ RobotsScore(page) = 12
       /\ page' = [page EXCEPT !.robots = <<"index", "follow">>]

\* A longer body gains words that were not there; a shorter one loses repeated
\* words first.
EditBody ==
    \/ /\ TooShort(page.words, 800)
       /\ page' = [page EXCEPT !.words = @ + Draft, !.distinct = @ + Draft]
    \/ /\ TooLong(page.words, 2500)
       /\ page' = [page EXCEPT !.words = @ - Draft,
                               !.distinct = Smaller(@, page.words - Draft)]
    \/ /\ 10 * page.distinct <= 7 * page.words
       /\ page' = [page EXCEPT !.distinct = Smaller(@ + Draft, page.words)]

Heading(tag, words) == [tag |-> tag, words |-> words]
AddHeading(tag) ==
    \E n \in {5, 10} : page' = [page EXCEPT !.headings = Append(@, Heading(tag, n))]

NeedsH1 == AtLevel(page, "h1") = {}
NeedsH2 == AtLevel(page, "h2") = {}

EditHeadings ==
    \/ NeedsH1 /\ AddHeading("h1")
    \/ Cardinality(AtLevel(page, "h1")) > 1
       /\ \E i \in AtLevel(page, "h1") : page' = [page EXCEPT !.headings[i].tag = "h2"]
    \/ Len(page.headings) < 3 /\ AddHeading("h3")
    \/ NeedsH2 /\ AddHeading("h2")
    \/ /\ page.headings # <<>> /\ AverageIn(page, 0, 5)
       /\ \E i \in DOMAIN page.headings : page' = [page EXCEPT !.headings[i].words = @ + 1]
    \/ /\ ~AverageIn(page, 0, 10) /\ ~AverageIs(page, 10)
       /\ \E i \in DOMAIN page.headings :
             page.headings[i].words > 0 /\ page' = [page EXCEPT !.headings[i].words = @ - 1]

\* "Add JSON-LD schema markup", "Add high-value schema types", "Add more specific".
EditSchema ==
    \/ ~page.schema /\ page' = [page EXCEPT !.schema = TRUE]
    \/ /\ TypesScore(page) <= 10
       /\ \E t \in DOMAIN TypePoints \ page.types :
             page' = [page EXCEPT !.schema = TRUE, !.types = @ \cup {t}]

\* An item is added with an answer of the average length of the others, rounded
\* up, or dropped with one of that length, rounded down.
EditFaqs ==
    \/ page.faqs = 0 /\ page' = [page EXCEPT !.schema = TRUE, !.faqs = 1, !.answers = 10]
    \/ page.faqs \in 1 .. 5
       /\ page' = [page EXCEPT !.faqs = @ + 1, !.answers = @ + (@ + page.faqs - 1) \div page.faqs]
    \/ page.faqs > 10
       /\ page' = [page EXCEPT !.faqs = @ - 1, !.answers = @ - (@ \div page.faqs)]
    \/ page.answers < 10 * page.faqs /\ page' = [page EXCEPT !.answers = @ + page.faqs]

\* "Keep FAQ answers concise (10-50 words)": any average of that range.
EditAnswers ==
    /\ page.answers > 50 * page.faqs
    /\ \E average \in 10 .. 50 : page' = [page EXCEPT !.answers = average * page.faqs]

EditLinks ==
    \/ page.links <= 5 /\ page' = [page EXCEPT !.links = @ + 1]
    \/ page.links > 20 /\ page' = [page EXCEPT !.links = @ - 1]

EditImages == page.images > 0 /\ page' = [page EXCEPT !.images = @ - 1]

Init == page \in Start

Next ==
    \/ EditTitle \/ EditDescription \/ AddCanonical \/ EditRobots
    \/ EditBody \/ EditHeadings \/ EditSchema \/ EditFaqs \/ EditAnswers
    \/ EditLinks \/ EditImages

Spec == Init /\ [][Next]_page

(* An owner who keeps following the recommendations.                       *)
FairSpec == Spec /\ WF_page(Next)

-----------------------------------------------------------------------------
(* Properties.                                                             *)

TypeOK == IsPage(page)

(***************************************************************************)
(* README.md:70, "Overall and per-category scores are 0-100", for the five *)
(* categories the rules compute (SiteAudit has the semantic one): the sums *)
(* of a category's metrics never leave the range its max_possible names.   *)
(***************************************************************************)
ScoresInRange ==
    /\ {StructuredScore(page), MetadataScore(page), ContentScore(page),
        LinkScore(page), ImageScore(page)} \subseteq 0 .. 100
    /\ Weighted(page) \in 0 .. 100 * 100

(***************************************************************************)
(* No edit is made that no recommendation asks for, and following one      *)
(* never lowers the overall score, with one exception: long FAQ answers    *)
(* that are cut below 24 words, although scorer.py:538 says 10-50.         *)
(***************************************************************************)
Followed ==
    /\ Advice(page) # <<>>
    /\ ~EditAnswers \/ page'.answers >= 24 * page'.faqs
          => Weighted(page') >= Weighted(page)
AdvicePays == [][Followed]_page

\* score_page has no recommendation for p.
Unadvised(p) ==
    /\ p.title \in 5 .. 15 /\ p.description \in 15 .. 20 /\ p.canonical
    /\ RobotsScore(p) > 12
    /\ p.words \in 800 .. 2500 /\ 10 * p.distinct > 7 * p.words
    /\ Cardinality(AtLevel(p, "h1")) = 1 /\ AtLevel(p, "h2") # {} /\ Len(p.headings) >= 3
    /\ AverageIn(p, 5, 10) \/ AverageIs(p, 10)
    /\ p.schema /\ TypesScore(p) > 10
    /\ p.faqs \in 6 .. 10 /\ p.answers \in 10 * p.faqs .. 50 * p.faqs
    /\ p.links \in 6 .. 20 /\ p.images = 0

(***************************************************************************)
(* The bands of the recommendations leave no gap and do not overlap the    *)
(* good ones: exactly the pages that meet every one of the windows get no  *)
(* recommendation, and none is given twice.                                *)
(***************************************************************************)
AdviceIsExact ==
    /\ Advice(page) = <<>> <=> Unadvised(page)
    /\ IsInjective(Advice(page))

(***************************************************************************)
(* A page that is left without a recommendation is well over the "good"    *)
(* band (65) of README.md:70, though not always in the "strong" one (80).  *)
(***************************************************************************)
UnadvisedIsGood == Unadvised(page) => Weighted(page) >= 7700

(***************************************************************************)
(* Every recommendation has an edit that follows it, and they have an end: *)
(* an owner who keeps following them gets a report without any, for good.  *)
(***************************************************************************)
AdviceSettles == <>[]Unadvised(page)
=============================================================================
