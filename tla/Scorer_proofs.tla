--------------------------- MODULE Scorer_proofs ---------------------------
(***************************************************************************)
(* A page stays a page however its owner follows the recommendations, and  *)
(* what that means for its scores.                                         *)
(***************************************************************************)
EXTENDS Scorer, PageScore_proofs

-----------------------------------------------------------------------------
(* Types.                                                                  *)

LEMMA FieldsOf ==
    ASSUME TypeOK
    PROVE  /\ page \in PageFields /\ page.distinct <= page.words /\ Headed(page)
           /\ page.title \in Nat /\ page.description \in Nat /\ page.words \in Nat
           /\ page.distinct \in Nat /\ page.links \in Nat /\ page.images \in Nat
           /\ page.faqs \in Nat /\ page.answers \in Nat
           /\ page.robots \in Seq(DOMAIN RobotsPoints)
           /\ page.headings \in Seq([tag: {"h1", "h2", "h3", "h4", "h5", "h6"}, words: Nat])
           /\ page.types \subseteq DOMAIN TypePoints
BY IsPageDef DEF TypeOK, PageFields

\* The title and the description an edit leads to.
TitleOf(v)       == page' = [page EXCEPT !.title = v, !.titled = TRUE]
DescriptionOf(v) == page' = [page EXCEPT !.description = v, !.described = TRUE]

(* An edited title or description has words, and is nearer to its window or *)
(* in it.                                                                  *)
LEMMA TextIs ==
    ASSUME TypeOK
    PROVE  /\ EditTitle => \E v \in Nat \ {0} :
                 /\ TitleOf(v)
                 /\ \/ page.title < 5 /\ page.title <= v /\ v <= 15
                    \/ page.title > 15 /\ 5 <= v /\ v <= page.title
           /\ EditDescription => \E v \in Nat \ {0} :
                 /\ DescriptionOf(v)
                 /\ \/ page.description < 15 /\ page.description <= v /\ v <= 20
                    \/ page.description > 20 /\ 15 <= v /\ v <= page.description
<1>1. /\ page \in PageFields /\ Headed(page)
      /\ page.title \in Nat /\ page.description \in Nat
  BY FieldsOf
<1>2. ASSUME EditTitle
      PROVE  \E v \in Nat \ {0} : /\ TitleOf(v)
                                  /\ \/ page.title < 5 /\ page.title <= v /\ v <= 15
                                     \/ page.title > 15 /\ 5 <= v /\ v <= page.title
  <2>1. CASE page.title < 5 /\ page' = [page EXCEPT !.title = @ + 1, !.titled = TRUE]
    <3>1. TitleOf(page.title + 1)
      BY <2>1 DEF TitleOf
    <3> QED
      BY <1>1, <2>1, <3>1
  <2>2. CASE page.title > 15 /\ page' = [page EXCEPT !.title = @ - 1]
    <3>1. page.titled = TRUE
      BY <1>1, <2>2 DEF Headed, PageFields
    <3>2. TitleOf(page.title - 1)
      BY <1>1, <2>2, <3>1 DEF TitleOf, PageFields
    <3> QED
      BY <1>1, <2>2, <3>2
  <2> QED
    BY <1>2, <2>1, <2>2 DEF EditTitle, TooShort, TooLong
<1>3. ASSUME EditDescription
      PROVE  \E v \in Nat \ {0} : /\ DescriptionOf(v)
                                  /\ \/ page.description < 15 /\ page.description <= v /\ v <= 20
                                     \/ page.description > 20 /\ 15 <= v /\ v <= page.description
  <2>1. CASE page.description < 15 /\ page' = [page EXCEPT !.description = @ + 1, !.described = TRUE]
    <3>1. DescriptionOf(page.description + 1)
      BY <2>1 DEF DescriptionOf
    <3> QED
      BY <1>1, <2>1, <3>1
  <2>2. CASE page.description > 20 /\ page' = [page EXCEPT !.description = @ - 1]
    <3>1. page.described = TRUE
      BY <1>1, <2>2 DEF Headed, PageFields
    <3>2. DescriptionOf(page.description - 1)
      BY <1>1, <2>2, <3>1 DEF DescriptionOf, PageFields
    <3> QED
      BY <1>1, <2>2, <3>2
  <2> QED
    BY <1>3, <2>1, <2>2 DEF EditDescription, TooShort, TooLong
<1> QED
  BY <1>2, <1>3

LEMMA TextTypes ==
    ASSUME TypeOK, EditTitle \/ EditDescription \/ AddCanonical \/ EditLinks \/ EditImages
    PROVE  TypeOK'
<1>1. /\ page \in PageFields /\ page.distinct <= page.words /\ Headed(page)
      /\ page.title \in Nat /\ page.description \in Nat
      /\ page.links \in Nat /\ page.images \in Nat
  BY FieldsOf
<1>2. page' \in PageFields /\ page'.distinct <= page'.words /\ Headed(page')
  <2>1. CASE \E v \in Nat \ {0} : TitleOf(v)
    BY <1>1, <2>1 DEF PageFields, Headed, TitleOf
  <2>2. CASE \E v \in Nat \ {0} : DescriptionOf(v)
    BY <1>1, <2>2 DEF PageFields, Headed, DescriptionOf
  <2>3. CASE \E v \in Nat : page' = [page EXCEPT !.links = v]
    BY <1>1, <2>3 DEF PageFields, Headed
  <2>4. CASE \E v \in Nat : page' = [page EXCEPT !.images = v]
    BY <1>1, <2>4 DEF PageFields, Headed
  <2>5. CASE AddCanonical
    BY <1>1, <2>5 DEF AddCanonical, PageFields, Headed
  <2>6. EditTitle => \E v \in Nat \ {0} : TitleOf(v)
    BY TextIs
  <2>7. EditDescription => \E v \in Nat \ {0} : DescriptionOf(v)
    BY TextIs
  <2>8. EditLinks => \E v \in Nat : page' = [page EXCEPT !.links = v]
    BY <1>1 DEF EditLinks
  <2>9. EditImages => \E v \in Nat : page' = [page EXCEPT !.images = v]
    BY <1>1 DEF EditImages
  <2> QED
    BY <2>1, <2>2, <2>3, <2>4, <2>5, <2>6, <2>7, <2>8, <2>9
<1> QED
  BY <1>2, IsPageDef DEF TypeOK

\* The bodies an edit leads to.
BodyOf(w, n) == page' = [page EXCEPT !.words = w, !.distinct = n]

LEMMA BodyIs ==
    ASSUME TypeOK, EditBody
    PROVE  \E w, n \in Nat : n <= w /\ BodyOf(w, n)
<1>1. /\ page \in PageFields /\ page.distinct <= page.words
      /\ page.words \in Nat /\ page.distinct \in Nat
  BY FieldsOf
<1>2. Draft \in Nat /\ Draft <= 1700
  BY DraftAssumption
<1>3. CASE page' = [page EXCEPT !.words = @ + Draft, !.distinct = @ + Draft]
  <2>1. BodyOf(page.words + Draft, page.distinct + Draft)
    BY <1>3 DEF BodyOf
  <2> QED
    BY <1>1, <1>2, <2>1
<1>4. CASE /\ page.words > 2500
           /\ page' = [page EXCEPT !.words = @ - Draft,
                                   !.distinct = Smaller(@, page.words - Draft)]
  <2>1. BodyOf(page.words - Draft, Smaller(page.distinct, page.words - Draft))
    BY <1>4 DEF BodyOf
  <2>2. /\ page.words - Draft \in Nat /\ Smaller(page.distinct, page.words - Draft) \in Nat
        /\ Smaller(page.distinct, page.words - Draft) <= page.words - Draft
    BY <1>1, <1>2, <1>4 DEF Smaller
  <2> QED
    BY <2>1, <2>2
<1>5. CASE page' = [page EXCEPT !.distinct = Smaller(@ + Draft, page.words)]
  <2>1. BodyOf(page.words, Smaller(page.distinct + Draft, page.words))
    BY <1>1, <1>5 DEF BodyOf, PageFields
  <2>2. /\ Smaller(page.distinct + Draft, page.words) \in Nat
        /\ Smaller(page.distinct + Draft, page.words) <= page.words
    BY <1>1, <1>2 DEF Smaller
  <2> QED
    BY <1>1, <2>1, <2>2
<1> QED
  BY <1>3, <1>4, <1>5 DEF EditBody, TooShort, TooLong

LEMMA BodyTypes ==
    ASSUME TypeOK, EditBody
    PROVE  TypeOK'
<1>1. PICK w, n \in Nat : n <= w /\ BodyOf(w, n)
  BY BodyIs
<1>2. page \in PageFields /\ Headed(page)
  BY FieldsOf
<1>3. page' \in PageFields /\ page'.distinct = n /\ page'.words = w /\ Headed(page')
  BY <1>1, <1>2 DEF PageFields, BodyOf, Headed
<1> QED
  BY <1>1, <1>3, IsPageDef DEF TypeOK

(* The later elements of a concatenation are those of its second part.     *)
LEMMA ConcatAt ==
    ASSUME NEW A, NEW a \in Seq(A), NEW b \in Seq(A),
           NEW k, k \in 1 .. Len(a) + Len(b), ~(k <= Len(a))
    PROVE  (a \o b)[k] = b[k - Len(a)]
OBVIOUS

(* Removing an element of a list leaves a list.                            *)
LEMMA RemoveAtIs ==
    ASSUME NEW A, NEW s \in Seq(A), NEW i \in DOMAIN s
    PROVE  /\ RemoveAt(s, i) \in Seq(A) /\ Len(RemoveAt(s, i)) = Len(s) - 1
           /\ \A k \in 1 .. Len(s) - 1 : RemoveAt(s, i)[k] = IF k < i THEN s[k] ELSE s[k + 1]
<1>1. Len(s) \in Nat /\ i \in 1 .. Len(s) /\ \A k \in 1 .. Len(s) : s[k] \in A
  OBVIOUS
<1> DEFINE a == SubSeq(s, 1, i - 1)
<1> DEFINE b == SubSeq(s, i + 1, Len(s))
<1>2. /\ a \in Seq(A) /\ Len(a) = i - 1
      /\ \A k \in 1 .. i - 1 : a[k] = s[k]
  BY <1>1
<1>3. /\ b \in Seq(A) /\ Len(b) = Len(s) - i
      /\ \A k \in 1 .. Len(s) - i : b[k] = s[k + i]
  BY <1>1
<1> HIDE DEF a, b
<1> DEFINE r == a \o b
<1>4. /\ r \in Seq(A) /\ Len(r) = Len(s) - 1
      /\ \A k \in 1 .. Len(s) - 1 : r[k] = IF k < i THEN s[k] ELSE s[k + 1]
  <2>1. r \in Seq(A) /\ Len(r) = Len(s) - 1
    BY <1>1, <1>2, <1>3
  <2>2. ASSUME NEW k \in 1 .. Len(s) - 1 PROVE r[k] = IF k < i THEN s[k] ELSE s[k + 1]
    <3>1. CASE k < i
      BY <1>1, <1>2, <1>3, <3>1
    <3>2. CASE ~(k < i)
      <4>1. k - (i - 1) \in 1 .. Len(s) - i /\ (k - (i - 1)) + i = k + 1
        BY <1>1, <3>2
      <4>2. r[k] = b[k - (i - 1)]
        <5>1. k \in 1 .. Len(a) + Len(b) /\ ~(k <= Len(a))
          BY <1>1, <1>2, <1>3, <3>2
        <5>2. r[k] = b[k - Len(a)]
          <6>1. a \in Seq(A) /\ b \in Seq(A)
            BY <1>2, <1>3, Zenon
          <6> QED
            BY <5>1, <6>1, ConcatAt, Zenon
        <5>3. Len(a) = i - 1
          BY <1>2, Zenon
        <5> QED
          BY <5>2, <5>3, Zenon
      <4>3. b[k - (i - 1)] = s[(k - (i - 1)) + i]
        BY <1>3, <4>1
      <4> QED
        BY <3>2, <4>1, <4>2, <4>3
    <3> QED
      BY <3>1, <3>2
  <2> QED
    BY <2>1, <2>2
<1> QED
  BY <1>4 DEF RemoveAt, a, b

LEMMA RobotsTypes ==
    ASSUME TypeOK, EditRobots
    PROVE  TypeOK'
<1>1. page \in PageFields /\ page.distinct <= page.words /\ Headed(page)
  BY IsPageDef DEF TypeOK
<1>2. page.robots \in Seq(DOMAIN RobotsPoints)
  BY <1>1 DEF PageFields
<1>3. \E r \in Seq(DOMAIN RobotsPoints) : page' = [page EXCEPT !.robots = r]
  <2>1. CASE \E i \in DOMAIN page.robots : page' = [page EXCEPT !.robots = RemoveAt(@, i)]
    BY <1>2, <2>1, RemoveAtIs
  <2>2. CASE page' = [page EXCEPT !.robots = <<"index", "follow">>]
    <3>1. <<"index", "follow">> \in Seq(DOMAIN RobotsPoints)
      BY DEF RobotsPoints
    <3> QED
      BY <2>2, <3>1
  <2> QED
    BY <2>1, <2>2 DEF EditRobots
<1>4. page' \in PageFields /\ page'.distinct <= page'.words /\ Headed(page')
  BY <1>1, <1>3 DEF PageFields, Headed
<1> QED
  BY <1>4, IsPageDef DEF TypeOK

HeadingLists == Seq([tag: {"h1", "h2", "h3", "h4", "h5", "h6"}, words: Nat])
HeadingsOf(h) == page' = [page EXCEPT !.headings = h]

LEMMA HeadingsIs ==
    ASSUME TypeOK, EditHeadings
    PROVE  \E h \in HeadingLists : HeadingsOf(h)
<1> DEFINE H == page.headings
<1>1. H \in Seq([tag: {"h1", "h2", "h3", "h4", "h5", "h6"}, words: Nat])
  BY FieldsOf
<1>2. /\ H \in HeadingLists
      /\ \A i \in DOMAIN H : H[i] \in [tag: {"h1", "h2", "h3", "h4", "h5", "h6"}, words: Nat]
      /\ \A i \in DOMAIN H : H[i].words \in Nat
  <2> DEFINE R == [tag: {"h1", "h2", "h3", "h4", "h5", "h6"}, words: Nat]
  <2>1. H \in Seq(R)
    BY <1>1
  <2> HIDE DEF R, H
  <2>2. \A i \in DOMAIN H : H[i] \in R
    BY <2>1
  <2>3. \A v \in R : v.words \in Nat
    BY DEF R
  <2> QED
    BY <2>1, <2>2, <2>3 DEF HeadingLists, R
<1>3. ASSUME NEW tag \in {"h1", "h2", "h3"}, AddHeading(tag)
      PROVE  \E h \in HeadingLists : HeadingsOf(h)
  <2>1. PICK n \in {5, 10} : page' = [page EXCEPT !.headings = Append(@, Heading(tag, n))]
    BY <1>3 DEF AddHeading
  <2>2. Append(H, Heading(tag, n)) \in HeadingLists
    BY <1>2 DEF HeadingLists, Heading
  <2>3. HeadingsOf(Append(H, Heading(tag, n)))
    BY <2>1 DEF HeadingsOf
  <2> QED
    BY <2>2, <2>3
<1>4. ASSUME NEW i \in DOMAIN H, NEW v \in [tag: {"h1", "h2", "h3", "h4", "h5", "h6"}, words: Nat],
             HeadingsOf([H EXCEPT ![i] = v])
      PROVE  \E h \in HeadingLists : HeadingsOf(h)
  <2>1. [H EXCEPT ![i] = v] \in HeadingLists
    BY <1>2 DEF HeadingLists
  <2> QED
    BY <1>4, <2>1
<1>5. CASE \E i \in AtLevel(page, "h1") : page' = [page EXCEPT !.headings[i].tag = "h2"]
  <2>1. PICK i \in DOMAIN H : page' = [page EXCEPT !.headings[i].tag = "h2"]
    BY <1>5 DEF AtLevel
  <2>2. HeadingsOf([H EXCEPT ![i] = [H[i] EXCEPT !.tag = "h2"]])
    BY <2>1 DEF HeadingsOf
  <2>3. [H[i] EXCEPT !.tag = "h2"] \in [tag: {"h1", "h2", "h3", "h4", "h5", "h6"}, words: Nat]
    BY <1>2
  <2> QED
    BY <1>4, <2>2, <2>3
<1>6. CASE \E i \in DOMAIN H : page' = [page EXCEPT !.headings[i].words = @ + 1]
  <2>1. PICK i \in DOMAIN H : page' = [page EXCEPT !.headings[i].words = @ + 1]
    BY <1>6
  <2>2. HeadingsOf([H EXCEPT ![i] = [H[i] EXCEPT !.words = H[i].words + 1]])
    BY <2>1 DEF HeadingsOf
  <2>3. H[i].words + 1 \in Nat
    BY <1>2
  <2>4. [H[i] EXCEPT !.words = H[i].words + 1]
            \in [tag: {"h1", "h2", "h3", "h4", "h5", "h6"}, words: Nat]
    BY <1>2, <2>3
  <2> QED
    BY <1>4, <2>2, <2>4
<1>7. CASE \E i \in DOMAIN H :
              H[i].words > 0 /\ page' = [page EXCEPT !.headings[i].words = @ - 1]
  <2>1. PICK i \in DOMAIN H :
            H[i].words > 0 /\ page' = [page EXCEPT !.headings[i].words = @ - 1]
    BY <1>7
  <2>2. HeadingsOf([H EXCEPT ![i] = [H[i] EXCEPT !.words = H[i].words - 1]])
    BY <2>1 DEF HeadingsOf
  <2>3. H[i].words - 1 \in Nat
    BY <1>2, <2>1
  <2>4. [H[i] EXCEPT !.words = H[i].words - 1]
            \in [tag: {"h1", "h2", "h3", "h4", "h5", "h6"}, words: Nat]
    BY <1>2, <2>3
  <2> QED
    BY <1>4, <2>2, <2>4
<1> QED
  BY <1>3, <1>5, <1>6, <1>7 DEF EditHeadings

LEMMA HeadingsTypes ==
    ASSUME TypeOK, EditHeadings
    PROVE  TypeOK'
<1>1. PICK h \in HeadingLists : HeadingsOf(h)
  BY HeadingsIs
<1>2. page \in PageFields /\ page.distinct <= page.words /\ Headed(page)
  BY FieldsOf
<1>3. page' \in PageFields /\ page'.distinct <= page'.words /\ Headed(page')
  BY <1>1, <1>2 DEF PageFields, HeadingLists, HeadingsOf, Headed
<1> QED
  BY <1>3, IsPageDef DEF TypeOK

(* A quotient of a natural number is at most that number.                  *)
LEMMA QuotientIs ==
    ASSUME NEW n \in Int, NEW d \in Nat \ {0}
    PROVE  /\ n \div d \in Int
           /\ d * (n \div d) <= n /\ n < d * (n \div d) + d
           /\ n \in Nat => n \div d \in 0 .. n
<1> DEFINE q == n \div d
<1>1. q \in Int /\ n % d \in 0 .. d - 1 /\ n = (d * q) + (n % d)
  <2>1. q \in Int /\ n % d \in 0 .. d - 1
    OBVIOUS
  <2>2. n = (d * q) + (n % d)
    OBVIOUS
  <2> QED
    BY <2>1, <2>2
<1>2. d * q \in Int
  BY <1>1
<1> HIDE DEF q
<1>3. d * q <= n /\ n < d * q + d
  BY <1>1, <1>2
<1>4. n \in Nat => q >= 0
  <2> SUFFICES ASSUME n \in Nat, q <= -1 PROVE FALSE
    BY <1>1
  <2>1. d * q <= -d
    BY <1>1, Z3
  <2> QED
    BY <1>2, <1>3, <2>1
<1>5. n \in Nat => q <= n
  <2> SUFFICES ASSUME n \in Nat, q > n PROVE FALSE
    BY <1>1
  <2>1. d * q >= q
    BY <1>1, Z3
  <2> QED
    BY <1>1, <1>2, <1>3, <2>1
<1> QED
  BY <1>1, <1>3, <1>4, <1>5 DEF q

\* The FAQ an edit leads to.
FaqOf(b, f, a) == page' = [page EXCEPT !.schema = b, !.faqs = f, !.answers = a]

LEMMA FaqIs ==
    ASSUME TypeOK, EditFaqs \/ EditAnswers
    PROVE  \E b \in BOOLEAN, f, a \in Nat : FaqOf(b, f, a)
<1>1. /\ page \in PageFields /\ page.faqs \in Nat /\ page.answers \in Nat
      /\ page.schema \in BOOLEAN
  BY FieldsOf DEF PageFields
<1>2. CASE page' = [page EXCEPT !.schema = TRUE, !.faqs = 1, !.answers = 10]
  BY <1>2 DEF FaqOf
<1>3. CASE /\ page.faqs \in 1 .. 5
           /\ page' = [page EXCEPT !.faqs = @ + 1,
                                   !.answers = @ + (@ + page.faqs - 1) \div page.faqs]
  <2> DEFINE n == page.answers + page.faqs - 1
  <2> DEFINE q == n \div page.faqs
  <2>1. FaqOf(page.schema, page.faqs + 1, page.answers + q)
    BY <1>1, <1>3 DEF FaqOf, PageFields
  <2>2. n \in Nat /\ n \in Int /\ page.faqs \in Nat \ {0}
    BY <1>1, <1>3
  <2>3. q \in 0 .. n
    <3> HIDE DEF n
    <3> QED
      BY <2>2, QuotientIs
  <2> HIDE DEF q
  <2>4. page.answers + q \in Nat /\ page.faqs + 1 \in Nat
    BY <1>1, <2>2, <2>3
  <2> QED
    BY <1>1, <2>1, <2>4
<1>4. CASE /\ page.faqs > 10
           /\ page' = [page EXCEPT !.faqs = @ - 1, !.answers = @ - (@ \div page.faqs)]
  <2> DEFINE q == page.answers \div page.faqs
  <2>1. FaqOf(page.schema, page.faqs - 1, page.answers - q)
    BY <1>1, <1>4 DEF FaqOf, PageFields
  <2>2. page.answers \in Int /\ page.faqs \in Nat \ {0}
    BY <1>1, <1>4
  <2>3. q \in 0 .. page.answers
    BY <1>1, <2>2, QuotientIs
  <2> HIDE DEF q
  <2>4. page.answers - q \in Nat /\ page.faqs - 1 \in Nat
    BY <1>1, <1>4, <2>3
  <2> QED
    BY <1>1, <2>1, <2>4
<1>5. CASE page' = [page EXCEPT !.answers = @ + page.faqs]
  <2>1. FaqOf(page.schema, page.faqs, page.answers + page.faqs)
    BY <1>1, <1>5 DEF FaqOf, PageFields
  <2> QED
    BY <1>1, <2>1
<1>6. CASE EditAnswers
  <2>1. PICK average \in 10 .. 50 : page' = [page EXCEPT !.answers = average * page.faqs]
    BY <1>6 DEF EditAnswers
  <2>2. FaqOf(page.schema, page.faqs, average * page.faqs)
    BY <1>1, <2>1 DEF FaqOf, PageFields
  <2>3. average * page.faqs \in Nat
    BY <1>1
  <2> QED
    BY <1>1, <2>2, <2>3
<1> QED
  BY <1>2, <1>3, <1>4, <1>5, <1>6 DEF EditFaqs

LEMMA StructureTypes ==
    ASSUME TypeOK, EditSchema \/ EditFaqs \/ EditAnswers
    PROVE  TypeOK'
<1>1. page \in PageFields /\ page.distinct <= page.words /\ Headed(page)
      /\ page.types \subseteq DOMAIN TypePoints
  BY FieldsOf
<1>2. CASE EditSchema
  <2>1. CASE page' = [page EXCEPT !.schema = TRUE]
    <3>1. page' \in PageFields /\ page'.distinct <= page'.words /\ Headed(page')
      BY <1>1, <2>1 DEF PageFields, Headed
    <3> QED
      BY <3>1, IsPageDef DEF TypeOK
  <2>2. CASE \E t \in DOMAIN TypePoints \ page.types :
                page' = [page EXCEPT !.schema = TRUE, !.types = @ \cup {t}]
    <3>1. PICK types \in SUBSET DOMAIN TypePoints :
              page' = [page EXCEPT !.schema = TRUE, !.types = types]
      BY <1>1, <2>2
    <3>2. page' \in PageFields /\ page'.distinct <= page'.words /\ Headed(page')
      BY <1>1, <3>1 DEF PageFields, Headed
    <3> QED
      BY <3>2, IsPageDef DEF TypeOK
  <2> QED
    BY <1>2, <2>1, <2>2 DEF EditSchema
<1>3. CASE EditFaqs \/ EditAnswers
  <2>1. PICK b \in BOOLEAN, f \in Nat, a \in Nat : FaqOf(b, f, a)
    BY <1>3, FaqIs
  <2>2. page' \in PageFields /\ page'.distinct <= page'.words /\ Headed(page')
    BY <1>1, <2>1 DEF PageFields, FaqOf, Headed
  <2> QED
    BY <2>2, IsPageDef DEF TypeOK
<1> QED
  BY <1>2, <1>3

THEOREM TypeCorrect == Spec => []TypeOK
<1>1. Init => TypeOK
  BY StartAssumption DEF Init, TypeOK
<1>2. TypeOK /\ [Next]_page => TypeOK'
  <2> SUFFICES ASSUME TypeOK, [Next]_page PROVE TypeOK'
    OBVIOUS
  <2>1. CASE UNCHANGED page
    BY <2>1 DEF TypeOK
  <2>2. CASE Next
    BY <2>2, TextTypes, BodyTypes, RobotsTypes, HeadingsTypes, StructureTypes DEF Next
  <2> QED
    BY <2>1, <2>2
<1> QED
  BY <1>1, <1>2, PTL DEF Spec

(* README.md:70: every state's categories and overall score are 0 to 100.  *)
THEOREM ScoresStayInRange == Spec => []ScoresInRange
<1>1. TypeOK => ScoresInRange
  BY ScoresOfAnyPage DEF TypeOK, ScoresInRange
<1> QED
  BY TypeCorrect, <1>1, PTL

-----------------------------------------------------------------------------
(* What an edit does to the metrics.                                       *)

\* No metric of q is below the one of p.
Grows(p, q) ==
    /\ TitleScore(p) <= TitleScore(q) /\ DescriptionScore(p) <= DescriptionScore(q)
    /\ CanonicalScore(p) <= CanonicalScore(q) /\ RobotsScore(p) <= RobotsScore(q)
    /\ WordScore(p) <= WordScore(q) /\ HeadingScore(p) <= HeadingScore(q)
    /\ BodyScore(p) <= BodyScore(q)
    /\ (p.schema => q.schema) /\ TypesScore(p) <= TypesScore(q) /\ FaqScore(p) <= FaqScore(q)
    /\ LinkScore(p) <= LinkScore(q) /\ ImageScore(p) <= ImageScore(q)

LEMMA MetricsAre ==
    ASSUME NEW p, IsPage(p)
    PROVE  /\ TitleScore(p) \in Int /\ DescriptionScore(p) \in Int /\ CanonicalScore(p) \in Int
           /\ RobotsScore(p) \in Int /\ WordScore(p) \in Int /\ HeadingScore(p) \in Int
           /\ BodyScore(p) \in Int /\ TypesScore(p) \in Int /\ FaqScore(p) \in Int
           /\ LinkScore(p) \in Int /\ ImageScore(p) \in Int /\ p.schema \in BOOLEAN
<1>1. p.schema \in BOOLEAN
  BY DEF IsPage
<1>2. 0 .. 20 \subseteq Int /\ 0 .. 30 \subseteq Int /\ 0 .. 40 \subseteq Int
      /\ 0 .. 50 \subseteq Int /\ 0 .. 100 \subseteq Int
  OBVIOUS
<1> QED
  BY <1>1, <1>2, MetadataRange, RobotsRange, ContentRange, HeadingRange, BodyRange, TypesRange,
     FaqRange, LinkRange, ImageRange

LEMMA WeightedGrows ==
    ASSUME NEW p, IsPage(p), NEW q, IsPage(q), Grows(p, q)
    PROVE  Weighted(p) <= Weighted(q)
<1>1. StructuredScore(p) <= StructuredScore(q)
  BY MetricsAre DEF Grows, StructuredScore
<1>2. MetadataScore(p) <= MetadataScore(q) /\ ContentScore(p) <= ContentScore(q)
  BY MetricsAre DEF Grows, MetadataScore, ContentScore
<1>3. LinkScore(p) <= LinkScore(q) /\ ImageScore(p) <= ImageScore(q)
  BY DEF Grows
<1>4. \A x \in {p, q} : /\ StructuredScore(x) \in 0 .. 100 /\ MetadataScore(x) \in 0 .. 100
                        /\ ContentScore(x) \in 0 .. 100 /\ LinkScore(x) \in 0 .. 100
                        /\ ImageScore(x) \in 0 .. 100
  BY StructuredRange, MetadataRange, ContentRange, LinkRange, ImageRange
<1> DEFINE a == StructuredScore(p)
<1> DEFINE b == MetadataScore(p)
<1> DEFINE c == ContentScore(p)
<1> DEFINE d == LinkScore(p)
<1> DEFINE e == ImageScore(p)
<1> DEFINE f == StructuredScore(q)
<1> DEFINE g == MetadataScore(q)
<1> DEFINE h == ContentScore(q)
<1> DEFINE i == LinkScore(q)
<1> DEFINE j == ImageScore(q)
<1>5. /\ Weighted(p) = 40 * a + 25 * b + 20 * c + 10 * d + 5 * e
      /\ Weighted(q) = 40 * f + 25 * g + 20 * h + 10 * i + 5 * j
  BY DEF Weighted
<1>6. /\ a \in Int /\ b \in Int /\ c \in Int /\ d \in Int /\ e \in Int
      /\ f \in Int /\ g \in Int /\ h \in Int /\ i \in Int /\ j \in Int
  BY <1>4
<1>7. a <= f /\ b <= g /\ c <= h /\ d <= i /\ e <= j
  BY <1>1, <1>2, <1>3
<1> HIDE DEF a, b, c, d, e, f, g, h, i, j
<1> QED
  BY <1>5, <1>6, <1>7

(* A metric is the same on pages with the same values of what it reads.    *)
LEMMA SameGrows ==
    ASSUME NEW p, IsPage(p), NEW q
    PROVE  /\ p.title = q.title => TitleScore(p) <= TitleScore(q)
           /\ p.description = q.description => DescriptionScore(p) <= DescriptionScore(q)
           /\ p.canonical = q.canonical => CanonicalScore(p) <= CanonicalScore(q)
           /\ p.robots = q.robots => RobotsScore(p) <= RobotsScore(q)
           /\ p.words = q.words => WordScore(p) <= WordScore(q)
           /\ p.headings = q.headings => HeadingScore(p) <= HeadingScore(q)
           /\ p.words = q.words /\ p.distinct = q.distinct => BodyScore(p) <= BodyScore(q)
           /\ p.types = q.types => TypesScore(p) <= TypesScore(q)
           /\ p.faqs = q.faqs /\ p.answers = q.answers => FaqScore(p) <= FaqScore(q)
           /\ p.links = q.links => LinkScore(p) <= LinkScore(q)
           /\ p.images = q.images => ImageScore(p) <= ImageScore(q)
<1>1. /\ p.title = q.title => TitleScore(p) = TitleScore(q)
      /\ p.description = q.description => DescriptionScore(p) = DescriptionScore(q)
      /\ p.canonical = q.canonical => CanonicalScore(p) = CanonicalScore(q)
      /\ p.robots = q.robots => RobotsScore(p) = RobotsScore(q)
  BY Zenon DEF TitleScore, DescriptionScore, CanonicalScore, RobotsScore
<1>2. p.words = q.words => WordScore(p) = WordScore(q)
  BY DEF WordScore
<1>3. p.headings = q.headings => HeadingScore(p) = HeadingScore(q)
  <2>1. p.headings = q.headings =>
            /\ HeadingWords(p) = HeadingWords(q)
            /\ \A tag : AtLevel(p, tag) = AtLevel(q, tag)
    BY DEF HeadingWords, AtLevel
  <2> QED
    BY <2>1 DEF HeadingScore, AverageIn, AverageIs
<1>4. p.words = q.words /\ p.distinct = q.distinct => BodyScore(p) = BodyScore(q)
  BY DEF BodyScore
<1>5. p.types = q.types => TypesScore(p) = TypesScore(q)
  BY Zenon DEF TypesScore, Worth
<1>6. p.faqs = q.faqs /\ p.answers = q.answers => FaqScore(p) = FaqScore(q)
  BY DEF FaqScore
<1>7. /\ p.links = q.links => LinkScore(p) = LinkScore(q)
      /\ p.images = q.images => ImageScore(p) = ImageScore(q)
  BY DEF LinkScore, ImageScore
<1>8. \A x \in Int : x <= x
  OBVIOUS
<1>9. /\ p.title = q.title => TitleScore(p) <= TitleScore(q)
      /\ p.description = q.description => DescriptionScore(p) <= DescriptionScore(q)
      /\ p.canonical = q.canonical => CanonicalScore(p) <= CanonicalScore(q)
      /\ p.robots = q.robots => RobotsScore(p) <= RobotsScore(q)
  BY <1>1, <1>8, MetricsAre, Zenon
<1>10. /\ p.words = q.words => WordScore(p) <= WordScore(q)
       /\ p.headings = q.headings => HeadingScore(p) <= HeadingScore(q)
       /\ p.words = q.words /\ p.distinct = q.distinct => BodyScore(p) <= BodyScore(q)
  BY <1>2, <1>3, <1>4, <1>8, MetricsAre, Zenon
<1>11. /\ p.types = q.types => TypesScore(p) <= TypesScore(q)
       /\ p.faqs = q.faqs /\ p.answers = q.answers => FaqScore(p) <= FaqScore(q)
  BY <1>5, <1>6, <1>8, MetricsAre, Zenon
<1>12. /\ p.links = q.links => LinkScore(p) <= LinkScore(q)
       /\ p.images = q.images => ImageScore(p) <= ImageScore(q)
  BY <1>7, <1>8, MetricsAre, Zenon
<1> QED
  BY <1>9, <1>10, <1>11, <1>12, Zenon

(* A length that moves towards its window does not score less.             *)
LEMMA WindowToward ==
    ASSUME NEW n \in Nat, NEW m \in Nat, NEW lower \in Nat \ {0}, NEW upper \in Nat,
           NEW most \in Nat, NEW least \in 0 .. most, lower <= upper,
           \/ n < lower /\ n <= m /\ m <= upper
           \/ n > upper /\ lower <= m /\ m <= n
    PROVE  InWindow(n, lower, upper, most, least) <= InWindow(m, lower, upper, most, least)
<1>1. CASE n < lower /\ m < lower
  <2>1. n <= m /\ n * most \in Int /\ m * most \in Int
    BY <1>1
  <2>2. (n * most) * lower <= (m * most) * lower
    <3>1. n * most <= m * most
      BY <2>1, Z3
    <3> DEFINE a == n * most
    <3> DEFINE b == m * most
    <3>2. a \in Int /\ b \in Int /\ a <= b
      BY <2>1, <3>1
    <3> HIDE DEF a, b
    <3>3. a * lower <= b * lower
      BY <3>2, Z3
    <3> QED
      BY <3>3 DEF a, b
  <2>3. Round(n * most, lower) <= Round(m * most, lower)
    BY <2>1, <2>2, RoundMonotone, Zenon
  <2> QED
    BY <1>1, <2>3 DEF InWindow
<1>2. CASE lower <= m /\ m <= upper
  <2>1. InWindow(m, lower, upper, most, least) = most
    BY <1>2 DEF InWindow
  <2>2. InWindow(n, lower, upper, most, least) \in 0 .. most
    BY WindowRange, Zenon
  <2> QED
    BY <2>1, <2>2
<1>3. CASE n > upper /\ m > upper /\ m <= n
  BY <1>3 DEF InWindow, Larger
<1> QED
  BY <1>1, <1>2, <1>3

Fields == {"titled", "title", "described", "description", "canonical", "robots", "words",
           "distinct", "headings", "schema", "types", "faqs", "answers", "links", "images"}

\* p and q differ at most in the fields fs.
OnlyIn(p, q, fs) == \A f \in Fields \ fs : p[f] = q[f]

LEMMA OtherGrows ==
    ASSUME NEW p, IsPage(p), NEW q, NEW fs, OnlyIn(p, q, fs)
    PROVE  /\ "title" \notin fs => TitleScore(p) <= TitleScore(q)
           /\ "description" \notin fs => DescriptionScore(p) <= DescriptionScore(q)
           /\ "canonical" \notin fs => CanonicalScore(p) <= CanonicalScore(q)
           /\ "robots" \notin fs => RobotsScore(p) <= RobotsScore(q)
           /\ "words" \notin fs => WordScore(p) <= WordScore(q)
           /\ "headings" \notin fs => HeadingScore(p) <= HeadingScore(q)
           /\ "words" \notin fs /\ "distinct" \notin fs => BodyScore(p) <= BodyScore(q)
           /\ "schema" \notin fs => p.schema = q.schema
           /\ "types" \notin fs => TypesScore(p) <= TypesScore(q)
           /\ "faqs" \notin fs /\ "answers" \notin fs => FaqScore(p) <= FaqScore(q)
           /\ "links" \notin fs => LinkScore(p) <= LinkScore(q)
           /\ "images" \notin fs => ImageScore(p) <= ImageScore(q)
<1>1. /\ "title" \notin fs => p.title = q.title
      /\ "description" \notin fs => p.description = q.description
      /\ "canonical" \notin fs => p.canonical = q.canonical
      /\ "robots" \notin fs => p.robots = q.robots
      /\ "words" \notin fs => p.words = q.words
      /\ "distinct" \notin fs => p.distinct = q.distinct
      /\ "headings" \notin fs => p.headings = q.headings
      /\ "schema" \notin fs => p.schema = q.schema
      /\ "types" \notin fs => p.types = q.types
      /\ "faqs" \notin fs => p.faqs = q.faqs
      /\ "answers" \notin fs => p.answers = q.answers
      /\ "links" \notin fs => p.links = q.links
      /\ "images" \notin fs => p.images = q.images
  BY DEF OnlyIn, Fields
<1>2. /\ "title" \notin fs => TitleScore(p) <= TitleScore(q)
      /\ "description" \notin fs => DescriptionScore(p) <= DescriptionScore(q)
      /\ "canonical" \notin fs => CanonicalScore(p) <= CanonicalScore(q)
      /\ "robots" \notin fs => RobotsScore(p) <= RobotsScore(q)
  BY <1>1, SameGrows, Zenon
<1>3. /\ "words" \notin fs => WordScore(p) <= WordScore(q)
      /\ "headings" \notin fs => HeadingScore(p) <= HeadingScore(q)
      /\ "words" \notin fs /\ "distinct" \notin fs => BodyScore(p) <= BodyScore(q)
  BY <1>1, SameGrows, Zenon
<1>4. /\ "types" \notin fs => TypesScore(p) <= TypesScore(q)
      /\ "faqs" \notin fs /\ "answers" \notin fs => FaqScore(p) <= FaqScore(q)
  BY <1>1, SameGrows, Zenon
<1>5. /\ "links" \notin fs => LinkScore(p) <= LinkScore(q)
      /\ "images" \notin fs => ImageScore(p) <= ImageScore(q)
  BY <1>1, SameGrows, Zenon
<1> QED
  BY <1>1, <1>2, <1>3, <1>4, <1>5, Zenon

LEMMA TextPays ==
    ASSUME TypeOK, EditTitle \/ EditDescription \/ AddCanonical
    PROVE  Grows(page, page')
<1>1. /\ page \in PageFields /\ page.title \in Nat /\ page.description \in Nat
      /\ IsPage(page)
  BY FieldsOf DEF TypeOK
<1>2. CASE EditTitle
  <2>1. PICK v \in Nat : /\ TitleOf(v)
                        /\ \/ page.title < 5 /\ page.title <= v /\ v <= 15
                           \/ page.title > 15 /\ 5 <= v /\ v <= page.title
    BY <1>2, TextIs
  <2>2. page'.title = v /\ OnlyIn(page, page', {"titled", "title"})
    BY <1>1, <2>1 DEF PageFields, TitleOf, OnlyIn, Fields
  <2>3. 5 \in Nat \ {0} /\ 15 \in Nat /\ 30 \in Nat /\ 10 \in 0 .. 30 /\ 5 <= 15
    OBVIOUS
  <2>4. TitleScore(page) <= TitleScore(page')
    BY <1>1, <2>1, <2>2, <2>3, WindowToward, Zenon DEF TitleScore
  <2> QED
    BY <1>1, <2>2, <2>4, OtherGrows DEF Grows
<1>3. CASE EditDescription
  <2>1. PICK v \in Nat : /\ DescriptionOf(v)
                        /\ \/ page.description < 15 /\ page.description <= v /\ v <= 20
                           \/ page.description > 20 /\ 15 <= v /\ v <= page.description
    BY <1>3, TextIs
  <2>2. page'.description = v /\ OnlyIn(page, page', {"described", "description"})
    BY <1>1, <2>1 DEF PageFields, DescriptionOf, OnlyIn, Fields
  <2>3. 15 \in Nat \ {0} /\ 20 \in Nat /\ 30 \in Nat /\ 10 \in 0 .. 30 /\ 15 <= 20
    OBVIOUS
  <2>4. DescriptionScore(page) <= DescriptionScore(page')
    BY <1>1, <2>1, <2>2, <2>3, WindowToward, Zenon DEF DescriptionScore
  <2> QED
    BY <1>1, <2>2, <2>4, OtherGrows DEF Grows
<1>4. CASE AddCanonical
  <2>1. page'.canonical = TRUE /\ OnlyIn(page, page', {"canonical"})
    BY <1>1, <1>4 DEF AddCanonical, PageFields, OnlyIn, Fields
  <2>2. CanonicalScore(page) <= CanonicalScore(page')
    BY <2>1 DEF CanonicalScore
  <2> QED
    BY <1>1, <2>1, <2>2, OtherGrows DEF Grows
<1> QED
  BY <1>2, <1>3, <1>4

(* The robots points of a list without one of its directives.              *)
LEMMA RobotsPays ==
    ASSUME TypeOK, EditRobots
    PROVE  Grows(page, page')
<1>1. page \in PageFields /\ IsPage(page) /\ page.robots \in Seq(DOMAIN RobotsPoints)
  BY FieldsOf DEF TypeOK
<1>2. TypeOK' /\ IsPage(page')
  BY RobotsTypes DEF TypeOK
<1>3. CASE page' = [page EXCEPT !.robots = <<"index", "follow">>]
  <2>1. page'.robots = <<"index", "follow">> /\ OnlyIn(page, page', {"robots"})
    BY <1>1, <1>3 DEF PageFields, OnlyIn, Fields
  <2> DEFINE u == [k \in DOMAIN page'.robots |-> RobotsPoints[page'.robots[k]]]
  <2>2. u = <<10, 10>>
    BY <2>1 DEF RobotsPoints
  <2>3. Total(<<10, 10>>) = 20
    <3> DEFINE v == <<10, 10>>
    <3>1. Len(v) = 2 /\ v[1] = 10 /\ v[2] = 10
      OBVIOUS
    <3>2. Len(v) \in Nat /\ \A k \in 1 .. Len(v) : v[k] \in Int
      OBVIOUS
    <3> HIDE DEF v
    <3>3. PICK t \in [0 .. Len(v) -> Int] :
              /\ t[0] = 0 /\ \A k \in 1 .. Len(v) : t[k] = t[k - 1] + v[k]
              /\ Total(v) = t[Len(v)]
      BY <3>2, TotalDef
    <3>4. t[1] = t[0] + 10 /\ t[2] = t[1] + 10
      BY <3>1, <3>3
    <3> QED
      BY <3>1, <3>3, <3>4 DEF v
  <2>4. RobotsScore(page') = Larger(0, Smaller(20, 12 + Total(u)))
    BY DEF RobotsScore, RobotsBase
  <2>5. RobotsScore(page') = 20
    BY <2>2, <2>3, <2>4 DEF Larger, Smaller
  <2>6. RobotsScore(page) <= RobotsScore(page')
    <3>1. RobotsScore(page) \in 0 .. 20
      BY <1>1, RobotsRange, Zenon
    <3> QED
      BY <2>5, <3>1
  <2> QED
    BY <1>1, <2>1, <2>6, OtherGrows DEF Grows
<1>4. CASE \E i \in DOMAIN page.robots : /\ RobotsPoints[page.robots[i]] < 0
                                        /\ page' = [page EXCEPT !.robots = RemoveAt(@, i)]
  <2>1. PICK i \in DOMAIN page.robots : /\ RobotsPoints[page.robots[i]] < 0
                                       /\ page' = [page EXCEPT !.robots = RemoveAt(@, i)]
    BY <1>4
  <2>2. page'.robots = RemoveAt(page.robots, i) /\ OnlyIn(page, page', {"robots"})
    BY <1>1, <2>1 DEF PageFields, OnlyIn, Fields
  <2> DEFINE s == [k \in DOMAIN page.robots |-> RobotsPoints[page.robots[k]]]
  <2> DEFINE u == [k \in DOMAIN page'.robots |-> RobotsPoints[page'.robots[k]]]
  <2> DEFINE n == Len(page.robots) - 1
  <2>3. n \in Nat /\ Len(page.robots) = n + 1 /\ i \in 1 .. n + 1
    BY <1>1, <2>1
  <2>4. Len(s) = n + 1 /\ \A k \in 1 .. n + 1 : s[k] \in Int
    BY <1>1, <2>3, RobotsPointsAre
  <2>5. /\ Len(page'.robots) = n
        /\ \A k \in 1 .. n : page'.robots[k]
                              = IF k < i THEN page.robots[k] ELSE page.robots[k + 1]
    <3>1. /\ Len(RemoveAt(page.robots, i)) = Len(page.robots) - 1
          /\ \A k \in 1 .. Len(page.robots) - 1 : RemoveAt(page.robots, i)[k]
                 = IF k < i THEN page.robots[k] ELSE page.robots[k + 1]
      BY <1>1, <2>1, RemoveAtIs, Zenon
    <3> QED
      BY <2>2, <3>1, Zenon
  <2>6. Len(u) = n
    BY <1>2, <2>5, RobotsPointsAre
  <2>7. ASSUME NEW k \in 1 .. n PROVE u[k] = IF k < i THEN s[k] ELSE s[k + 1]
    <3>1. page'.robots \in Seq(DOMAIN RobotsPoints)
      BY <1>2 DEF IsPage
    <3>2. DOMAIN page'.robots = 1 .. n /\ DOMAIN page.robots = 1 .. n + 1
      <4> HIDE DEF n
      <4> QED
        BY <1>1, <2>3, <2>5, <3>1
    <3>3. k \in 1 .. n + 1 /\ k + 1 \in 1 .. n + 1
      BY <2>3
    <3> QED
      BY <2>5, <3>2, <3>3
  <2>8. s[i] < 0 /\ s[i] \in Int
    BY <2>1, <2>3, <2>4
  <2> HIDE DEF s, u, n
  <2>9. Total(u) = Total(s) - s[i] /\ Total(s) \in Int
    <3>1. Len(s) \in Nat /\ \A k \in 1 .. Len(s) : s[k] \in Int
      BY <2>3, <2>4
    <3>2. Total(s) \in Int
      BY <3>1, TotalDef
    <3>3. Total(u) = Total(s) - s[i]
      BY <2>3, <2>4, <2>6, <2>7, TotalWithout, Zenon
    <3> QED
      BY <3>2, <3>3
  <2>10. /\ RobotsScore(page) = Larger(0, Smaller(20, 12 + Total(s)))
         /\ RobotsScore(page') = Larger(0, Smaller(20, 12 + Total(u)))
    BY DEF RobotsScore, RobotsBase, s, u
  <2>11. RobotsScore(page) <= RobotsScore(page')
    BY <2>8, <2>9, <2>10 DEF Larger, Smaller
  <2> QED
    BY <1>1, <2>2, <2>11, OtherGrows DEF Grows
<1> QED
  BY <1>3, <1>4 DEF EditRobots

(* A body with a greater share of distinct words does not score less.      *)
LEMMA ShareGrows ==
    ASSUME NEW p, IsPage(p), NEW q, IsPage(q), q.words # 0,
           p.distinct * q.words <= q.distinct * p.words
    PROVE  BodyScore(p) <= BodyScore(q)
<1> DEFINE d == p.distinct
           w == p.words
           e == q.distinct
           x == q.words
<1>1. d \in Nat /\ w \in Nat /\ e \in Nat /\ x \in Nat /\ x > 0 /\ d * x <= e * w
  <2>1. d \in Nat /\ w \in Nat /\ e \in Nat /\ x \in Nat
    BY FieldsAre
  <2>2. x # 0 /\ d * x <= e * w
    OBVIOUS
  <2> QED
    BY <2>1, <2>2
<1>2. /\ BodyScore(p) = IF w = 0 THEN 0 ELSE IF 10 * d > 7 * w THEN 40 ELSE Round(40 * d, w)
      /\ BodyScore(q) = IF x = 0 THEN 0 ELSE IF 10 * e > 7 * x THEN 40 ELSE Round(40 * e, x)
      /\ BodyScore(p) \in 0 .. 40 /\ BodyScore(q) \in 0 .. 40
  BY BodyRange DEF BodyScore
<1> HIDE DEF d, w, e, x
<1>3. CASE w = 0 \/ 10 * e > 7 * x
  BY <1>1, <1>2, <1>3
<1>4. CASE w # 0 /\ 10 * e <= 7 * x
  <2>1. 10 * d <= 7 * w
    <3> SUFFICES ASSUME 10 * d > 7 * w PROVE FALSE
      BY <1>1
    <3>1. (10 * d) * x > (7 * w) * x
      BY <1>1, Z3
    <3>2. (10 * e) * w <= (7 * x) * w
      BY <1>1, <1>4, Z3
    <3>3. /\ (10 * d) * x = 10 * (d * x) /\ (10 * e) * w = 10 * (e * w)
          /\ (7 * w) * x = (7 * x) * w
          /\ d * x \in Int /\ e * w \in Int /\ (7 * x) * w \in Int
      BY <1>1, Z3
    <3> QED
      BY <1>1, <3>1, <3>2, <3>3
  <2>2. (40 * d) * x <= (40 * e) * w
    <3>1. /\ (40 * d) * x = 40 * (d * x) /\ (40 * e) * w = 40 * (e * w)
          /\ d * x \in Int /\ e * w \in Int
      BY <1>1, Z3
    <3> QED
      BY <1>1, <3>1
  <2>3. /\ 40 * d \in Int /\ 40 * e \in Int /\ w \in Nat \ {0} /\ x \in Nat \ {0}
    BY <1>1, <1>4
  <2>4. Round(40 * d, w) <= Round(40 * e, x)
    BY <2>2, <2>3, RoundMonotone, Zenon
  <2> QED
    BY <1>1, <1>2, <1>4, <2>1, <2>4
<1> QED
  BY <1>1, <1>3, <1>4

LEMMA BodyPays ==
    ASSUME TypeOK, EditBody
    PROVE  Grows(page, page')
<1> DEFINE w == page.words
           d == page.distinct
<1>1. page \in PageFields /\ IsPage(page) /\ w \in Nat /\ d \in Nat /\ d <= w
  BY FieldsOf DEF TypeOK
<1>2. Draft \in Nat /\ Draft <= 1700 /\ 1 <= Draft
  BY DraftAssumption
<1>3. IsPage(page')
  BY BodyTypes DEF TypeOK
<1>4. ASSUME NEW x, NEW y, BodyOf(x, y)
      PROVE  page'.words = x /\ page'.distinct = y /\ OnlyIn(page, page', {"words", "distinct"})
  BY <1>1, <1>4 DEF BodyOf, PageFields, OnlyIn, Fields
<1>5. ASSUME WordScore(page) <= WordScore(page'), BodyScore(page) <= BodyScore(page'),
             OnlyIn(page, page', {"words", "distinct"})
      PROVE  Grows(page, page')
  BY <1>1, <1>5, OtherGrows DEF Grows
<1>6. ASSUME page'.words \in Nat,
             \/ w < 800 /\ w <= page'.words /\ page'.words <= 2500
             \/ w > 2500 /\ 800 <= page'.words /\ page'.words <= w
      PROVE  WordScore(page) <= WordScore(page')
  <2> DEFINE lower == 800
             upper == 2500
  <2>1. /\ WordScore(page) = InWindow(w, lower, upper, 20, 7)
        /\ WordScore(page') = InWindow(page'.words, lower, upper, 20, 7)
    BY DEF WordScore
  <2>2. /\ lower \in Nat \ {0} /\ upper \in Nat /\ lower <= upper /\ 20 \in Nat /\ 7 \in 0 .. 20
        /\ \/ w < lower /\ w <= page'.words /\ page'.words <= upper
           \/ w > upper /\ lower <= page'.words /\ page'.words <= w
    BY <1>6
  <2> HIDE DEF lower, upper, w
  <2>3. w \in Nat
    BY <1>1
  <2>4. InWindow(w, lower, upper, 20, 7) <= InWindow(page'.words, lower, upper, 20, 7)
    <3>1. page'.words \in Nat
      BY <1>6
    <3> QED
      BY <2>2, <2>3, <3>1, WindowToward, Zenon
  <2> QED
    BY <2>1, <2>4
<1>7. CASE /\ w < 800
           /\ page' = [page EXCEPT !.words = @ + Draft, !.distinct = @ + Draft]
  <2>1. BodyOf(w + Draft, d + Draft)
    BY <1>1, <1>7 DEF BodyOf
  <2>2. page'.words = w + Draft /\ page'.distinct = d + Draft
        /\ OnlyIn(page, page', {"words", "distinct"})
    BY <2>1, <1>4
  <2>3. WordScore(page) <= WordScore(page')
    BY <1>1, <1>2, <1>6, <1>7, <2>2
  <2>4. d * (w + Draft) <= (d + Draft) * w
    <3> HIDE DEF d, w
    <3>1. d * (w + Draft) = d * w + d * Draft /\ (d + Draft) * w = d * w + w * Draft
          /\ d * w \in Int /\ d * Draft \in Int /\ w * Draft \in Int
      BY <1>1, <1>2, Z3
    <3>2. d * Draft <= w * Draft
      BY <1>1, <1>2, Z3
    <3> QED
      BY <3>1, <3>2
  <2>5. BodyScore(page) <= BodyScore(page')
    BY <1>1, <1>2, <1>3, <2>2, <2>4, ShareGrows
  <2> QED
    BY <1>5, <2>2, <2>3, <2>5
<1>8. CASE /\ w > 2500
           /\ page' = [page EXCEPT !.words = @ - Draft,
                                   !.distinct = Smaller(@, page.words - Draft)]
  <2> DEFINE x == w - Draft
             y == Smaller(d, w - Draft)
  <2>1. BodyOf(x, y)
    BY <1>1, <1>8 DEF BodyOf
  <2>2. page'.words = x /\ page'.distinct = y /\ OnlyIn(page, page', {"words", "distinct"})
    BY <2>1, <1>4
  <2>3. WordScore(page) <= WordScore(page')
    BY <1>1, <1>2, <1>6, <1>8, <2>2
  <2>4. /\ x \in Nat /\ x <= w /\ x # 0 /\ y \in Nat /\ (y = d \/ y = x)
    BY <1>1, <1>2, <1>8 DEF Smaller
  <2> HIDE DEF x, y
  <2>5. d * x <= y * w
    <3> HIDE DEF d, w
    <3>1. d * x <= d * w /\ d * x <= x * w
      BY <1>1, <2>4, Z3
    <3> QED
      BY <2>4, <3>1
  <2>6. BodyScore(page) <= BodyScore(page')
    BY <1>1, <1>3, <2>2, <2>4, <2>5, ShareGrows
  <2> QED
    BY <1>5, <2>2, <2>3, <2>6
<1>9. CASE page' = [page EXCEPT !.distinct = Smaller(@ + Draft, page.words)]
  <2> DEFINE y == Smaller(d + Draft, w)
  <2>1. BodyOf(w, y)
    BY <1>1, <1>9 DEF BodyOf, PageFields
  <2>2. page'.words = w /\ page'.distinct = y /\ OnlyIn(page, page', {"words", "distinct"})
    BY <2>1, <1>4
  <2>3. WordScore(page) <= WordScore(page')
    BY <1>1, <2>2, SameGrows
  <2>4. y \in Nat /\ d <= y
    BY <1>1, <1>2 DEF Smaller
  <2> HIDE DEF y
  <2>5. d * w <= y * w
    <3> HIDE DEF d, w
    <3> QED
      BY <1>1, <2>4, Z3
  <2>6. BodyScore(page) <= BodyScore(page')
    <3>1. CASE w = 0
      BY <1>1, <1>3, <2>2, <3>1, BodyRange DEF BodyScore
    <3>2. CASE w # 0
      BY <1>1, <1>3, <2>2, <2>5, <3>2, ShareGrows
    <3> QED
      BY <3>1, <3>2
  <2> QED
    BY <1>5, <2>2, <2>3, <2>6
<1> QED
  BY <1>7, <1>8, <1>9 DEF EditBody, TooShort, TooLong

\* The points of a page for the tags of its headings and their number.
TagPart(p) ==
    (CASE Cardinality(AtLevel(p, "h1")) = 1 -> 10
       [] Cardinality(AtLevel(p, "h1")) > 1 -> 5
       [] OTHER -> 0)
    + (CASE Len(p.headings) >= 3 -> 10 [] Len(p.headings) \in 1 .. 2 -> 5 [] OTHER -> 0)
    + (CASE AtLevel(p, "h1") = {} -> 0 [] AtLevel(p, "h2") # {} -> 10 [] OTHER -> 5)

\* The points for n headings of w words together.
LengthPart(n, w) ==
    IF n = 0 THEN 0
    ELSE IF 5 * n <= w /\ w <= 10 * n THEN 10
    ELSE IF n <= w /\ w < 5 * n THEN 5 ELSE 0

LEMMA HeadingScoreIs ==
    ASSUME NEW p, IsPage(p)
    PROVE  /\ HeadingScore(p) = TagPart(p) + LengthPart(Len(p.headings), HeadingWords(p))
           /\ TagPart(p) \in Nat /\ LengthPart(Len(p.headings), HeadingWords(p)) \in Nat
<1>1. p.headings = <<>> <=> Len(p.headings) = 0
  BY DEF IsPage
<1>2. HeadingWords(p) \in Nat /\ Len(p.headings) \in Nat
  BY HeadingWordsAre
<1>3. (CASE AverageIn(p, 5, 10) \/ AverageIs(p, 10) -> 10 [] AverageIn(p, 1, 5) -> 5 [] OTHER -> 0)
      = LengthPart(Len(p.headings), HeadingWords(p))
  BY <1>1, <1>2 DEF AverageIn, AverageIs, LengthPart
<1>4. TagPart(p) \in Nat /\ LengthPart(Len(p.headings), HeadingWords(p)) \in Nat
  BY DEF TagPart, LengthPart
<1> QED
  BY <1>3, <1>4 DEF HeadingScore, TagPart

LEMMA PartsGrow ==
    ASSUME NEW p, IsPage(p), NEW q, IsPage(q), TagPart(p) <= TagPart(q),
           LengthPart(Len(p.headings), HeadingWords(p))
           <= LengthPart(Len(q.headings), HeadingWords(q))
    PROVE  HeadingScore(p) <= HeadingScore(q)
<1> DEFINE a == TagPart(p)
           b == LengthPart(Len(p.headings), HeadingWords(p))
           c == TagPart(q)
           d == LengthPart(Len(q.headings), HeadingWords(q))
<1>1. /\ HeadingScore(p) = a + b /\ HeadingScore(q) = c + d
      /\ a \in Nat /\ b \in Nat /\ c \in Nat /\ d \in Nat /\ a <= c /\ b <= d
  BY HeadingScoreIs, Zenon
<1> HIDE DEF a, b, c, d
<1> QED
  BY <1>1

(* A heading of 5 or 10 words is added.                                    *)
LEMMA AddHeadingPays ==
    ASSUME TypeOK, TypeOK', NEW tag \in {"h1", "h2", "h3"}, AddHeading(tag),
           tag = "h1" => NeedsH1
    PROVE  HeadingScore(page) <= HeadingScore(page')
<1> DEFINE H == page.headings
           G == page'.headings
           n == Len(H)
<1>1. PICK m \in {5, 10} : page' = [page EXCEPT !.headings = Append(@, Heading(tag, m))]
  BY DEF AddHeading
<1>2. page \in PageFields /\ IsPage(page) /\ IsPage(page')
  BY FieldsOf DEF TypeOK
<1>3. G = Append(H, Heading(tag, m))
  BY <1>1, <1>2 DEF PageFields
<1>4. n \in Nat /\ DOMAIN H = 1 .. n
  BY <1>2, HeadingWordsAre
<1>5. /\ Len(G) = n + 1 /\ DOMAIN G = 1 .. n + 1 /\ G[n + 1] = [tag |-> tag, words |-> m]
      /\ \A i \in 1 .. n : G[i] = H[i]
  <2>1. H \in Seq([tag: {"h1", "h2", "h3", "h4", "h5", "h6"}, words: Nat])
    BY <1>2 DEF IsPage
  <2> HIDE DEF H, G
  <2> QED
    BY <1>3, <2>1 DEF Heading, n
<1>6. HeadingWords(page') = HeadingWords(page) + m
  <2> DEFINE s == [i \in DOMAIN H |-> H[i].words]
             u == [i \in DOMAIN G |-> G[i].words]
  <2>1. /\ HeadingWords(page) = Total(s) /\ Len(s) = n
        /\ \A i \in 1 .. n : s[i] = H[i].words /\ s[i] \in Nat
    BY <1>2, HeadingWordsAre, Zenon
  <2>2. HeadingWords(page') = Total(u) /\ Len(u) = Len(G)
    BY <1>2, HeadingWordsAre, Zenon
  <2>3. u[n + 1] = m /\ \A i \in 1 .. n : u[i] = H[i].words
    BY <1>4, <1>5
  <2> HIDE DEF s, u, n, H, G
  <2>4. Len(u) = n + 1 /\ \A i \in 1 .. n : s[i] \in Int /\ u[i] = s[i]
    BY <1>5, <2>1, <2>2, <2>3
  <2>5. u[n + 1] \in Int
    BY <2>3
  <2>6. Total(u) = Total(s) + u[n + 1]
    BY <1>4, <2>1, <2>4, <2>5, TotalLonger, Zenon
  <2> QED
    BY <2>1, <2>2, <2>3, <2>6
<1>7. LengthPart(n, HeadingWords(page)) <= LengthPart(n + 1, HeadingWords(page'))
  <2> DEFINE w == HeadingWords(page)
  <2>1. w \in Nat /\ (m = 5 \/ m = 10)
    BY <1>2, HeadingWordsAre
  <2> HIDE DEF n, w
  <2>2. LengthPart(n, w) <= LengthPart(n + 1, w + m)
    BY <1>4, <2>1 DEF LengthPart
  <2> QED
    BY <1>6, <2>2 DEF w
<1>8. \A t : AtLevel(page', t) = AtLevel(page, t) \cup IF t = tag THEN {n + 1} ELSE {}
  <2> HIDE DEF H, G, n
  <2>1. \A t : /\ AtLevel(page', t) = {i \in DOMAIN G : G[i].tag = t}
               /\ AtLevel(page, t) = {i \in DOMAIN H : H[i].tag = t}
    BY DEF AtLevel, H, G
  <2>2. 1 .. n + 1 = (1 .. n) \cup {n + 1}
    BY <1>4
  <2> QED
    BY <1>4, <1>5, <2>1, <2>2
<1>9. TagPart(page) <= TagPart(page')
  <2>1. CASE tag = "h1"
    <3>1. AtLevel(page, "h1") = {} /\ AtLevel(page', "h1") = {n + 1}
      BY <1>8, <2>1 DEF NeedsH1
    <3>2. Cardinality(AtLevel(page, "h1")) = 0 /\ Cardinality(AtLevel(page', "h1")) = 1
      BY <3>1, FS_EmptySet, FS_Singleton
    <3> QED
      BY <1>4, <1>5, <3>1, <3>2 DEF TagPart
  <2>2. CASE tag # "h1"
    <3>1. AtLevel(page, "h1") = AtLevel(page', "h1")
          /\ AtLevel(page, "h2") \subseteq AtLevel(page', "h2")
      BY <1>8, <2>2
    <3> QED
      BY <1>4, <1>5, <3>1 DEF TagPart
  <2> QED
    BY <2>1, <2>2
<1> QED
  BY <1>2, <1>5, <1>7, <1>9, PartsGrow

(* One of several H1 becomes an H2.                                        *)
LEMMA RetagPays ==
    ASSUME TypeOK, TypeOK', Cardinality(AtLevel(page, "h1")) > 1,
           NEW i \in AtLevel(page, "h1"), page' = [page EXCEPT !.headings[i].tag = "h2"]
    PROVE  HeadingScore(page) <= HeadingScore(page')
<1> DEFINE H == page.headings
           G == page'.headings
           n == Len(H)
<1>1. page \in PageFields /\ IsPage(page) /\ IsPage(page')
  BY FieldsOf DEF TypeOK
<1>2. G = [H EXCEPT ![i] = [H[i] EXCEPT !.tag = "h2"]]
  BY <1>1 DEF PageFields
<1>3. n \in Nat /\ DOMAIN H = 1 .. n /\ i \in 1 .. n /\ H[i].tag = "h1"
  <2>1. n \in Nat /\ DOMAIN H = 1 .. n
    BY <1>1, HeadingWordsAre
  <2> QED
    BY <2>1 DEF AtLevel
<1>4. /\ Len(G) = n /\ DOMAIN G = 1 .. n
      /\ \A k \in 1 .. n : /\ G[k].words = H[k].words
                          /\ G[k].tag = IF k = i THEN "h2" ELSE H[k].tag
  <2> DEFINE R == [tag: {"h1", "h2", "h3", "h4", "h5", "h6"}, words: Nat]
  <2>1. H \in Seq(R)
    BY <1>1 DEF IsPage
  <2>2. \A v \in R : /\ [v EXCEPT !.tag = "h2"] \in R /\ [v EXCEPT !.tag = "h2"].tag = "h2"
                     /\ [v EXCEPT !.tag = "h2"].words = v.words
    OBVIOUS
  <2> HIDE DEF H, G, R
  <2>3. G \in Seq(R) /\ Len(G) = n /\ DOMAIN G = 1 .. n
    BY <1>2, <1>3, <2>1, <2>2 DEF n
  <2>4. \A k \in 1 .. n : G[k] = IF k = i THEN [H[i] EXCEPT !.tag = "h2"] ELSE H[k]
    BY <1>2, <1>3
  <2>5. H[i] \in R
    BY <1>3, <2>1
  <2> QED
    BY <2>2, <2>3, <2>4, <2>5
<1>5. HeadingWords(page') = HeadingWords(page)
  <2> HIDE DEF n, H, G
  <2>1. [k \in DOMAIN G |-> G[k].words] = [k \in DOMAIN H |-> H[k].words]
    BY <1>3, <1>4
  <2> QED
    BY <2>1 DEF HeadingWords, G, H
<1>6. /\ AtLevel(page', "h1") = AtLevel(page, "h1") \ {i}
      /\ i \in AtLevel(page', "h2")
  <2> HIDE DEF H, G, n
  <2>1. \A t : /\ AtLevel(page', t) = {k \in DOMAIN G : G[k].tag = t}
               /\ AtLevel(page, t) = {k \in DOMAIN H : H[k].tag = t}
    BY DEF AtLevel, H, G
  <2> QED
    BY <1>3, <1>4, <2>1
<1>7. /\ IsFiniteSet(AtLevel(page, "h1")) /\ Cardinality(AtLevel(page, "h1")) \in Nat
      /\ Cardinality(AtLevel(page', "h1")) = Cardinality(AtLevel(page, "h1")) - 1
  <2>1. IsFiniteSet(AtLevel(page, "h1")) /\ Cardinality(AtLevel(page, "h1")) \in Nat
    BY <1>1, AtLevelFinite
  <2> QED
    BY <1>6, <2>1, FS_RemoveElement
<1>8. AtLevel(page', "h1") # {}
  <2> SUFFICES ASSUME AtLevel(page', "h1") = {} PROVE FALSE
    OBVIOUS
  <2>1. Cardinality(AtLevel(page', "h1")) = 0
    BY FS_EmptySet
  <2> QED
    BY <1>7, <2>1
<1>9. TagPart(page) <= TagPart(page')
  <2> DEFINE c == Cardinality(AtLevel(page, "h1"))
  <2>1. /\ Len(page'.headings) = Len(page.headings) /\ Len(page.headings) \in Nat
        /\ AtLevel(page', "h2") # {} /\ AtLevel(page', "h1") # {}
        /\ c \in Nat /\ c > 1 /\ Cardinality(AtLevel(page', "h1")) = c - 1
    BY <1>3, <1>4, <1>6, <1>7, <1>8
  <2> DEFINE l == CASE Len(page.headings) >= 3 -> 10
                    [] Len(page.headings) \in 1 .. 2 -> 5 [] OTHER -> 0
  <2>2. l \in Nat
    OBVIOUS
  <2>3. TagPart(page) = 5 + l + (CASE AtLevel(page, "h1") = {} -> 0
                                   [] AtLevel(page, "h2") # {} -> 10 [] OTHER -> 5)
    BY <2>1 DEF TagPart
  <2> DEFINE f == CASE Cardinality(AtLevel(page', "h1")) = 1 -> 10
                    [] Cardinality(AtLevel(page', "h1")) > 1 -> 5 [] OTHER -> 0
  <2>4. TagPart(page') = f + l + 10
    BY <2>1 DEF TagPart
  <2>5. f \in {5, 10}
    <3> DEFINE x == Cardinality(AtLevel(page', "h1"))
    <3>1. x \in Nat /\ x >= 1
      BY <2>1
    <3> HIDE DEF x
    <3>2. (CASE x = 1 -> 10 [] x > 1 -> 5 [] OTHER -> 0) \in {5, 10}
      BY <3>1
    <3> QED
      BY <3>2 DEF x
  <2> HIDE DEF l, c, f
  <2> QED
    BY <2>1, <2>2, <2>3, <2>4, <2>5
<1>10. LengthPart(n, HeadingWords(page)) <= LengthPart(Len(G), HeadingWords(page'))
  BY <1>1, <1>4, <1>5, HeadingScoreIs
<1> QED
  BY <1>1, <1>9, <1>10, PartsGrow

(* A heading is lengthened or shortened by a word.                         *)
Reworded(i, e) == page' = [page EXCEPT !.headings[i].words = page.headings[i].words + e]

LEMMA RewordPays ==
    ASSUME TypeOK, TypeOK', NEW i \in DOMAIN page.headings, NEW e \in {-1, 1}, Reworded(i, e),
           IF e = 1 THEN HeadingWords(page) < 5 * Len(page.headings)
                    ELSE HeadingWords(page) > 10 * Len(page.headings)
    PROVE  HeadingScore(page) <= HeadingScore(page')
<1> DEFINE H == page.headings
           G == page'.headings
           n == Len(H)
<1>1. page \in PageFields /\ IsPage(page) /\ IsPage(page')
  BY FieldsOf DEF TypeOK
<1>2. G = [H EXCEPT ![i] = [H[i] EXCEPT !.words = H[i].words + e]]
  BY <1>1 DEF PageFields, Reworded
<1>3. n \in Nat /\ DOMAIN H = 1 .. n /\ i \in 1 .. n
  BY <1>1, HeadingWordsAre
<1>4. Len(G) = n /\ DOMAIN G = 1 .. n
      /\ \A k \in 1 .. n : /\ G[k].tag = H[k].tag
                          /\ G[k].words = IF k = i THEN H[i].words + e ELSE H[k].words
  <2> DEFINE R == [tag: {"h1", "h2", "h3", "h4", "h5", "h6"}, words: Nat]
             v == [H[i] EXCEPT !.words = H[i].words + e]
  <2>1. H \in Seq(R) /\ G \in Seq(R)
    BY <1>1 DEF IsPage
  <2>2. \A x \in R : [x EXCEPT !.words = x.words + e].tag = x.tag
                     /\ [x EXCEPT !.words = x.words + e].words = x.words + e
    OBVIOUS
  <2> HIDE DEF H, G, R
  <2>3. H[i] \in R
    BY <1>3, <2>1
  <2>4. v.tag = H[i].tag /\ v.words = H[i].words + e
    BY <2>2, <2>3
  <2> HIDE DEF v
  <2>5. G = [H EXCEPT ![i] = v]
    BY <1>2 DEF v
  <2>6. DOMAIN G = 1 .. n /\ \A k \in 1 .. n : G[k] = IF k = i THEN v ELSE H[k]
    BY <1>3, <2>5
  <2>7. Len(G) = n
    BY <1>3, <2>1, <2>6
  <2> QED
    BY <2>4, <2>6, <2>7
<1>5. HeadingWords(page') = HeadingWords(page) + e
  <2> DEFINE s == [k \in DOMAIN H |-> H[k].words]
             u == [k \in DOMAIN G |-> G[k].words]
  <2>1. /\ HeadingWords(page) = Total(s) /\ Len(s) = n
        /\ \A k \in 1 .. n : s[k] = H[k].words /\ s[k] \in Nat
    BY <1>1, HeadingWordsAre, Zenon
  <2>2. /\ HeadingWords(page') = Total(u) /\ Len(u) = Len(G)
        /\ \A k \in 1 .. Len(G) : u[k] = G[k].words /\ u[k] \in Nat
    BY <1>1, HeadingWordsAre, Zenon
  <2> HIDE DEF s, u, n, H, G
  <2>3. Len(u) = n /\ \A k \in 1 .. n : s[k] \in Int /\ u[k] \in Int
    BY <1>4, <2>1, <2>2
  <2>4. \A k \in 1 .. n : k # i => u[k] = s[k]
    BY <1>4, <2>1, <2>2
  <2>5. u[i] = s[i] + e /\ s[i] \in Int /\ e \in Int
    BY <1>3, <1>4, <2>1, <2>2
  <2>6. Total(u) = Total(s) + (u[i] - s[i])
    BY <1>3, <2>1, <2>3, <2>4, TotalChange
  <2>7. u[i] - s[i] = e
    BY <2>5
  <2> QED
    BY <2>1, <2>2, <2>6, <2>7
<1>6. AtLevel(page', "h1") = AtLevel(page, "h1") /\ AtLevel(page', "h2") = AtLevel(page, "h2")
  BY <1>3, <1>4 DEF AtLevel
<1>7. TagPart(page) <= TagPart(page')
  <2>1. Len(page'.headings) = Len(page.headings)
    BY <1>4
  <2>2. TagPart(page') = TagPart(page)
    BY <1>6, <2>1, Zenon DEF TagPart
  <2> QED
    BY <1>1, <2>2, HeadingScoreIs
<1>8. LengthPart(n, HeadingWords(page)) <= LengthPart(Len(G), HeadingWords(page'))
  <2> DEFINE w == HeadingWords(page)
  <2>1. w \in Nat /\ ((e = 1 /\ w < 5 * n) \/ (e = -1 /\ w > 10 * n))
    BY <1>1, HeadingWordsAre
  <2> HIDE DEF n, w
  <2>2. LengthPart(n, w) <= LengthPart(n, w + e)
    BY <1>3, <2>1 DEF LengthPart
  <2> QED
    BY <1>4, <1>5, <2>2 DEF w
<1> QED
  BY <1>1, <1>7, <1>8, PartsGrow

LEMMA HeadingsPay ==
    ASSUME TypeOK, EditHeadings
    PROVE  Grows(page, page')
<1>1. page \in PageFields /\ IsPage(page) /\ TypeOK'
  BY FieldsOf, HeadingsTypes DEF TypeOK
<1>2. OnlyIn(page, page', {"headings"})
  <2>1. PICK h \in HeadingLists : HeadingsOf(h)
    BY HeadingsIs
  <2> QED
    BY <1>1, <2>1 DEF HeadingsOf, PageFields, OnlyIn, Fields
<1>3. HeadingScore(page) <= HeadingScore(page')
  <2>1. CASE NeedsH1 /\ AddHeading("h1")
    BY <1>1, <2>1, AddHeadingPays
  <2>2. CASE AddHeading("h2") \/ AddHeading("h3")
    BY <1>1, <2>2, AddHeadingPays
  <2>3. CASE /\ Cardinality(AtLevel(page, "h1")) > 1
             /\ \E i \in AtLevel(page, "h1") : page' = [page EXCEPT !.headings[i].tag = "h2"]
    BY <1>1, <2>3, RetagPays
  <2>4. CASE /\ page.headings # <<>> /\ AverageIn(page, 0, 5)
             /\ \E i \in DOMAIN page.headings :
                   page' = [page EXCEPT !.headings[i].words = @ + 1]
    <3>1. PICK i \in DOMAIN page.headings : page' = [page EXCEPT !.headings[i].words = @ + 1]
      BY <2>4
    <3>2. Reworded(i, 1)
      BY <3>1 DEF Reworded
    <3>3. HeadingWords(page) < 5 * Len(page.headings) /\ 1 \in {-1, 1} /\ 1 = 1
      BY <2>4 DEF AverageIn
    <3> QED
      BY <1>1, <3>2, <3>3, RewordPays
  <2>5. CASE /\ ~AverageIn(page, 0, 10) /\ ~AverageIs(page, 10)
             /\ \E i \in DOMAIN page.headings : /\ page.headings[i].words > 0
                      /\ page' = [page EXCEPT !.headings[i].words = @ - 1]
    <3>1. PICK i \in DOMAIN page.headings : page' = [page EXCEPT !.headings[i].words = @ - 1]
      BY <2>5
    <3>2. Reworded(i, -1)
      <4>1. page.headings[i].words - 1 = page.headings[i].words + (-1)
        BY <1>1, HeadingWordsAre
      <4> QED
        BY <3>1, <4>1 DEF Reworded
    <3>3. HeadingWords(page) > 10 * Len(page.headings) /\ -1 \in {-1, 1} /\ -1 # 1
      <4>1. page.headings # <<>>
        BY <3>1
      <4>2. HeadingWords(page) \in Nat /\ Len(page.headings) \in Nat
        BY <1>1, HeadingWordsAre
      <4>3. ~(0 * Len(page.headings) <= HeadingWords(page)
              /\ HeadingWords(page) < 10 * Len(page.headings))
            /\ HeadingWords(page) # 10 * Len(page.headings)
        BY <2>5, <4>1 DEF AverageIn, AverageIs
      <4> QED
        BY <4>2, <4>3
    <3> QED
      BY <1>1, <3>2, <3>3, RewordPays
  <2> QED
    BY <2>1, <2>2, <2>3, <2>4, <2>5 DEF EditHeadings
<1> QED
  BY <1>1, <1>2, <1>3, OtherGrows DEF Grows

LEMMA SchemaPays ==
    ASSUME TypeOK, EditSchema
    PROVE  Grows(page, page')
<1>1. page \in PageFields /\ IsPage(page) /\ page.types \subseteq DOMAIN TypePoints /\ IsPage(page')
  BY FieldsOf, StructureTypes DEF TypeOK
<1>2. CASE page' = [page EXCEPT !.schema = TRUE]
  <2>1. page'.schema = TRUE /\ OnlyIn(page, page', {"schema"})
    BY <1>1, <1>2 DEF PageFields, OnlyIn, Fields
  <2> QED
    BY <1>1, <2>1, OtherGrows DEF Grows
<1>3. CASE \E t \in DOMAIN TypePoints \ page.types :
              page' = [page EXCEPT !.schema = TRUE, !.types = @ \cup {t}]
  <2>1. page'.schema = TRUE /\ page.types \subseteq page'.types
        /\ OnlyIn(page, page', {"schema", "types"})
    BY <1>1, <1>3 DEF PageFields, OnlyIn, Fields
  <2>2. ASSUME NEW n \in Nat PROVE Worth(page, n) <= Worth(page', n)
    <3> DEFINE A == {t \in page.types : TypePoints[t] = n}
               B == {t \in page'.types : TypePoints[t] = n}
    <3>1. IsFiniteSet(page'.types) /\ A \subseteq B /\ B \subseteq page'.types
      BY <1>1, <2>1, TypesRange
    <3>2. IsFiniteSet(A) /\ IsFiniteSet(B) /\ Cardinality(A) <= Cardinality(B)
      <4> HIDE DEF A, B
      <4> QED
        BY <3>1, FS_Subset
    <3>3. Cardinality(A) \in Nat /\ Cardinality(B) \in Nat
      BY <3>2, FS_CardinalityType
    <3>4. Worth(page, n) = n * Cardinality(A) /\ Worth(page', n) = n * Cardinality(B)
      BY DEF Worth
    <3> DEFINE a == Cardinality(A)
               b == Cardinality(B)
    <3> HIDE DEF a, b
    <3>5. a \in Nat /\ b \in Nat /\ a <= b
      BY <3>2, <3>3 DEF a, b
    <3>6. n * a <= n * b
      BY <3>5, Z3
    <3> QED
      BY <3>4, <3>6 DEF a, b
  <2>3. TypesScore(page) <= TypesScore(page')
    <3>1. /\ Worth(page, 3) <= Worth(page', 3) /\ Worth(page, 4) <= Worth(page', 4)
          /\ Worth(page, 5) <= Worth(page', 5)
      BY <2>2
    <3>2. \A p \in {page, page'} : Worth(p, 3) \in Nat /\ Worth(p, 4) \in Nat /\ Worth(p, 5) \in Nat
      BY <1>1, TypesRange
    <3> QED
      BY <3>1, <3>2 DEF TypesScore, Smaller
  <2> QED
    BY <1>1, <2>1, <2>3, OtherGrows DEF Grows
<1> QED
  BY <1>2, <1>3 DEF EditSchema

\* The points for a words in the answers of f items.
AnswerPart(f, a) ==
    CASE a < 10 * f -> 0 [] a > 50 * f -> 10 [] OTHER -> Round(20 * a, 50 * f)

(* An average that grows inside its window does not lose points; nor does   *)
(* one that stays over it.                                                  *)
LEMMA AnswersGrow ==
    ASSUME NEW f \in Nat \ {0}, NEW a \in Nat, NEW g \in Nat \ {0}, NEW b \in Nat,
           \/ a < 10 * f
           \/ a > 50 * f /\ b > 50 * g
           \/ a \in 10 * f .. 50 * f /\ b \in 10 * g .. 50 * g /\ a * g <= b * f
    PROVE  AnswerPart(f, a) <= AnswerPart(g, b)
<1>1. ASSUME NEW h \in Nat \ {0}, NEW c \in Nat, c \in 10 * h .. 50 * h
      PROVE  Round(20 * c, 50 * h) \in 0 .. 20
  <2>1. /\ 50 * h \in Nat \ {0} /\ 20 * c \in Int
        /\ (50 * h) * 0 <= 20 * c /\ 20 * c <= (50 * h) * 20
        /\ 0 \in Int /\ 20 \in Int
    BY <1>1
  <2>2. RoundsTo(20 * c, 50 * h, 0, 20)
    BY <2>1, RoundBetween, Zenon
  <2> QED
    BY <2>2 DEF RoundsTo
<1>2. CASE a < 10 * f
  <2>1. AnswerPart(f, a) = 0
    BY <1>2 DEF AnswerPart
  <2>2. AnswerPart(g, b) \in 0 .. 20
    BY <1>1 DEF AnswerPart
  <2> QED
    BY <2>1, <2>2
<1>3. CASE a > 50 * f /\ b > 50 * g
  BY <1>3 DEF AnswerPart
<1>4. CASE a \in 10 * f .. 50 * f /\ b \in 10 * g .. 50 * g /\ a * g <= b * f
  <2>1. /\ 20 * a \in Int /\ 50 * f \in Nat \ {0} /\ 20 * b \in Int /\ 50 * g \in Nat \ {0}
    OBVIOUS
  <2>2. (20 * a) * (50 * g) <= (20 * b) * (50 * f)
    <3>1. /\ (20 * a) * (50 * g) = 1000 * (a * g) /\ (20 * b) * (50 * f) = 1000 * (b * f)
          /\ a * g \in Int /\ b * f \in Int
      BY Z3
    <3> QED
      BY <1>4, <3>1
  <2>3. Round(20 * a, 50 * f) <= Round(20 * b, 50 * g)
    BY <2>1, <2>2, RoundMonotone, Zenon
  <2> QED
    BY <1>4, <2>3 DEF AnswerPart
<1> QED
  BY <1>2, <1>3, <1>4

(* An item more, with an answer of the average length rounded up, or one     *)
(* less, with one of that length rounded down.                               *)
LEMMA ItemAdded ==
    ASSUME NEW f \in Nat \ {0}, NEW a \in Nat
    PROVE  AnswerPart(f, a) <= AnswerPart(f + 1, a + ((a + f - 1) \div f))
<1> DEFINE n == a + f - 1
           q == n \div f
           b == a + q
           g == f + 1
<1>1. n \in Int /\ n \in Nat
  OBVIOUS
<1>2. q \in Nat /\ f * q <= n /\ n < f * q + f
  <2> HIDE DEF n
  <2> QED
    BY <1>1, QuotientIs
<1>3. f * q \in Int /\ f * q >= a /\ f * q <= a + f - 1
  BY <1>2
<1>4. b \in Nat /\ g \in Nat \ {0} /\ b * f = a * f + f * q /\ a * g = a * f + a /\ a * f \in Int
  <2> HIDE DEF q
  <2> QED
    BY <1>2, Z3
<1>5. b * f \in Int /\ a * g \in Int /\ a * g <= b * f
  <2> HIDE DEF q, b, g
  <2> QED
    BY <1>3, <1>4
<1>6. a > 50 * f => b > 50 * g
  <2> SUFFICES ASSUME a > 50 * f, q <= 50 PROVE FALSE
    <3> HIDE DEF q
    <3> QED
      BY <1>2
  <2>1. f * q <= f * 50
    <3> HIDE DEF q
    <3> QED
      BY <1>2, Z3
  <2> HIDE DEF q
  <2> QED
    BY <1>3, <2>1
<1>7. a \in 10 * f .. 50 * f => b \in 10 * g .. 50 * g
  <2> SUFFICES ASSUME a \in 10 * f .. 50 * f PROVE b \in 10 * g .. 50 * g
    OBVIOUS
  <2> HIDE DEF q
  <2>1. q >= 10
    <3> SUFFICES ASSUME q <= 9 PROVE FALSE
      BY <1>2
    <3>1. f * q <= f * 9
      BY <1>2, Z3
    <3> QED
      BY <1>3, <3>1
  <2>2. q <= 50
    <3> SUFFICES ASSUME q >= 51 PROVE FALSE
      BY <1>2
    <3>1. f * q >= f * 51
      BY <1>2, Z3
    <3> QED
      BY <1>3, <3>1
  <2> QED
    BY <1>2, <2>1, <2>2
<1> HIDE DEF b, g
<1>8. AnswerPart(f, a) <= AnswerPart(g, b)
  BY <1>4, <1>5, <1>6, <1>7, AnswersGrow
<1> QED
  BY <1>8 DEF b, g

LEMMA ItemDropped ==
    ASSUME NEW f \in Nat, f > 1, NEW a \in Nat
    PROVE  AnswerPart(f, a) <= AnswerPart(f - 1, a - (a \div f))
<1> DEFINE q == a \div f
           b == a - q
           g == f - 1
<1>1. q \in 0 .. a /\ f * q <= a /\ a < f * q + f /\ f \in Nat \ {0} /\ f * q \in Int
  BY QuotientIs
<1>2. b \in Nat /\ g \in Nat \ {0}
  <2> HIDE DEF q
  <2> QED
    BY <1>1
<1>3. b * f = a * f - f * q /\ a * g = a * f - a /\ a * f \in Int
  <2> HIDE DEF q
  <2> QED
    BY <1>1, Z3
<1>4. b * f \in Int /\ a * g \in Int /\ a * g <= b * f
  <2> HIDE DEF q, b, g
  <2> QED
    BY <1>1, <1>3
<1>5. a > 50 * f => b > 50 * g
  <2> SUFFICES ASSUME a > 50 * f, b <= 50 * g PROVE FALSE
    BY <1>2
  <2> HIDE DEF q, b
  <2>1. b * f <= (50 * g) * f
    BY <1>2, Z3
  <2>2. (50 * g) * f = (50 * f) * g /\ (50 * f) * g < a * g /\ (50 * f) * g \in Int
    <3>1. (50 * g) * f = (50 * f) * g /\ 50 * f \in Int
      BY <1>2, Z3
    <3>2. (50 * f) * g < a * g
      <4> DEFINE c == 50 * f
      <4>1. c \in Int /\ c < a
        OBVIOUS
      <4> HIDE DEF c, g
      <4>2. c * g < a * g
        BY <1>2, <4>1, Z3
      <4> QED
        BY <4>2 DEF c
    <3> QED
      BY <3>1, <3>2, <1>2
  <2> HIDE DEF g
  <2> QED
    BY <1>4, <2>1, <2>2
<1>6. a \in 10 * f .. 50 * f => b \in 10 * g .. 50 * g
  <2> SUFFICES ASSUME a \in 10 * f .. 50 * f PROVE b \in 10 * g .. 50 * g
    OBVIOUS
  <2> HIDE DEF q
  <2>1. b >= 10 * g
    <3> SUFFICES ASSUME b < 10 * g PROVE FALSE
      BY <1>2
    <3> HIDE DEF b
    <3>1. b * f < (10 * g) * f
      BY <1>1, <1>2, Z3
    <3>2. (10 * g) * f = (10 * f) * g /\ (10 * f) * g <= a * g /\ (10 * f) * g \in Int
      <4>1. (10 * g) * f = (10 * f) * g
        BY <1>2, Z3
      <4>2. (10 * f) * g <= a * g
        <5> DEFINE c == 10 * f
        <5>1. c \in Int /\ c <= a
          OBVIOUS
        <5> HIDE DEF c, g
        <5>2. c * g <= a * g
          BY <1>2, <5>1, Z3
        <5> QED
          BY <5>2 DEF c
      <4> QED
        BY <4>1, <4>2, <1>2
    <3> HIDE DEF g
    <3> QED
      BY <1>4, <3>1, <3>2
  <2>2. b <= 50 * g
    <3>1. CASE q >= 50
      BY <1>1, <3>1
    <3>2. CASE q <= 49
      <4>1. a <= f * q + f - 1
        BY <1>1
      <4>2. f * q + f - 1 - q = g * (q + 1)
        BY <1>1, Z3
      <4>3. g * (q + 1) <= g * 50
        BY <1>1, <1>2, <3>2, Z3
      <4> QED
        BY <1>1, <1>2, <4>1, <4>2, <4>3
    <3> QED
      BY <1>1, <3>1, <3>2
  <2> QED
    BY <1>2, <2>1, <2>2
<1> HIDE DEF b, g
<1>7. AnswerPart(f, a) <= AnswerPart(g, b)
  BY <1>1, <1>2, <1>4, <1>5, <1>6, AnswersGrow
<1> QED
  BY <1>7 DEF b, g

LEMMA FaqScoreIs ==
    ASSUME NEW p, IsPage(p), p.faqs # 0
    PROVE  /\ FaqScore(p) = 10 + InWindow(p.faqs, 5, 10, 20, 7) + AnswerPart(p.faqs, p.answers)
           /\ InWindow(p.faqs, 5, 10, 20, 7) \in Int /\ AnswerPart(p.faqs, p.answers) \in Int
<1>1. p.faqs \in Nat /\ p.answers \in Nat
  BY DEF IsPage
<1>2. 5 \in Nat \ {0} /\ 10 \in Nat /\ 20 \in Nat /\ 7 \in 0 .. 20
  OBVIOUS
<1>3. InWindow(p.faqs, 5, 10, 20, 7) \in 0 .. 20
  BY <1>1, <1>2, WindowRange, Zenon
<1>4. AnswerPart(p.faqs, p.answers) \in Int
  <2>1. 20 * p.answers \in Int /\ 50 * p.faqs \in Nat \ {0}
    BY <1>1
  <2>2. Round(20 * p.answers, 50 * p.faqs) \in Int
    BY <2>1, RoundIs, Zenon
  <2> QED
    BY <2>2 DEF AnswerPart
<1>5. FaqScore(p) = 10 + InWindow(p.faqs, 5, 10, 20, 7) + AnswerPart(p.faqs, p.answers)
  BY Zenon DEF FaqScore, AnswerPart
<1> QED
  BY <1>3, <1>4, <1>5

LEMMA FaqGrows ==
    ASSUME NEW p, IsPage(p), NEW q, IsPage(q), p.faqs # 0, q.faqs # 0,
           \/ p.faqs = q.faqs
           \/ p.faqs < 5 /\ p.faqs <= q.faqs /\ q.faqs <= 10
           \/ p.faqs > 10 /\ 5 <= q.faqs /\ q.faqs <= p.faqs
           \/ p.faqs = 5 /\ q.faqs = 6,
           AnswerPart(p.faqs, p.answers) <= AnswerPart(q.faqs, q.answers)
    PROVE  FaqScore(p) <= FaqScore(q)
<1> DEFINE x == InWindow(p.faqs, 5, 10, 20, 7)
           y == InWindow(q.faqs, 5, 10, 20, 7)
           a == AnswerPart(p.faqs, p.answers)
           b == AnswerPart(q.faqs, q.answers)
<1>1. /\ FaqScore(p) = 10 + x + a /\ x \in Int /\ a \in Int
      /\ FaqScore(q) = 10 + y + b /\ y \in Int /\ b \in Int
  BY FaqScoreIs, Zenon
<1>2. p.faqs \in Nat /\ q.faqs \in Nat
  BY DEF IsPage
<1>3. x <= y
  <2>1. CASE p.faqs = q.faqs
    BY <1>1, <2>1
  <2>2. CASE p.faqs = 5 /\ q.faqs = 6
    BY <2>2 DEF InWindow
  <2>3. CASE \/ p.faqs < 5 /\ p.faqs <= q.faqs /\ q.faqs <= 10
             \/ p.faqs > 10 /\ 5 <= q.faqs /\ q.faqs <= p.faqs
    <3>1. 5 \in Nat \ {0} /\ 10 \in Nat /\ 20 \in Nat /\ 7 \in 0 .. 20 /\ 5 <= 10
      OBVIOUS
    <3> QED
      BY <1>2, <2>3, <3>1, WindowToward, Zenon
  <2> QED
    BY <2>1, <2>2, <2>3
<1> HIDE DEF x, y, a, b
<1>4. a <= b
  BY DEF a, b
<1> QED
  BY <1>1, <1>3, <1>4

LEMMA FaqsPay ==
    ASSUME TypeOK, EditFaqs
    PROVE  Grows(page, page')
<1>1. /\ page \in PageFields /\ IsPage(page) /\ IsPage(page')
      /\ page.faqs \in Nat /\ page.answers \in Nat
  BY FieldsOf, StructureTypes DEF TypeOK
<1>2. ASSUME FaqScore(page) <= FaqScore(page'), OnlyIn(page, page', {"faqs", "answers"})
      PROVE  Grows(page, page')
  BY <1>1, <1>2, OtherGrows DEF Grows
<1>3. CASE /\ page.faqs = 0
           /\ page' = [page EXCEPT !.schema = TRUE, !.faqs = 1, !.answers = 10]
  <2>1. page'.schema = TRUE /\ OnlyIn(page, page', {"schema", "faqs", "answers"})
    BY <1>1, <1>3 DEF PageFields, OnlyIn, Fields
  <2>2. FaqScore(page) = 0
    BY <1>3 DEF FaqScore
  <2>3. FaqScore(page) <= FaqScore(page')
    BY <1>1, <2>2, FaqRange
  <2> QED
    BY <1>1, <2>1, <2>3, OtherGrows DEF Grows
<1>4. CASE /\ page.faqs \in 1 .. 5
           /\ page' = [page EXCEPT !.faqs = @ + 1,
                                   !.answers = @ + (@ + page.faqs - 1) \div page.faqs]
  <2>1. /\ page'.faqs = page.faqs + 1
        /\ page'.answers = page.answers + ((page.answers + page.faqs - 1) \div page.faqs)
        /\ OnlyIn(page, page', {"faqs", "answers"})
    BY <1>1, <1>4 DEF PageFields, OnlyIn, Fields
  <2>2. AnswerPart(page.faqs, page.answers) <= AnswerPart(page'.faqs, page'.answers)
    <3>1. page.faqs \in Nat \ {0}
      BY <1>4
    <3> QED
      BY <1>1, <2>1, <3>1, ItemAdded, Zenon
  <2>3. /\ page.faqs # 0 /\ page'.faqs # 0
        /\ \/ page.faqs < 5 /\ page.faqs <= page'.faqs /\ page'.faqs <= 10
           \/ page.faqs = 5 /\ page'.faqs = 6
    BY <1>1, <1>4, <2>1
  <2>4. FaqScore(page) <= FaqScore(page')
    BY <1>1, <2>2, <2>3, FaqGrows
  <2> QED
    BY <1>2, <2>1, <2>4
<1>5. CASE /\ page.faqs > 10
           /\ page' = [page EXCEPT !.faqs = @ - 1, !.answers = @ - (@ \div page.faqs)]
  <2>1. /\ page'.faqs = page.faqs - 1
        /\ page'.answers = page.answers - (page.answers \div page.faqs)
        /\ OnlyIn(page, page', {"faqs", "answers"})
    BY <1>1, <1>5 DEF PageFields, OnlyIn, Fields
  <2>2. AnswerPart(page.faqs, page.answers) <= AnswerPart(page'.faqs, page'.answers)
    <3>1. page.faqs > 1
      BY <1>1, <1>5
    <3> QED
      BY <1>1, <2>1, <3>1, ItemDropped, Zenon
  <2>3. /\ page.faqs # 0 /\ page'.faqs # 0
        /\ page.faqs > 10 /\ 5 <= page'.faqs /\ page'.faqs <= page.faqs
    BY <1>1, <1>5, <2>1
  <2>4. FaqScore(page) <= FaqScore(page')
    BY <1>1, <2>2, <2>3, FaqGrows
  <2> QED
    BY <1>2, <2>1, <2>4
<1>6. CASE page.answers < 10 * page.faqs /\ page' = [page EXCEPT !.answers = @ + page.faqs]
  <2>1. /\ page'.faqs = page.faqs /\ page'.answers = page.answers + page.faqs
        /\ OnlyIn(page, page', {"faqs", "answers"})
    BY <1>1, <1>6 DEF PageFields, OnlyIn, Fields
  <2>2. page.faqs \in Nat \ {0} /\ page'.answers \in Nat
    BY <1>1, <1>6, <2>1
  <2>3. AnswerPart(page.faqs, page.answers) <= AnswerPart(page'.faqs, page'.answers)
    BY <1>1, <1>6, <2>1, <2>2, AnswersGrow
  <2>4. FaqScore(page) <= FaqScore(page')
    BY <1>1, <2>1, <2>2, <2>3, FaqGrows
  <2> QED
    BY <1>2, <2>1, <2>4
<1> QED
  BY <1>3, <1>4, <1>5, <1>6 DEF EditFaqs

(* Long answers earn 10 points; from 24 words on shorter ones earn as many. *)
LEMMA AnswersPay ==
    ASSUME TypeOK, EditAnswers, page'.answers >= 24 * page'.faqs
    PROVE  Grows(page, page')
<1>1. /\ page \in PageFields /\ IsPage(page) /\ IsPage(page')
      /\ page.faqs \in Nat /\ page.answers \in Nat /\ page.answers > 50 * page.faqs
  BY FieldsOf, StructureTypes DEF TypeOK, EditAnswers
<1>2. PICK average \in 10 .. 50 : page' = [page EXCEPT !.answers = average * page.faqs]
  BY DEF EditAnswers
<1> DEFINE f == page.faqs
           b == average * f
<1>3. page'.faqs = f /\ page'.answers = b /\ OnlyIn(page, page', {"answers"})
  BY <1>1, <1>2 DEF PageFields, OnlyIn, Fields
<1>4. CASE f = 0
  <2>1. FaqScore(page) = 0 /\ FaqScore(page') = 0
    BY <1>3, <1>4 DEF FaqScore
  <2> QED
    BY <1>1, <1>3, <2>1, OtherGrows DEF Grows
<1>5. CASE f # 0
  <2>1. f \in Nat \ {0} /\ b \in Nat /\ 24 * f <= b /\ b <= 50 * f
    BY <1>1, <1>3, <1>5
  <2>2. AnswerPart(page.faqs, page.answers) = 10
    BY <1>1, <2>1 DEF AnswerPart
  <2> HIDE DEF f, b
  <2>3. AnswerPart(f, b) = Round(20 * b, 50 * f)
    BY <2>1 DEF AnswerPart
  <2>4. Round(480, 50) = 10
    BY DEF Round
  <2>5. 480 * (50 * f) <= (20 * b) * 50
    BY <2>1
  <2>6. Round(480, 50) <= Round(20 * b, 50 * f)
    <3>1. 20 * b \in Int /\ 50 * f \in Nat \ {0}
      BY <2>1
    <3> QED
      BY <2>5, <3>1, RoundMonotone
  <2>7. AnswerPart(page.faqs, page.answers) <= AnswerPart(page'.faqs, page'.answers)
    BY <1>3, <2>2, <2>3, <2>4, <2>6
  <2>8. FaqScore(page) <= FaqScore(page')
    BY <1>1, <1>3, <2>1, <2>7, FaqGrows DEF f
  <2> QED
    BY <1>1, <1>3, <2>8, OtherGrows DEF Grows
<1> QED
  BY <1>4, <1>5

LEMMA LinksPay ==
    ASSUME TypeOK, EditLinks
    PROVE  Grows(page, page')
<1>1. page \in PageFields /\ IsPage(page) /\ page.links \in Nat
  BY FieldsOf DEF TypeOK
<1>2. PICK v \in Nat : /\ page' = [page EXCEPT !.links = v]
                      /\ \/ page.links <= 5 /\ v = page.links + 1
                         \/ page.links > 20 /\ v = page.links - 1
  <2>1. CASE page.links <= 5 /\ page' = [page EXCEPT !.links = page.links + 1]
    <3>1. page.links + 1 \in Nat
      BY <1>1
    <3> QED
      BY <2>1, <3>1, Zenon
  <2>2. CASE page.links > 20 /\ page' = [page EXCEPT !.links = page.links - 1]
    <3>1. page.links - 1 \in Nat
      BY <1>1, <2>2
    <3> QED
      BY <2>2, <3>1, Zenon
  <2> QED
    BY <2>1, <2>2 DEF EditLinks
<1>3. page'.links = v /\ OnlyIn(page, page', {"links"})
  BY <1>1, <1>2 DEF PageFields, OnlyIn, Fields
<1>4. Round(600, 20) = 30 /\ Round(2000, 20) = 100
  BY DEF Round
<1>5. LinkScore(page) <= LinkScore(page')
  <2>1. CASE page.links <= 5
    <3>1. LinkScore(page) <= 30
      BY <1>1, <2>1 DEF LinkScore
    <3>2. LinkScore(page') = 30
      <4>1. CASE v <= 5
        BY <1>1, <1>2, <1>3, <2>1, <4>1 DEF LinkScore
      <4>2. CASE v = 6
        BY <1>3, <1>4, <4>2 DEF LinkScore
      <4> QED
        BY <1>1, <1>2, <2>1, <4>1, <4>2
    <3>3. LinkScore(page) \in Int
      BY <1>1, LinkRange
    <3> QED
      BY <3>1, <3>2, <3>3
  <2>2. CASE page.links > 20
    <3>1. LinkScore(page) = Larger(100 - 2 * (page.links - 20), 50)
      BY <1>1, <2>2 DEF LinkScore
    <3>2. CASE v = 20
      <4>1. LinkScore(page') = 100
        BY <1>3, <1>4, <3>2 DEF LinkScore
      <4> QED
        BY <1>1, <2>2, <3>1, <4>1 DEF Larger
    <3>3. CASE v > 20
      <4>1. LinkScore(page') = Larger(100 - 2 * (v - 20), 50)
        BY <1>2, <1>3, <3>3 DEF LinkScore
      <4> QED
        BY <1>1, <1>2, <2>2, <3>1, <4>1 DEF Larger
    <3> QED
      BY <1>1, <1>2, <2>2, <3>2, <3>3
  <2> QED
    BY <1>2, <2>1, <2>2
<1> QED
  BY <1>1, <1>3, <1>5, OtherGrows DEF Grows

LEMMA ImagesPay ==
    ASSUME TypeOK, EditImages
    PROVE  Grows(page, page')
<1>1. page \in PageFields /\ IsPage(page) /\ page.images \in Nat /\ page.images > 0
  BY FieldsOf DEF TypeOK, EditImages
<1>2. page'.images = page.images - 1 /\ OnlyIn(page, page', {"images"})
  BY <1>1 DEF EditImages, PageFields, OnlyIn, Fields
<1>3. ImageScore(page) <= ImageScore(page')
  <2> DEFINE n == page.images
  <2>1. n \in Nat /\ n > 0
    BY <1>1
  <2>2. CASE n <= 10
    <3> DEFINE a == 100 * 10 - 50 * n
               b == 100 * 10 - 50 * (n - 1)
    <3>1. ImageScore(page) = Round(a, 10) /\ ImageScore(page') = Round(b, 10)
      BY <1>2, <2>1, <2>2 DEF ImageScore
    <3>2. a \in Int /\ b \in Int /\ a * 10 <= b * 10 /\ 10 \in Nat \ {0}
      BY <2>1
    <3> HIDE DEF a, b
    <3> QED
      BY <3>1, <3>2, RoundMonotone, Zenon
  <2>3. CASE n = 11
    <3>1. ImageScore(page) = Round(450, 10) /\ ImageScore(page') = Round(500, 10)
      BY <1>2, <2>3 DEF ImageScore
    <3> QED
      BY <3>1 DEF Round
  <2>4. CASE n \in 12 .. 20
    <3> DEFINE a == 50 * 10 - 50 * (n - 10)
               b == 50 * 10 - 50 * ((n - 1) - 10)
    <3>1. ImageScore(page) = Round(a, 10) /\ ImageScore(page') = Round(b, 10)
      BY <1>2, <2>1, <2>4 DEF ImageScore
    <3>2. a \in Int /\ b \in Int /\ a * 10 <= b * 10 /\ 10 \in Nat \ {0}
      BY <2>1
    <3> HIDE DEF a, b
    <3> QED
      BY <3>1, <3>2, RoundMonotone, Zenon
  <2>5. CASE n > 20
    <3>1. ImageScore(page) = 0 /\ (n = 21 \/ ImageScore(page') = 0)
      BY <1>2, <2>1, <2>5 DEF ImageScore
    <3>2. n = 21 => ImageScore(page') = Round(0, 10)
      BY <1>2 DEF ImageScore
    <3> QED
      BY <3>1, <3>2 DEF Round
  <2> QED
    BY <2>1, <2>2, <2>3, <2>4, <2>5
<1> QED
  BY <1>1, <1>2, <1>3, OtherGrows DEF Grows

-----------------------------------------------------------------------------
(* The recommendations of a page.                                          *)

LEMMA UnadvisedScores ==
    ASSUME NEW p, IsPage(p), Unadvised(p)
    PROVE  /\ StructuredScore(p) >= 65 /\ MetadataScore(p) >= 93 /\ ContentScore(p) >= 100
           /\ LinkScore(p) >= 30 /\ ImageScore(p) >= 100
<1>1. /\ p.title \in 5 .. 15 /\ p.description \in 15 .. 20 /\ p.canonical /\ p.schema
      /\ p.faqs \in 6 .. 10 /\ p.answers \in 10 * p.faqs .. 50 * p.faqs
      /\ p.links \in 6 .. 20 /\ p.images = 0
  BY DEF Unadvised
<1>2. p.answers \in Nat
  BY FieldsAre
<1>3. RobotsScore(p) \in Int /\ RobotsScore(p) > 12
  <2>1. RobotsScore(p) > 12
    BY Zenon DEF Unadvised
  <2> QED
    BY <2>1, RobotsRange
<1>4. MetadataScore(p) >= 93
  BY <1>1, <1>3 DEF MetadataScore, TitleScore, DescriptionScore, CanonicalScore, InWindow
<1>5. TypesScore(p) \in Int /\ TypesScore(p) > 10
  <2>1. TypesScore(p) > 10
    BY Zenon DEF Unadvised
  <2> QED
    BY <2>1, TypesRange
<1>6. Round(20 * p.answers, 50 * p.faqs) >= 4
  <2> DEFINE n == 20 * p.answers
             d == 50 * p.faqs
  <2>1. d * 4 <= n /\ n <= d * 20 /\ n \in Int /\ d \in Nat \ {0} /\ 4 \in Int /\ 20 \in Int
    BY <1>1, <1>2
  <2> HIDE DEF n, d
  <2>2. RoundsTo(n, d, 4, 20)
    BY <2>1, RoundBetween, Zenon
  <2>3. Round(n, d) >= 4
    BY <2>2 DEF RoundsTo
  <2> QED
    BY <2>3 DEF n, d
<1>7. Round(20 * p.answers, 50 * p.faqs) \in Int
  <2>1. 20 * p.answers \in Int /\ 50 * p.faqs \in Nat \ {0}
    BY <1>1, <1>2
  <2> QED
    BY <2>1, RoundIs, Zenon
<1>8. FaqScore(p) >= 34
  BY <1>1, <1>6, <1>7, <1>2 DEF FaqScore, InWindow
<1>9. StructuredScore(p) >= 65
  <2>1. FaqScore(p) \in Int
    BY FaqRange
  <2> QED
    BY <1>1, <1>5, <1>8, <2>1 DEF StructuredScore
<1>10. ContentScore(p) >= 100
  <2>1. p.words \in 800 .. 2500
    BY DEF Unadvised
  <2>2. 10 * p.distinct > 7 * p.words
    BY DEF Unadvised
  <2>3. WordScore(p) = 20
    <3> DEFINE n == p.words
    <3>1. n \in 800 .. 2500
      BY <2>1
    <3>2. WordScore(p) = InWindow(n, 800, 2500, 20, 7)
      BY DEF WordScore
    <3> HIDE DEF n
    <3> QED
      BY <3>1, <3>2 DEF InWindow
  <2>4. BodyScore(p) = 40
    <3>1. p.words # 0
      <4> DEFINE n == p.words
      <4>1. n \in 800 .. 2500
        BY <2>1
      <4> HIDE DEF n
      <4>2. n # 0
        BY <4>1
      <4> QED
        BY <4>2 DEF n
    <3> QED
      BY <2>2, <3>1 DEF BodyScore
  <2>5. HeadingScore(p) = 40
    <3>1. Cardinality(AtLevel(p, "h1")) = 1
      BY Zenon DEF Unadvised
    <3>2. AtLevel(p, "h2") # {}
      BY Zenon DEF Unadvised
    <3>3. Len(p.headings) >= 3
      BY Zenon DEF Unadvised
    <3>4. AverageIn(p, 5, 10) \/ AverageIs(p, 10)
      BY Zenon DEF Unadvised
    <3>5. AtLevel(p, "h1") # {}
      BY <3>1, FS_EmptySet, SMT
    <3>6. (CASE Cardinality(AtLevel(p, "h1")) = 1 -> 10
             [] Cardinality(AtLevel(p, "h1")) > 1 -> 5 [] OTHER -> 0) = 10
      BY <3>1
    <3>7. (CASE Len(p.headings) >= 3 -> 10 [] Len(p.headings) \in 1 .. 2 -> 5 [] OTHER -> 0) = 10
      <4> DEFINE n == Len(p.headings)
      <4>1. n \in Nat
        BY HeadingWordsAre
      <4> HIDE DEF n
      <4>2. n >= 3 => (CASE n >= 3 -> 10 [] n \in 1 .. 2 -> 5 [] OTHER -> 0) = 10
        BY <4>1
      <4> QED
        BY <3>3, <4>2 DEF n
    <3>8. (CASE AtLevel(p, "h1") = {} -> 0 [] AtLevel(p, "h2") # {} -> 10 [] OTHER -> 5) = 10
      BY <3>2, <3>5
    <3>9. LengthPart(Len(p.headings), HeadingWords(p)) = 10
      <4>1. HeadingWords(p) \in Nat /\ Len(p.headings) \in Nat
        BY HeadingWordsAre
      <4>2. \/ /\ 5 * Len(p.headings) <= HeadingWords(p)
               /\ HeadingWords(p) < 10 * Len(p.headings)
            \/ HeadingWords(p) = 10 * Len(p.headings)
        BY <3>4 DEF AverageIn, AverageIs
      <4> QED
        BY <3>3, <4>1, <4>2 DEF LengthPart
    <3> QED
      BY <3>6, <3>7, <3>8, <3>9, HeadingScoreIs DEF TagPart
  <2> QED
    BY <2>3, <2>4, <2>5 DEF ContentScore
<1>11. LinkScore(p) >= 30
  <2> DEFINE n == 100 * p.links
  <2>1. 20 * 30 <= n /\ n <= 20 * 100 /\ n \in Int /\ 20 \in Nat \ {0} /\ 30 \in Int /\ 100 \in Int
    BY <1>1
  <2>2. LinkScore(p) = Round(n, 20)
    BY <1>1 DEF LinkScore
  <2> HIDE DEF n
  <2>3. RoundsTo(n, 20, 30, 100)
    BY <2>1, RoundBetween, Zenon
  <2> QED
    BY <2>2, <2>3 DEF RoundsTo
<1>12. ImageScore(p) >= 100
  <2>1. ImageScore(p) = Round(1000, 10)
    BY <1>1 DEF ImageScore
  <2> QED
    BY <2>1 DEF Round
<1> QED
  BY <1>4, <1>9, <1>10, <1>11, <1>12

(* A page that is left without a recommendation scores at least 77.        *)
THEOREM UnadvisedAreGood == Spec => []UnadvisedIsGood
<1>1. TypeOK => UnadvisedIsGood
  <2> SUFFICES ASSUME IsPage(page), Unadvised(page) PROVE Weighted(page) >= 7700
    BY DEF TypeOK, UnadvisedIsGood
  <2>1. /\ StructuredScore(page) \in 0 .. 100 /\ MetadataScore(page) \in 0 .. 100
        /\ ContentScore(page) \in 0 .. 100 /\ LinkScore(page) \in 0 .. 100
        /\ ImageScore(page) \in 0 .. 100
    BY ScoresOfAnyPage
  <2>2. /\ StructuredScore(page) >= 65 /\ MetadataScore(page) >= 93
        /\ ContentScore(page) >= 100 /\ LinkScore(page) >= 30 /\ ImageScore(page) >= 100
    BY UnadvisedScores
  <2> QED
    <3> DEFINE a == StructuredScore(page)
               b == MetadataScore(page)
               c == ContentScore(page)
               d == LinkScore(page)
               e == ImageScore(page)
    <3>1. Weighted(page) = 40 * a + 25 * b + 20 * c + 10 * d + 5 * e
      BY DEF Weighted
    <3>2. /\ a \in 65 .. 100 /\ b \in 93 .. 100 /\ c \in 100 .. 100 /\ d \in 30 .. 100
          /\ e \in 100 .. 100
      BY <2>1, <2>2
    <3> HIDE DEF a, b, c, d, e
    <3> QED
      BY <3>1, <3>2
<1> QED
  BY TypeCorrect, <1>1, PTL

LEMMA AdviceOfAnyPage ==
    ASSUME NEW p, IsPage(p)
    PROVE  /\ Advice(p) = <<>> <=> Unadvised(p)
           /\ IsInjective(Advice(p))
<1> DEFINE none  == Advice(p) = <<>>
           none1 == StructuredAdvice(p) = <<>>
           none2 == LinkAdvice(p) = <<>>
           none3 == ContentAdvice(p) = <<>>
           none4 == ImageAdvice(p) = <<>>
           none5 == MetadataAdvice(p) = <<>>
<1>1. none <=> none1 /\ none2 /\ none3 /\ none4 /\ none5
  BY AdviceIs, Zenon
<1>2. none1 <=> /\ p.schema /\ TypesScore(p) > 10
                 /\ p.faqs \in 6 .. 10 /\ p.answers \in 10 * p.faqs .. 50 * p.faqs
  BY StructuredAdviceIs
<1>3. none2 <=> p.links \in 6 .. 20
  BY LinkAdviceIs
<1>4. none3 <=> /\ p.words \in 800 .. 2500 /\ 10 * p.distinct > 7 * p.words
                 /\ Cardinality(AtLevel(p, "h1")) = 1 /\ ~(AtLevel(p, "h2") = {})
                 /\ Len(p.headings) >= 3 /\ (AverageIn(p, 5, 10) \/ AverageIs(p, 10))
  BY ContentAdviceIs
<1>5. none4 <=> p.images = 0
  BY ImageAdviceIs
<1>6. none5 <=> /\ p.title \in 5 .. 15 /\ p.description \in 15 .. 20
                 /\ p.canonical /\ RobotsScore(p) > 12
  BY MetadataAdviceIs
<1> HIDE DEF none, none1, none2, none3, none4, none5
<1>7. none <=> Unadvised(p)
  BY <1>1, <1>2, <1>3, <1>4, <1>5, <1>6 DEF Unadvised
<1>8. IsInjective(Advice(p))
  BY AdviceIs DEF Once
<1> QED
  BY <1>7, <1>8 DEF none

(* Exactly the pages within every window are left without a recommendation, *)
(* and no page gets one twice.                                              *)
THEOREM AdviceMeetsWindows == Spec => []AdviceIsExact
<1>1. TypeOK => AdviceIsExact
  BY AdviceOfAnyPage DEF TypeOK, AdviceIsExact
<1> QED
  BY TypeCorrect, <1>1, PTL

(* Every edit is of a page outside one of the windows.                     *)
LEMMA EditsAreAdvised ==
    ASSUME TypeOK, Next
    PROVE  ~Unadvised(page)
<1> SUFFICES ASSUME Unadvised(page) PROVE FALSE
  OBVIOUS
<1>1. page.distinct \in Nat /\ page.words \in Nat /\ page.faqs \in Nat /\ page.answers \in Nat
  BY FieldsOf
<1>2. ~EditTitle /\ ~EditDescription /\ ~AddCanonical
  <2>1. page.title \in 5 .. 15 /\ page.description \in 15 .. 20 /\ page.canonical
    BY DEF Unadvised
  <2> QED
    BY <2>1 DEF EditTitle, EditDescription, AddCanonical, TooShort, TooLong
<1>3. ~EditRobots
  <2>1. RobotsScore(page) > 12
    BY Zenon DEF Unadvised
  <2>2. RobotsScore(page) \in 0 .. 20
    BY RobotsRange DEF TypeOK
  <2> QED
    BY <2>1, <2>2 DEF EditRobots
<1>4. ~EditBody
  <2>1. page.words \in 800 .. 2500 /\ 10 * page.distinct > 7 * page.words
    BY DEF Unadvised
  <2>2. EditBody => \/ page.words < 800 \/ page.words > 2500
                    \/ 10 * page.distinct <= 7 * page.words
    <3> DEFINE short == page.words < 800
               long == page.words > 2500
    <3>1. TooShort(page.words, 800) <=> short
      BY DEF TooShort
    <3>2. TooLong(page.words, 2500) <=> long
      BY DEF TooLong
    <3> QED
      BY <3>1, <3>2, SMTT(30) DEF EditBody
  <2> DEFINE n == page.words
             k == page.distinct
  <2>3. n \in 800 .. 2500 /\ 10 * k > 7 * n /\ k \in Nat
    BY <1>1, <2>1
  <2>4. EditBody => n < 800 \/ n > 2500 \/ 10 * k <= 7 * n
    BY <2>2
  <2> HIDE DEF n, k
  <2>5. ~(n < 800 \/ n > 2500 \/ 10 * k <= 7 * n)
    BY <2>3
  <2> QED
    BY <2>4, <2>5
<1>5. ~EditHeadings
  <2>1. Cardinality(AtLevel(page, "h1")) = 1
    BY Zenon DEF Unadvised
  <2>2. AtLevel(page, "h2") # {}
    BY Zenon DEF Unadvised
  <2>3. Len(page.headings) >= 3
    BY Zenon DEF Unadvised
  <2>4. AverageIn(page, 5, 10) \/ AverageIs(page, 10)
    BY Zenon DEF Unadvised
  <2>5. AtLevel(page, "h1") # {}
    BY <2>1, FS_EmptySet, SMT
  <2>6. HeadingWords(page) \in Nat /\ Len(page.headings) \in Nat
    BY HeadingWordsAre DEF TypeOK
  <2>7. ~(page.headings # <<>> /\ AverageIn(page, 0, 5))
    <3> SUFFICES ASSUME page.headings # <<>>, AverageIn(page, 0, 5) PROVE FALSE
      OBVIOUS
    <3> QED
      BY <2>3, <2>4, <2>6 DEF AverageIn, AverageIs
  <2>8. AverageIn(page, 0, 10) \/ AverageIs(page, 10)
    BY <2>3, <2>4, <2>6 DEF AverageIn, AverageIs
  <2>9. ~(Cardinality(AtLevel(page, "h1")) > 1) /\ ~(Len(page.headings) < 3)
    BY <2>1, <2>3, <2>6
  <2> QED
    BY <2>2, <2>5, <2>7, <2>8, <2>9 DEF EditHeadings, NeedsH1, NeedsH2
<1>6. ~EditSchema
  <2>1. page.schema
    BY Zenon DEF Unadvised
  <2>2. TypesScore(page) > 10
    BY Zenon DEF Unadvised
  <2>3. TypesScore(page) \in 0 .. 30
    BY TypesRange DEF TypeOK
  <2>4. EditSchema => ~page.schema \/ TypesScore(page) <= 10
    BY Zenon DEF EditSchema
  <2> QED
    BY <2>1, <2>2, <2>3, <2>4
<1>7. ~EditFaqs /\ ~EditAnswers
  <2>1. page.faqs \in 6 .. 10 /\ page.answers \in 10 * page.faqs .. 50 * page.faqs
    BY DEF Unadvised
  <2> QED
    <3> DEFINE f == page.faqs
               a == page.answers
    <3>1. /\ EditFaqs => f = 0 \/ f \in 1 .. 5 \/ f > 10 \/ a < 10 * f
          /\ EditAnswers => a > 50 * f
      BY Zenon DEF EditFaqs, EditAnswers
    <3>2. f \in 6 .. 10 /\ a \in 10 * f .. 50 * f
      BY <2>1, Zenon
    <3> HIDE DEF f, a
    <3>3. ~(f = 0 \/ f \in 1 .. 5 \/ f > 10 \/ a < 10 * f) /\ ~(a > 50 * f)
      BY <3>2
    <3> QED
      BY <3>1, <3>3
<1>8. ~EditLinks /\ ~EditImages
  <2>1. page.links \in 6 .. 20 /\ page.images = 0
    BY DEF Unadvised
  <2> QED
    BY <2>1 DEF EditLinks, EditImages
<1> QED
  BY <1>2, <1>3, <1>4, <1>5, <1>6, <1>7, <1>8 DEF Next

(* No edit is made that no recommendation asks for; and following one, other *)
(* than to rewrite FAQ answers, lowers no metric and so never the overall    *)
(* score, whatever the page.                                                 *)
THEOREM FollowingPays == Spec => AdvicePays
<1>1. TypeOK /\ [Next]_page => [Followed]_page
  <2> SUFFICES ASSUME TypeOK, Next PROVE Followed
    OBVIOUS
  <2>1. IsPage(page) /\ IsPage(page')
    BY TextTypes, BodyTypes, RobotsTypes, HeadingsTypes, StructureTypes DEF Next, TypeOK
  <2> DEFINE Pays == ~EditAnswers \/ page'.answers >= 24 * page'.faqs
  <2>2. Pays => Grows(page, page')
    BY TextPays, RobotsPays, BodyPays, HeadingsPay, SchemaPays, FaqsPay, AnswersPay, LinksPay,
       ImagesPay DEF Next
  <2>3. Pays => Weighted(page) <= Weighted(page')
    BY <2>1, <2>2, WeightedGrows
  <2>4. Weighted(page) \in 0 .. 100 * 100 /\ Weighted(page') \in 0 .. 100 * 100
    BY <2>1, ScoresOfAnyPage, Zenon
  <2>5. Advice(page) # <<>>
    BY <2>1, EditsAreAdvised, AdviceOfAnyPage
  <2> QED
    BY <2>3, <2>4, <2>5 DEF Followed
<1>2. QED
  BY TypeCorrect, <1>1, PTL DEF AdvicePays, Spec
=============================================================================
