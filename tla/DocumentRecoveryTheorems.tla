---------------------- MODULE DocumentRecoveryTheorems ----------------------
(***************************************************************************)
(* What parse and build_inventory make of every report the converter may   *)
(* hand over, of any number of pages and items, and of every OCR reading.  *)
(*                                                                         *)
(* The first part is about finite sets of numbers: their maximum, and the  *)
(* sequence sorted(...) makes of them.  The second says what               *)
(* to_parsed_document yields.  RecoveryInv ties the document parse works   *)
(* on to that of the first conversion: same pages, same regions until the  *)
(* fallbacks, texts that stay where they were read, or that the OCR pass   *)
(* put on a page of its own making.                                        *)
(***************************************************************************)
EXTENDS DocumentRecovery, NumberTheorems

-----------------------------------------------------------------------------
(* Finite sets of numbers                                                  *)

\* max(...) of a set that is not empty.
LEMMA MaxExists ==
  ASSUME NEW S \in SUBSET Int, IsFiniteSet(S), S # {}
  PROVE  Max(S) \in S /\ \A y \in S : Max(S) >= y
BY GreatestExists DEF Max

\* min(...) of a set that is not empty.
LEMMA MinExists ==
  ASSUME NEW S \in SUBSET Int, IsFiniteSet(S), S # {}
  PROVE  Min(S) \in S /\ \A y \in S : Min(S) <= y
BY LeastExists DEF Min

IsAscending(s) == \A i, j \in DOMAIN s : i < j => s[i] < s[j]

\* A finite set of numbers can be put in order.
LEMMA AscendingExists ==
  ASSUME NEW S \in SUBSET Int, IsFiniteSet(S)
  PROVE  \E s \in SetToSeqs(S) : IsAscending(s)
<1> DEFINE HasNone(T) == ~\E s \in SetToSeqs(T) : IsAscending(s)
           W == {T \in SUBSET S : HasNone(T)}
<1> SUFFICES ASSUME W # {} PROVE FALSE
  OBVIOUS
<1>1. W \in SUBSET SUBSET S
  OBVIOUS
<1> HIDE DEF W
<1>2. PICK T \in W : \A U \in SUBSET T : U # T => U \notin W
  BY <1>1, LeastSubset
<1>3. T \in SUBSET S /\ HasNone(T)
  BY DEF W
<1>4. T \in SUBSET Int /\ IsFiniteSet(T)
  BY <1>3, FS_Subset
<1>5. T # {}
  <2> SUFFICES ASSUME T = {} PROVE FALSE
    OBVIOUS
  <2>1. Cardinality(T) = 0
    BY FS_EmptySet
  <2> DEFINE s == [i \in 1 .. 0 |-> 0]
  <2>2. s \in SetToSeqs(T)
    BY <2>1 DEF SetToSeqs
  <2>3. IsAscending(s)
    BY DEF IsAscending
  <2> QED BY <1>3, <2>2, <2>3
<1> DEFINE m == Max(T)
           R == T \ {m}
           n == Cardinality(R)
<1>6. m \in T /\ \A y \in T : m >= y
  BY <1>4, <1>5, MaxExists
<1> HIDE DEF m
<1>7. IsFiniteSet(R) /\ n \in Nat /\ Cardinality(T) = n + 1
  <2>1. IsFiniteSet(R) /\ Cardinality(R) = Cardinality(T) - 1
    BY <1>4, <1>6, FS_RemoveElement
  <2>2. Cardinality(T) \in Nat /\ Cardinality(R) \in Nat
    BY <1>4, <2>1, FS_CardinalityType
  <2> QED BY <2>1, <2>2
<1>8. PICK s \in SetToSeqs(R) : IsAscending(s)
  <2>1. R \in SUBSET T /\ R # T /\ R \in SUBSET S
    BY <1>3, <1>6
  <2> QED BY <1>2, <2>1 DEF W
<1>9. /\ s \in [1 .. n -> R] /\ DOMAIN s = 1 .. n
      /\ \A i, j \in 1 .. n : i # j => s[i] # s[j]
  BY <1>8 DEF SetToSeqs
<1> HIDE DEF n
<1> DEFINE t == [i \in 1 .. n + 1 |-> IF i = n + 1 THEN m ELSE s[i]]
<1>10. \A i \in 1 .. n : i \in 1 .. n + 1 /\ t[i] = s[i] /\ s[i] \in R
  BY <1>7, <1>9
<1>11. n + 1 \in 1 .. n + 1 /\ t[n + 1] = m
  BY <1>7
<1>12. \A i \in 1 .. n + 1 : i \in 1 .. n \/ i = n + 1
  BY <1>7
<1> HIDE DEF t
<1>13. \A i, j \in 1 .. n + 1 : i < j => t[i] < t[j]
  <2> SUFFICES ASSUME NEW i \in 1 .. n + 1, NEW j \in 1 .. n + 1, i < j
               PROVE  t[i] < t[j]
    OBVIOUS
  <2>1. i \in 1 .. n
    BY <1>7, <1>12
  <2>2. CASE j \in 1 .. n
    BY <1>8, <1>9, <1>10, <2>1, <2>2 DEF IsAscending
  <2>3. CASE j = n + 1
    <3>1. t[i] \in T /\ t[i] # m
      BY <1>10, <2>1
    <3>2. m >= t[i] /\ m \in Int /\ t[i] \in Int
      BY <1>4, <1>6, <3>1
    <3>3. t[j] = m
      BY <1>11, <2>3
    <3> QED BY <3>1, <3>2, <3>3
  <2> QED BY <1>12, <2>2, <2>3
<1>14. \A i \in 1 .. n + 1 : t[i] \in T
  BY <1>6, <1>10, <1>11, <1>12
<1>15. t \in [1 .. n + 1 -> T] /\ DOMAIN t = 1 .. n + 1
  BY <1>14 DEF t
<1>16. \A i, j \in 1 .. n + 1 : i # j => t[i] # t[j]
  <2> SUFFICES ASSUME NEW i \in 1 .. n + 1, NEW j \in 1 .. n + 1, i # j
               PROVE  t[i] # t[j]
    OBVIOUS
  <2>1. i < j \/ j < i
    BY <1>7
  <2>2. t[i] \in Int /\ t[j] \in Int
    BY <1>4, <1>14
  <2>3. t[i] < t[j] \/ t[j] < t[i]
    BY <1>13, <2>1
  <2> QED BY <2>2, <2>3
<1>17. t \in SetToSeqs(T)
  BY <1>7, <1>15, <1>16 DEF SetToSeqs
<1>18. IsAscending(t)
  BY <1>13, <1>15 DEF IsAscending
<1> QED BY <1>3, <1>17, <1>18

\* sorted(...): each number once, and no other.
LEMMA AscendingLists ==
  ASSUME NEW S \in SUBSET Int, IsFiniteSet(S)
  PROVE  /\ Ascending(S) \in [1 .. Cardinality(S) -> S]
         /\ DOMAIN Ascending(S) = 1 .. Cardinality(S)
         /\ \A i, j \in 1 .. Cardinality(S) :
              i # j => Ascending(S)[i] # Ascending(S)[j]
         /\ \A x \in S : \E i \in 1 .. Cardinality(S) : Ascending(S)[i] = x
         /\ Cardinality(S) \in Nat
<1>1. Ascending(S) \in SetToSeqs(S)
  BY AscendingExists DEF Ascending, IsAscending
<1> DEFINE s == Ascending(S)
           n == Cardinality(S)
<1>2. n \in Nat
  BY FS_CardinalityType
<1>3. s \in [1 .. n -> S] /\ \A i, j \in 1 .. n : i # j => s[i] # s[j]
  BY <1>1 DEF SetToSeqs
<1>4. s \in Injection(1 .. n, S)
  BY <1>3 DEF Injection, IsInjective
<1>5. IsFiniteSet(1 .. n) /\ Cardinality(1 .. n) = n
  BY <1>2, FS_Interval
<1>6. s \in Surjection(1 .. n, S)
  BY <1>4, <1>5, FS_Injection
<1> QED BY <1>2, <1>3, <1>6 DEF Surjection

-----------------------------------------------------------------------------
(* to_parsed_document                                                      *)

\* A page of the source, with what the converter found on it.
SourcePage(d, g) ==
  /\ g.number \in PageNumbers(d)
  /\ g = Page(g.number, On(Texts(d.items), g.number),
              {Detected(x) : x \in On(Regions(d.items), g.number)},
              d.format = "pdf")

\* The page of what has no page.
SyntheticPage(d, g) ==
  /\ HasUnplaced(d) /\ g = Unplaced(d, Last1(PageNumbers(d)) + 1, FALSE)

\* The page numbers are finitely many, from 1 to the last.
LEMMA NumbersBounded ==
  ASSUME NEW d, Readable(d)
  PROVE  /\ PageNumbers(d) \in SUBSET (Nat \ {0}) /\ IsFiniteSet(PageNumbers(d))
         /\ Last1(PageNumbers(d)) \in Nat
         /\ \A n \in PageNumbers(d) : n <= Last1(PageNumbers(d))
<1> DEFINE items == Texts(d.items) \cup Regions(d.items)
           onItems == {x.page : x \in items}
           at == [x \in items |-> x.page]
<1>1. items \subseteq d.items /\ IsFiniteSet(items)
  <2>1. items \subseteq d.items
    BY DEF Texts, Regions
  <2> QED BY <2>1, FS_Subset DEF Readable
<1> HIDE DEF items
<1>2. at \in Surjection(items, onItems)
  BY DEF Surjection
<1>3. IsFiniteSet(onItems)
  BY <1>1, <1>2, FS_Surjection
<1>4. onItems \subseteq Int
  BY <1>1 DEF Readable
<1>5. IsFiniteSet(d.pages \cup onItems) /\ d.pages \cup onItems \subseteq Int
  BY <1>3, <1>4, FS_Union DEF Readable
<1>6. PageNumbers(d) = {n \in d.pages \cup onItems : n >= 1}
  BY DEF PageNumbers, items
<1> HIDE DEF onItems
<1>7. PageNumbers(d) \subseteq d.pages \cup onItems
  BY <1>6
<1>8. IsFiniteSet(PageNumbers(d))
  BY <1>5, <1>7, FS_Subset
<1>9. PageNumbers(d) \in SUBSET (Nat \ {0})
  BY <1>5, <1>6
<1>10. CASE PageNumbers(d) = {}
  BY <1>8, <1>10 DEF Last1
<1>11. CASE PageNumbers(d) # {}
  <2>1. /\ Max(PageNumbers(d)) \in PageNumbers(d)
        /\ \A y \in PageNumbers(d) : Max(PageNumbers(d)) >= y
    BY <1>8, <1>9, <1>11, MaxExists
  <2>2. Last1(PageNumbers(d)) = Max(PageNumbers(d))
    BY <1>11 DEF Last1
  <2> QED BY <1>8, <1>9, <2>1, <2>2
<1> QED BY <1>9, <1>10, <1>11

\* The placed pages are the page numbers in order.
LEMMA PlacedPages ==
  ASSUME NEW d, Readable(d)
  PROVE  LET n == Cardinality(PageNumbers(d))
             s == Placed(d)
         IN  /\ n \in Nat /\ DOMAIN s = 1 .. n
             /\ \A k \in 1 .. n : SourcePage(d, s[k])
             /\ \A j, k \in 1 .. n : j # k => s[j].number # s[k].number
             /\ \A m \in PageNumbers(d) : \E k \in 1 .. n : s[k].number = m
             /\ s \in Seq({s[k] : k \in 1 .. n}) /\ Len(s) = n
<1> DEFINE S == PageNumbers(d)
           n == Cardinality(S)
           a == Ascending(S)
           s == Placed(d)
<1>1. S \in SUBSET Int /\ IsFiniteSet(S)
  BY NumbersBounded
<1>2. /\ a \in [1 .. n -> S] /\ DOMAIN a = 1 .. n /\ n \in Nat
      /\ \A i, j \in 1 .. n : i # j => a[i] # a[j]
      /\ \A x \in S : \E i \in 1 .. n : a[i] = x
  BY <1>1, AscendingLists
<1>3. s = [k \in 1 .. n |->
             Page(a[k], On(Texts(d.items), a[k]),
                  {Detected(x) : x \in On(Regions(d.items), a[k])},
                  d.format = "pdf")]
  BY <1>2 DEF Placed
<1> HIDE DEF S, n, a, s
<1>4. DOMAIN s = 1 .. n
  BY <1>3
<1>5. \A k \in 1 .. n : s[k].number = a[k]
  BY <1>3 DEF Page
<1>6. \A k \in 1 .. n : a[k] \in S
  BY <1>2
<1>7. \A k \in 1 .. n : SourcePage(d, s[k])
  <2> TAKE k \in 1 .. n
  <2>1. s[k] = Page(a[k], On(Texts(d.items), a[k]),
                    {Detected(x) : x \in On(Regions(d.items), a[k])},
                    d.format = "pdf")
    BY <1>3
  <2> QED BY <1>5, <1>6, <2>1 DEF SourcePage, S
<1>8. s \in [1 .. n -> {s[k] : k \in 1 .. n}]
  BY <1>3
<1>9. s \in Seq({s[k] : k \in 1 .. n}) /\ Len(s) = n
  BY <1>2, <1>8
<1> QED BY <1>2, <1>4, <1>5, <1>7, <1>9 DEF S, n, s

\* One more element at the end.
LEMMA Extended ==
  ASSUME NEW S, NEW s \in Seq(S), NEW u
  PROVE  /\ Len(s) \in Nat
         /\ DOMAIN (s \o <<u>>) = 1 .. Len(s) + 1
         /\ \A k \in 1 .. Len(s) : (s \o <<u>>)[k] = s[k]
         /\ (s \o <<u>>)[Len(s) + 1] = u
OBVIOUS

\* The pages of a document are those of its source, each once, and one
\* past the last for what has no page; sourced tells whether it is there.
ShapeOf(d, p) ==
  /\ p = [pages |-> p.pages, sourced |-> \A k \in DOMAIN p.pages : p.pages[k].sourced]
  /\ DOMAIN p.pages \subseteq Int /\ IsFiniteSet(DOMAIN p.pages)
  /\ \A k \in DOMAIN p.pages : SourcePage(d, p.pages[k]) \/ SyntheticPage(d, p.pages[k])
  /\ \A j, k \in DOMAIN p.pages : j # k => p.pages[j].number # p.pages[k].number
  /\ \A m \in PageNumbers(d) : \E k \in DOMAIN p.pages : p.pages[k].number = m
  /\ HasUnplaced(d) => \E k \in DOMAIN p.pages : SyntheticPage(d, p.pages[k])

LEMMA ParsedShape ==
  ASSUME NEW d, Readable(d)
  PROVE  ShapeOf(d, ToParsed(d))
<1> DEFINE n == Cardinality(PageNumbers(d))
           s == Placed(d)
           last == Last1(PageNumbers(d))
           u == Unplaced(d, last + 1, FALSE)
           p == ToParsed(d)
<1>1. /\ n \in Nat /\ DOMAIN s = 1 .. n
      /\ \A k \in 1 .. n : SourcePage(d, s[k])
      /\ \A j, k \in 1 .. n : j # k => s[j].number # s[k].number
      /\ \A m \in PageNumbers(d) : \E k \in 1 .. n : s[k].number = m
      /\ s \in Seq({s[k] : k \in 1 .. n}) /\ Len(s) = n
  BY PlacedPages
<1>2. last \in Nat /\ \A m \in PageNumbers(d) : m <= last
  BY NumbersBounded
<1>3. PageNumbers(d) \subseteq Nat
  BY NumbersBounded
<1>4. p = Document(s \o (IF HasUnplaced(d) THEN <<u>> ELSE <<>>))
  BY DEF ToParsed
<1>5. u.number = last + 1
  BY DEF Unplaced, Page
<1> HIDE DEF n, s, last, p
<1>6. CASE ~HasUnplaced(d)
  <2>1. s \o <<>> = s
    BY <1>1
  <2>2. p = [pages |-> s, sourced |-> \A k \in DOMAIN s : s[k].sourced]
    BY <1>4, <1>6, <2>1 DEF Document
  <2>3. IsFiniteSet(1 .. n) /\ 1 .. n \subseteq Int
    BY <1>1, FS_Interval
  <2> QED BY <1>1, <1>6, <2>2, <2>3 DEF ShapeOf, p
<1>7. CASE HasUnplaced(d)
  <2> DEFINE t == s \o <<u>>
  <2>1. /\ DOMAIN t = 1 .. n + 1 /\ t[n + 1] = u
        /\ \A k \in 1 .. n : t[k] = s[k]
    <3> HIDE DEF u
    <3>1. PICK S : s \in Seq(S)
      BY <1>1
    <3> QED BY <1>1, <3>1, Extended
  <2>2. p = [pages |-> t, sourced |-> \A k \in DOMAIN t : t[k].sourced]
    BY <1>4, <1>7 DEF Document
  <2> HIDE DEF t
  <2>3. IsFiniteSet(1 .. n + 1) /\ 1 .. n + 1 \subseteq Int
    BY <1>1, FS_Interval
  <2>4. SyntheticPage(d, u)
    BY <1>7 DEF SyntheticPage, last
  <2> HIDE DEF u
  <2>5. \A k \in 1 .. n + 1 : k \in 1 .. n \/ k = n + 1
    BY <1>1
  <2>6. n + 1 \in 1 .. n + 1 /\ \A k \in 1 .. n : k \in 1 .. n + 1
    BY <1>1
  <2>7. \A k \in 1 .. n + 1 : SourcePage(d, t[k]) \/ SyntheticPage(d, t[k])
    BY <1>1, <2>1, <2>4, <2>5
  <2>8. \A k \in 1 .. n : t[k].number # t[n + 1].number
    <3> TAKE k \in 1 .. n
    <3>1. s[k].number \in PageNumbers(d)
      BY <1>1 DEF SourcePage
    <3> QED BY <1>2, <1>3, <1>5, <2>1, <3>1
  <2>9. \A j, k \in 1 .. n + 1 : j # k => t[j].number # t[k].number
    BY <1>1, <2>1, <2>5, <2>8
  <2>10. \A m \in PageNumbers(d) : \E k \in 1 .. n + 1 : t[k].number = m
    BY <1>1, <2>1, <2>6
  <2>11. \E k \in 1 .. n + 1 : SyntheticPage(d, t[k])
    BY <2>1, <2>4, <2>6
  <2> QED BY <2>1, <2>2, <2>3, <2>7, <2>9, <2>10, <2>11 DEF ShapeOf, p
<1> QED BY <1>6, <1>7

-----------------------------------------------------------------------------
(* The inductive invariant                                                 *)

Base == ToParsed(report)
SparseOf(p) == IF p.sourced THEN SparsePages(p) ELSE {}

\* The regions of a page of the first conversion after the fallbacks.
Filled(g) ==
  IF g.figures # {} \/ g.number \notin sparse \/ ~g.sourced
  THEN g.figures ELSE {WholePage(g.number, report.sized)}

\* parse works on the pages of the first conversion: only their texts are
\* replaced, and regions are added by the fallbacks.
SamePages ==
  /\ parsed = [pages |-> parsed.pages, sourced |-> Base.sourced]
  /\ DOMAIN parsed.pages = DOMAIN Base.pages
  /\ \A k \in DOMAIN Base.pages :
       parsed.pages[k]
         = Page(Base.pages[k].number, parsed.pages[k].text,
                IF phase \in {"recover", "fallback"} THEN Base.pages[k].figures
                ELSE Filled(Base.pages[k]),
                Base.pages[k].sourced)

\* A text of a page was read there, or came with the OCR pass from a page
\* that pass invented.
TextOnPage(g, p) ==
  g.sourced =>
    \A x \in g.text :
      x.page = g.number \/ (x.page = 0 /\ g.number \in Invented(p))

Candidates(p) ==
  UNION {{[page |-> p.pages[k].number, figure |-> f] : f \in p.pages[k].figures}
         : k \in DOMAIN p.pages}

RecoveryInv ==
  /\ report \in Reports
  /\ phase \in {"convert", "recover", "fallback", "classify"} \cup
               {"inventoried", "DOCUMENT_PARSE_FAILED", "DOCUMENT_PAGE_LIMIT_EXCEEDED"}
  /\ phase \in {"convert", "DOCUMENT_PAGE_LIMIT_EXCEEDED"} => parsed = NoParse
  /\ phase \in {"recover", "fallback", "classify", "inventoried"} =>
       SamePages /\ sparse = SparseOf(Base)
  /\ phase \in {"recover", "fallback"} => Base.sourced
  /\ phase = "recover" => sparse # {}
  /\ phase \in {"convert", "recover"} => recovered = NoParse
  /\ \A k \in DOMAIN parsed.pages : TextOnPage(parsed.pages[k], recovered)
  /\ inventory = IF phase = "inventoried" THEN Candidates(parsed) ELSE {}

\* What report stands for throughout.
LEMMA BaseShape ==
  ASSUME report \in Reports
  PROVE  Readable(report) /\ ShapeOf(report, Base)
BY RecoveryAssumption, ParsedShape DEF Base

\* A page of the source that can be cited has the texts read on it.
LEMMA ConvertedText ==
  ASSUME NEW d, NEW g, SourcePage(d, g) \/ SyntheticPage(d, g), NEW p
  PROVE  TextOnPage(g, p)
<1>1. CASE SourcePage(d, g)
  <2>1. g.text = On(Texts(d.items), g.number)
    BY <1>1 DEF SourcePage, Page
  <2> QED BY <2>1 DEF TextOnPage, On
<1>2. CASE SyntheticPage(d, g)
  <2>1. ~g.sourced
    BY <1>2 DEF SyntheticPage, Unplaced, Page
  <2> QED BY <2>1 DEF TextOnPage
<1> QED BY <1>1, <1>2

\* [p EXCEPT !.pages = f], and the same of a page and its parts.
LEMMA PagesReplaced ==
  ASSUME NEW p, NEW f, NEW s, NEW o, p = [pages |-> s, sourced |-> o]
  PROVE  [p EXCEPT !.pages = f] = [pages |-> f, sourced |-> o]
OBVIOUS

LEMMA PageParts ==
  ASSUME NEW g, NEW n, NEW t, NEW f, NEW o, g = Page(n, t, f, o)
  PROVE  g.number = n /\ g.text = t /\ g.figures = f /\ g.sourced = o
BY DEF Page

LEMMA TextReplaced ==
  ASSUME NEW g, NEW n, NEW t, NEW f, NEW o, NEW u, g = Page(n, t, f, o)
  PROVE  [g EXCEPT !.text = u] = Page(n, u, f, o)
BY DEF Page

LEMMA FiguresReplaced ==
  ASSUME NEW g, NEW n, NEW t, NEW f, NEW o, NEW u, g = Page(n, t, f, o)
  PROVE  [g EXCEPT !.figures = u] = Page(n, t, u, o)
BY DEF Page

\* Only pages of the source are sparse pages.
LEMMA SparseIsPlaced ==
  ASSUME NEW d, Readable(d)
  PROVE  SparseOf(ToParsed(d)) \subseteq PageNumbers(d)
<1> DEFINE p == ToParsed(d)
<1>1. ShapeOf(d, p)
  BY ParsedShape
<1> HIDE DEF p
<1> SUFFICES ASSUME p.sourced, NEW k \in DOMAIN p.pages
             PROVE  p.pages[k].number \in PageNumbers(d)
  BY DEF SparseOf, SparsePages, p
<1>2. p.pages[k].sourced
  <2>1. p.sourced = (\A j \in DOMAIN p.pages : p.pages[j].sourced)
    BY <1>1 DEF ShapeOf
  <2> QED BY <2>1
<1>3. ~SyntheticPage(d, p.pages[k])
  BY <1>2 DEF SyntheticPage, Unplaced, Page
<1>4. SourcePage(d, p.pages[k])
  BY <1>1, <1>3 DEF ShapeOf
<1> QED BY <1>4 DEF SourcePage

\* The last of some places in a document is one of them.
LEMMA LastOfSome ==
  ASSUME NEW d, Readable(d), NEW same, same # {},
         same \subseteq DOMAIN ToParsed(d).pages
  PROVE  Max(same) \in same
<1>1. DOMAIN ToParsed(d).pages \subseteq Int /\ IsFiniteSet(DOMAIN ToParsed(d).pages)
  BY ParsedShape DEF ShapeOf
<1>2. same \in SUBSET Int /\ IsFiniteSet(same)
  BY <1>1, FS_Subset
<1> QED BY <1>2, MaxExists

\* What the OCR pass has for a page was read on that page, unless the pass
\* gave that number to what has no page.
LEMMA ReadOnItsPage ==
  ASSUME NEW d, Readable(d), NEW k \in DOMAIN ToParsed(d).pages
  PROVE  LET g == ToParsed(d).pages[k]
         IN  \A x \in g.text :
               \/ x.page = g.number
               \/ x.page = 0 /\ g.number \in Invented(ToParsed(d))
<1> DEFINE p == ToParsed(d)
           g == p.pages[k]
<1>1. SourcePage(d, g) \/ SyntheticPage(d, g)
  BY ParsedShape DEF ShapeOf
<1>2. CASE SourcePage(d, g)
  <2>1. g.text = On(Texts(d.items), g.number)
    BY <1>2 DEF SourcePage, Page
  <2> QED BY <2>1 DEF On
<1>3. CASE SyntheticPage(d, g)
  <2>1. ~g.sourced /\ g.text = On(Texts(d.items), 0)
    BY <1>3 DEF SyntheticPage, Unplaced, Page
  <2>2. g.number \in Invented(p)
    <3> HIDE DEF p
    <3>1. k \in DOMAIN p.pages
      BY DEF p
    <3> QED BY <2>1, <3>1 DEF Invented
  <2> QED BY <2>1, <2>2 DEF On
<1> QED BY <1>1, <1>2, <1>3

\* The range from the first sparse page to the last is one parse may ask for.
LEMMA ReadingIsReadable ==
  ASSUME report \in Reports, sparse \subseteq PageNumbers(report), sparse # {},
         NEW reading \in ReadingsOf(Min(sparse) .. Max(sparse))
  PROVE  Readable(reading)
<1>1. Readable(report)
  BY RecoveryAssumption
<1>2. PageNumbers(report) \in SUBSET (Nat \ {0}) /\ IsFiniteSet(PageNumbers(report))
  BY <1>1, NumbersBounded
<1>3. sparse \in SUBSET Int /\ IsFiniteSet(sparse)
  BY <1>2, FS_Subset
<1>4. Min(sparse) \in sparse /\ Max(sparse) \in sparse
  BY <1>3, MinExists, MaxExists
<1> QED BY <1>4, ReadingAssumption

-----------------------------------------------------------------------------
(* Each step preserves it                                                  *)

LEMMA RecoveryStarts == Init => RecoveryInv
BY DEF Init, RecoveryInv, NoParse, Document

LEMMA ConvertKeeps ==
  ASSUME RecoveryInv, Convert
  PROVE  RecoveryInv'
<1> DEFINE p == ToParsed(report)
<1>1. /\ phase = "convert" /\ report \in Reports /\ parsed = NoParse
      /\ recovered = NoParse /\ inventory = {}
      /\ UNCHANGED <<report, recovered, inventory>>
  BY DEF Convert, RecoveryInv
<1>2. Readable(report) /\ ShapeOf(report, p) /\ Base = p /\ Base' = p
  BY <1>1, BaseShape DEF Base
<1>3. CASE Len(p.pages) > MaxPages
  <2>1. phase' = "DOCUMENT_PAGE_LIMIT_EXCEEDED" /\ parsed' = NoParse
    BY <1>1, <1>3 DEF Convert
  <2> QED BY <1>1, <2>1 DEF RecoveryInv, NoParse, Document
<1>4. CASE ~(Len(p.pages) > MaxPages)
  <2>1. /\ parsed' = p /\ sparse' = SparseOf(p)
        /\ phase' = IF ~p.sourced THEN "classify"
                    ELSE IF sparse' = {} THEN "fallback" ELSE "recover"
    BY <1>4 DEF Convert, SparseOf
  <2>2. \A k \in DOMAIN p.pages : TextOnPage(p.pages[k], recovered)
    BY <1>2, ConvertedText DEF ShapeOf
  <2> HIDE DEF p
  <2>3. p = [pages |-> p.pages, sourced |-> p.sourced]
    BY <1>2 DEF ShapeOf
  <2>4. \A k \in DOMAIN p.pages :
          p.pages[k] = Page(p.pages[k].number, p.pages[k].text,
                            p.pages[k].figures, p.pages[k].sourced)
    <3> TAKE k \in DOMAIN p.pages
    <3>1. SourcePage(report, p.pages[k]) \/ SyntheticPage(report, p.pages[k])
      BY <1>2 DEF ShapeOf
    <3> QED BY <3>1 DEF SourcePage, SyntheticPage, Unplaced, Page
  <2>5. phase' \notin {"recover", "fallback"} => sparse' = {}
    BY <2>1 DEF SparseOf
  <2>6. SamePages'
    BY <1>2, <2>1, <2>3, <2>4, <2>5 DEF SamePages, Filled
  <2> QED BY <1>1, <1>2, <2>1, <2>2, <2>6 DEF RecoveryInv, SparseOf
<1> QED BY <1>3, <1>4

LEMMA FailureKeeps ==
  ASSUME RecoveryInv, ConversionFails \/ RecoveryFails
  PROVE  RecoveryInv'
BY DEF RecoveryInv, ConversionFails, RecoveryFails, SamePages, Filled, Base,
       Candidates, TextOnPage

LEMMA RecoverKeeps ==
  ASSUME RecoveryInv, Recover
  PROVE  RecoveryInv'
<1>1. /\ phase = "recover" /\ phase' = "fallback" /\ report \in Reports
      /\ SamePages /\ sparse = SparseOf(Base) /\ sparse # {} /\ inventory = {}
      /\ \A k \in DOMAIN parsed.pages : TextOnPage(parsed.pages[k], recovered)
      /\ Base.sourced /\ recovered = NoParse
      /\ UNCHANGED <<report, sparse, inventory>>
  BY DEF Recover, RecoveryInv
<1>2. PICK reading \in ReadingsOf(Min(sparse) .. Max(sparse)) :
        /\ recovered' = ToParsed(reading)
        /\ parsed' = MergeOcrText(parsed, ToParsed(reading), sparse)
  BY DEF Recover
<1> DEFINE same(k) == {j \in DOMAIN ToParsed(reading).pages :
                        ToParsed(reading).pages[j].number = parsed.pages[k].number}
           Recovered(k) == parsed.pages[k].number \in sparse /\ same(k) # {}
<1>3. parsed' = [parsed EXCEPT !.pages = [k \in DOMAIN parsed.pages |->
                   IF Recovered(k)
                   THEN [parsed.pages[k] EXCEPT
                           !.text = ToParsed(reading).pages[Max(same(k))].text]
                   ELSE parsed.pages[k]]]
  BY <1>2 DEF MergeOcrText, WithPages
<1>4. sparse \subseteq PageNumbers(report)
  BY <1>1, BaseShape, SparseIsPlaced DEF Base
<1>5. \A k \in DOMAIN parsed.pages : Recovered(k) =>
        \A x \in ToParsed(reading).pages[Max(same(k))].text :
          \/ x.page = parsed.pages[k].number
          \/ x.page = 0 /\ parsed.pages[k].number \in Invented(recovered')
  <2>1. Readable(reading)
    BY <1>1, <1>4, ReadingIsReadable
  <2> TAKE k \in DOMAIN parsed.pages
  <2> HAVE Recovered(k)
  <2>2. /\ Max(same(k)) \in DOMAIN ToParsed(reading).pages
        /\ ToParsed(reading).pages[Max(same(k))].number = parsed.pages[k].number
    <3>1. same(k) # {} /\ same(k) \subseteq DOMAIN ToParsed(reading).pages
      OBVIOUS
    <3>2. Max(same(k)) \in same(k)
      <4> HIDE DEF same
      <4> QED BY <2>1, <3>1, LastOfSome
    <3> QED BY <3>2
  <2> HIDE DEF same, Recovered
  <2> QED BY <1>2, <2>1, <2>2, ReadOnItsPage
<1> HIDE DEF same, Recovered
<1>6. /\ parsed' = [pages |-> parsed'.pages, sourced |-> Base.sourced]
      /\ parsed'.pages = [k \in DOMAIN parsed.pages |->
           IF Recovered(k)
           THEN [parsed.pages[k] EXCEPT
                   !.text = ToParsed(reading).pages[Max(same(k))].text]
           ELSE parsed.pages[k]]
      /\ DOMAIN parsed.pages = DOMAIN Base.pages
  <2>1. /\ parsed = [pages |-> parsed.pages, sourced |-> Base.sourced]
        /\ DOMAIN parsed.pages = DOMAIN Base.pages
    BY <1>1 DEF SamePages
  <2>2. parsed' = [pages |-> [k \in DOMAIN parsed.pages |->
           IF Recovered(k)
           THEN [parsed.pages[k] EXCEPT
                   !.text = ToParsed(reading).pages[Max(same(k))].text]
           ELSE parsed.pages[k]], sourced |-> Base.sourced]
    BY <1>3, <2>1, PagesReplaced
  <2> QED BY <2>1, <2>2
<1>7. \A k \in DOMAIN Base.pages :
        parsed'.pages[k] =
          IF Recovered(k)
          THEN [parsed.pages[k] EXCEPT
                  !.text = ToParsed(reading).pages[Max(same(k))].text]
          ELSE parsed.pages[k]
  BY <1>6
<1>8. \A k \in DOMAIN Base.pages :
        parsed.pages[k] = Page(Base.pages[k].number, parsed.pages[k].text,
                               Base.pages[k].figures, Base.pages[k].sourced)
  BY <1>1 DEF SamePages
<1>9. \A k \in DOMAIN Base.pages :
        /\ parsed'.pages[k] = Page(Base.pages[k].number, parsed'.pages[k].text,
                                   Base.pages[k].figures, Base.pages[k].sourced)
        /\ TextOnPage(parsed'.pages[k], recovered')
  <2> TAKE k \in DOMAIN Base.pages
  <2>1. CASE Recovered(k)
    <3>1. parsed'.pages[k]
            = Page(Base.pages[k].number,
                   ToParsed(reading).pages[Max(same(k))].text,
                   Base.pages[k].figures, Base.pages[k].sourced)
      BY <1>7, <1>8, <2>1, TextReplaced
    <3>2. parsed.pages[k].number = Base.pages[k].number
      BY <1>8, PageParts
    <3>3. \A x \in ToParsed(reading).pages[Max(same(k))].text :
            \/ x.page = Base.pages[k].number
            \/ x.page = 0 /\ Base.pages[k].number \in Invented(recovered')
      BY <1>5, <1>6, <2>1, <3>2
    <3>4. /\ parsed'.pages[k].number = Base.pages[k].number
          /\ parsed'.pages[k].text = ToParsed(reading).pages[Max(same(k))].text
      BY <3>1 DEF Page
    <3> QED BY <3>1, <3>3, <3>4 DEF TextOnPage
  <2>2. CASE ~Recovered(k)
    <3>1. parsed'.pages[k] = parsed.pages[k]
          /\ TextOnPage(parsed.pages[k], recovered)
      BY <1>1, <1>6, <1>7, <2>2
    <3>2. Invented(recovered) = {}
      BY <1>1 DEF NoParse, Document, Invented
    <3> QED BY <1>8, <3>1, <3>2 DEF TextOnPage
  <2> QED BY <2>1, <2>2
<1>10. Base' = Base
  BY <1>1 DEF Base
<1>11. SamePages'
  BY <1>1, <1>6, <1>9, <1>10 DEF SamePages
<1> QED BY <1>1, <1>6, <1>9, <1>10, <1>11 DEF RecoveryInv, SparseOf

LEMMA FallbackKeeps ==
  ASSUME RecoveryInv, Fallback
  PROVE  RecoveryInv'
<1>1. /\ phase = "fallback" /\ phase' = "classify" /\ report \in Reports
      /\ SamePages /\ sparse = SparseOf(Base) /\ inventory = {}
      /\ \A k \in DOMAIN parsed.pages : TextOnPage(parsed.pages[k], recovered)
      /\ UNCHANGED <<report, sparse, recovered, inventory>>
  BY DEF Fallback, RecoveryInv
<1>2. \A k \in DOMAIN Base.pages :
        parsed.pages[k] = Page(Base.pages[k].number, parsed.pages[k].text,
                               Base.pages[k].figures, Base.pages[k].sourced)
  BY <1>1 DEF SamePages
<1>3. DOMAIN parsed.pages = DOMAIN Base.pages
  BY <1>1 DEF SamePages
<1>4. parsed' = [parsed EXCEPT !.pages = [k \in DOMAIN Base.pages |->
         IF \/ parsed.pages[k].figures # {} \/ parsed.pages[k].number \notin sparse
            \/ ~parsed.pages[k].sourced
         THEN parsed.pages[k]
         ELSE [parsed.pages[k] EXCEPT
                 !.figures = {WholePage(parsed.pages[k].number, report.sized)}]]]
  BY <1>3 DEF Fallback, AddPageFallbacks, WithPages
<1> DEFINE After(g) ==
             IF g.figures # {} \/ g.number \notin sparse \/ ~g.sourced
             THEN g
             ELSE [g EXCEPT !.figures = {WholePage(g.number, report.sized)}]
<1>5. /\ parsed' = [pages |-> parsed'.pages, sourced |-> Base.sourced]
      /\ parsed'.pages = [k \in DOMAIN Base.pages |-> After(parsed.pages[k])]
  <2>1. parsed = [pages |-> parsed.pages, sourced |-> Base.sourced]
    BY <1>1 DEF SamePages
  <2>2. parsed' = [parsed EXCEPT !.pages =
                     [k \in DOMAIN Base.pages |-> After(parsed.pages[k])]]
    BY <1>4
  <2> HIDE DEF After
  <2>3. parsed' = [pages |-> [k \in DOMAIN Base.pages |-> After(parsed.pages[k])],
                   sourced |-> Base.sourced]
    BY <2>1, <2>2, PagesReplaced
  <2> QED BY <2>3
<1>6. \A k \in DOMAIN Base.pages :
        parsed'.pages[k] = Page(Base.pages[k].number, parsed.pages[k].text,
                                Filled(Base.pages[k]), Base.pages[k].sourced)
  <2> TAKE k \in DOMAIN Base.pages
  <2> DEFINE g == parsed.pages[k]
  <2>1. parsed'.pages[k]
          = IF g.figures # {} \/ g.number \notin sparse \/ ~g.sourced
            THEN g ELSE [g EXCEPT !.figures = {WholePage(g.number, report.sized)}]
    BY <1>5
  <2>2. g = Page(Base.pages[k].number, g.text, Base.pages[k].figures,
                 Base.pages[k].sourced)
    BY <1>2
  <2> HIDE DEF g
  <2>3. [g EXCEPT !.figures = {WholePage(g.number, report.sized)}]
          = Page(Base.pages[k].number, g.text,
                 {WholePage(g.number, report.sized)}, Base.pages[k].sourced)
    BY <2>2, FiguresReplaced
  <2>4. /\ g.number = Base.pages[k].number /\ g.figures = Base.pages[k].figures
        /\ g.sourced = Base.pages[k].sourced
    BY <2>2 DEF Page
  <2>5. parsed'.pages[k] = Page(Base.pages[k].number, g.text,
                                Filled(Base.pages[k]), Base.pages[k].sourced)
    BY <2>1, <2>2, <2>3, <2>4 DEF Filled
  <2> QED BY <2>5 DEF g
<1>7. \A k \in DOMAIN Base.pages :
        /\ parsed'.pages[k].text = parsed.pages[k].text
        /\ TextOnPage(parsed'.pages[k], recovered')
  <2> TAKE k \in DOMAIN Base.pages
  <2>1. /\ parsed'.pages[k].text = parsed.pages[k].text
        /\ parsed'.pages[k].number = Base.pages[k].number
        /\ parsed'.pages[k].sourced = Base.pages[k].sourced
    BY <1>6, PageParts
  <2>2. /\ parsed.pages[k].number = Base.pages[k].number
        /\ parsed.pages[k].sourced = Base.pages[k].sourced
    BY <1>2, PageParts
  <2>3. TextOnPage(parsed.pages[k], recovered)
    BY <1>1, <1>3
  <2> QED BY <1>1, <2>1, <2>2, <2>3 DEF TextOnPage
<1>8. Base' = Base /\ \A k \in DOMAIN Base.pages :
                         Filled(Base.pages[k])' = Filled(Base.pages[k])
  BY <1>1 DEF Base, Filled
<1>9. SamePages'
  BY <1>1, <1>5, <1>6, <1>7, <1>8 DEF SamePages
<1> QED BY <1>1, <1>5, <1>7, <1>8, <1>9 DEF RecoveryInv, SparseOf

LEMMA InventoryKeeps ==
  ASSUME RecoveryInv, Inventory
  PROVE  RecoveryInv'
<1>1. /\ phase = "classify" /\ UNCHANGED <<report, parsed, sparse, recovered>>
      /\ \/ phase' = "DOCUMENT_PARSE_FAILED" /\ UNCHANGED inventory
         \/ phase' = "inventoried" /\ inventory' = Candidates(parsed)
  BY DEF Inventory, Candidates
<1>2. SamePages => SamePages'
  BY <1>1 DEF SamePages, Filled, Base
<1> QED BY <1>1, <1>2 DEF RecoveryInv, Base, TextOnPage, Candidates

LEMMA RecoveryNext == RecoveryInv /\ [Next]_vars => RecoveryInv'
<1> SUFFICES ASSUME RecoveryInv, [Next]_vars PROVE RecoveryInv'
  OBVIOUS
<1>1. CASE UNCHANGED vars
  <2>1. UNCHANGED <<report, parsed, sparse, recovered, inventory, phase>>
    BY <1>1 DEF vars
  <2>2. SamePages => SamePages'
    BY <2>1 DEF SamePages, Filled, Base
  <2> QED BY <2>1, <2>2 DEF RecoveryInv, Base, TextOnPage, Candidates
<1> QED BY <1>1, ConvertKeeps, FailureKeeps, RecoverKeeps, FallbackKeeps,
           InventoryKeeps DEF Next

LEMMA RecoveryAlways == Spec => []RecoveryInv
BY RecoveryStarts, RecoveryNext, PTL DEF Spec

-----------------------------------------------------------------------------
(* What the inventory offers                                               *)

\* The page a region belongs on, and the region as it is offered.
Home(d, x) == IF x.page = 0 THEN Last1(PageNumbers(d)) + 1 ELSE x.page
Offered(x) ==
  IF x.page = 0 THEN [Detected(x) EXCEPT !.box = "none"] ELSE Detected(x)

LEMMA OfferedParts ==
  ASSUME NEW x
  PROVE  Offered(x).item = {x} /\ Offered(x).origin = "detected"
BY DEF Offered, Detected

\* A region has a page of the source, or the one past the last.
LEMMA HomeBounds ==
  ASSUME NEW d, Readable(d), NEW x \in Regions(d.items)
  PROVE  /\ x.page \in Nat
         /\ x.page # 0 => x.page \in PageNumbers(d)
         /\ x.page = 0 => HasUnplaced(d)
<1>1. x \in d.items /\ x.page \in Nat
  BY DEF Regions, Readable
<1>2. x.page # 0 => x.page \in PageNumbers(d)
  BY <1>1 DEF PageNumbers
<1>3. x.page = 0 => HasUnplaced(d)
  BY DEF HasUnplaced, On
<1> QED BY <1>1, <1>2, <1>3

\* The regions of a page are those that belong on it.
LEMMA FiguresOfPage ==
  ASSUME NEW d, Readable(d), NEW g, SourcePage(d, g) \/ SyntheticPage(d, g)
  PROVE  g.figures = {Offered(x) : x \in {y \in Regions(d.items) : Home(d, y) = g.number}}
<1> DEFINE last == Last1(PageNumbers(d))
<1>1. last \in Nat /\ \A n \in PageNumbers(d) : n \in Nat /\ n # 0 /\ n <= last
  BY NumbersBounded
<1> HIDE DEF last
<1>2. CASE SourcePage(d, g)
  <2>1. g.number \in PageNumbers(d)
    BY <1>2 DEF SourcePage
  <2>2. g.figures = {Detected(x) : x \in On(Regions(d.items), g.number)}
    BY <1>2 DEF SourcePage, Page
  <2>3. \A x \in Regions(d.items) : x.page = g.number <=> Home(d, x) = g.number
    BY <1>1, <2>1 DEF Home, last
  <2>4. \A x : x.page = g.number => Offered(x) = Detected(x)
    BY <1>1, <2>1 DEF Offered
  <2>5. On(Regions(d.items), g.number)
          = {y \in Regions(d.items) : Home(d, y) = g.number}
    BY <2>3 DEF On
  <2>6. \A x \in On(Regions(d.items), g.number) : Offered(x) = Detected(x)
    BY <2>4 DEF On
  <2> QED BY <2>2, <2>5, <2>6
<1>3. CASE SyntheticPage(d, g)
  <2>1. g.number = last + 1
    BY <1>3 DEF SyntheticPage, Unplaced, Page, last
  <2>2. g.figures = {[Detected(x) EXCEPT !.box = "none"] : x \in On(Regions(d.items), 0)}
    BY <1>3 DEF SyntheticPage, Unplaced, Page
  <2>3. \A x \in Regions(d.items) : x.page = 0 <=> Home(d, x) = g.number
    BY <1>1, <2>1, HomeBounds DEF Home, last
  <2>4. On(Regions(d.items), 0) = {y \in Regions(d.items) : Home(d, y) = g.number}
    BY <2>3 DEF On
  <2>5. \A x \in On(Regions(d.items), 0) :
          Offered(x) = [Detected(x) EXCEPT !.box = "none"]
    BY DEF On, Offered
  <2> QED BY <2>2, <2>4, <2>5
<1> QED BY <1>2, <1>3

\* Every region has its page in the document.
LEMMA HomeExists ==
  ASSUME NEW d, Readable(d), NEW p, ShapeOf(d, p), NEW x \in Regions(d.items)
  PROVE  \E k \in DOMAIN p.pages : p.pages[k].number = Home(d, x)
<1>1. CASE x.page = 0
  <2>1. PICK k \in DOMAIN p.pages : SyntheticPage(d, p.pages[k])
    BY <1>1, HomeBounds DEF ShapeOf
  <2>2. p.pages[k].number = Home(d, x)
    BY <1>1, <2>1 DEF SyntheticPage, Unplaced, Page, Home
  <2> QED BY <2>2
<1>2. CASE x.page # 0
  BY <1>2, HomeBounds DEF ShapeOf, Home
<1> QED BY <1>1, <1>2

\* The candidates are the regions of the first conversion and the whole
\* pages of the fallbacks, each on the page it was found on.
LEMMA InventoryTells ==
  ASSUME RecoveryInv, phase = "inventoried"
  PROVE  /\ Readable(report) /\ ShapeOf(report, Base) /\ sparse = SparseOf(Base)
         /\ DOMAIN parsed.pages = DOMAIN Base.pages
         /\ \A k \in DOMAIN Base.pages :
              /\ parsed.pages[k].number = Base.pages[k].number
              /\ parsed.pages[k].sourced = Base.pages[k].sourced
              /\ parsed.pages[k].figures = Filled(Base.pages[k])
         /\ \A c : c \in inventory <=>
              \E k \in DOMAIN Base.pages : \E f \in Filled(Base.pages[k]) :
                c = [page |-> Base.pages[k].number, figure |-> f]
<1>1. report \in Reports /\ SamePages /\ sparse = SparseOf(Base)
      /\ inventory = Candidates(parsed)
  BY DEF RecoveryInv
<1>2. Readable(report) /\ ShapeOf(report, Base)
  BY <1>1, BaseShape
<1>3. DOMAIN parsed.pages = DOMAIN Base.pages
  BY <1>1 DEF SamePages
<1>4. \A k \in DOMAIN Base.pages :
        parsed.pages[k] = Page(Base.pages[k].number, parsed.pages[k].text,
                               Filled(Base.pages[k]), Base.pages[k].sourced)
  BY <1>1 DEF SamePages
<1>5. \A k \in DOMAIN Base.pages :
        /\ parsed.pages[k].number = Base.pages[k].number
        /\ parsed.pages[k].sourced = Base.pages[k].sourced
        /\ parsed.pages[k].figures = Filled(Base.pages[k])
  BY <1>4, PageParts
<1>6. inventory = UNION {{[page |-> Base.pages[k].number, figure |-> f] :
                            f \in Filled(Base.pages[k])} : k \in DOMAIN Base.pages}
  BY <1>1, <1>3, <1>5 DEF Candidates
<1> QED BY <1>1, <1>2, <1>3, <1>5, <1>6

\* What a page offers: its regions, or the whole page.
LEMMA FilledTells ==
  ASSUME report \in Reports, NEW k \in DOMAIN Base.pages, NEW f \in Filled(Base.pages[k])
  PROVE  LET g == Base.pages[k]
         IN  \/ \E x \in Regions(report.items) :
                   Home(report, x) = g.number /\ f = Offered(x)
             \/ /\ f = WholePage(g.number, report.sized)
                /\ g.figures = {} /\ g.number \in sparse /\ g.sourced
<1> DEFINE g == Base.pages[k]
<1>1. Readable(report) /\ (SourcePage(report, g) \/ SyntheticPage(report, g))
  BY BaseShape DEF ShapeOf
<1>2. g.figures = {Offered(x) : x \in {y \in Regions(report.items) :
                                        Home(report, y) = g.number}}
  BY <1>1, FiguresOfPage
<1> QED BY <1>2 DEF Filled

(* What can be cited as the text of a page was read on that page, however  *)
(* the page numbers of the two passes of parse skip, unless the OCR pass   *)
(* gave the page's number to text that has none.                           *)
THEOREM TextsStay == Spec => []TextStaysOnItsPage
<1>1. RecoveryInv => TextStaysOnItsPage
  BY DEF RecoveryInv, TextOnPage, TextStaysOnItsPage
<1> QED BY <1>1, RecoveryAlways, PTL

(* No region the first conversion found is lost, doubled or moved by       *)
(* merge_ocr_text, add_page_fallbacks or build_inventory.                  *)
THEOREM NoRegionIsLost == Spec => []RegionsSurvive
<1>1. RecoveryInv => RegionsSurvive
  <2> SUFFICES ASSUME RecoveryInv, phase = "inventoried",
                      NEW x \in Regions(report.items)
               PROVE  LET c == {d \in inventory : x \in d.figure.item} IN
                      /\ Cardinality(c) = 1
                      /\ \A d \in c : IF x.page = 0
                                      THEN d.page > Last1(PageNumbers(report))
                                      ELSE d.page = x.page
    BY DEF RegionsSurvive
  <2> DEFINE home == [page |-> Home(report, x), figure |-> Offered(x)]
  <2>1. /\ report \in Reports /\ Readable(report) /\ ShapeOf(report, Base)
        /\ \A c : c \in inventory <=>
              \E k \in DOMAIN Base.pages : \E f \in Filled(Base.pages[k]) :
                c = [page |-> Base.pages[k].number, figure |-> f]
    BY InventoryTells DEF RecoveryInv
  <2>2. home \in inventory
    <3>1. PICK k \in DOMAIN Base.pages : Base.pages[k].number = Home(report, x)
      BY <2>1, HomeExists
    <3>2. SourcePage(report, Base.pages[k]) \/ SyntheticPage(report, Base.pages[k])
      BY <2>1 DEF ShapeOf
    <3>3. Offered(x) \in Base.pages[k].figures
      BY <2>1, <3>1, <3>2, FiguresOfPage
    <3>4. Offered(x) \in Filled(Base.pages[k])
      BY <3>3 DEF Filled
    <3> QED BY <2>1, <3>1, <3>4
  <2>3. x \in home.figure.item
    BY OfferedParts
  <2>4. ASSUME NEW d \in inventory, x \in d.figure.item PROVE d = home
    <3>1. PICK k \in DOMAIN Base.pages : \E f \in Filled(Base.pages[k]) :
            d = [page |-> Base.pages[k].number, figure |-> f]
      BY <2>1
    <3>2. PICK f \in Filled(Base.pages[k]) :
            d = [page |-> Base.pages[k].number, figure |-> f]
      BY <3>1
    <3>3. x \in f.item
      BY <2>4, <3>2
    <3>4. PICK y \in Regions(report.items) :
            Home(report, y) = Base.pages[k].number /\ f = Offered(y)
      BY <2>1, <3>3, FilledTells DEF WholePage
    <3>5. y = x
      BY <3>3, <3>4, OfferedParts
    <3> QED BY <3>2, <3>4, <3>5
  <2>5. {d \in inventory : x \in d.figure.item} = {home}
    BY <2>2, <2>3, <2>4
  <2>6. IF x.page = 0 THEN home.page > Last1(PageNumbers(report))
        ELSE home.page = x.page
    BY <2>1, NumbersBounded DEF Home
  <2> HIDE DEF home
  <2>7. Cardinality({home}) = 1
    BY FS_Singleton
  <2> QED BY <2>5, <2>6, <2>7
<1> QED BY <1>1, RecoveryAlways, PTL

(* evidence_for cites only pages the source has: the synthetic page of     *)
(* to_parsed_document never passes for one of them.                        *)
THEOREM CitationsAreTrue == Spec => []EvidenceCitesTheSource
<1>1. RecoveryInv => EvidenceCitesTheSource
  <2> SUFFICES ASSUME RecoveryInv, NEW c \in inventory, Citable(c)
               PROVE  report.format = "pdf" /\ c.page \in PageNumbers(report)
    BY DEF EvidenceCitesTheSource
  <2>1. phase = "inventoried"
    BY DEF RecoveryInv
  <2>2. /\ Readable(report) /\ ShapeOf(report, Base)
        /\ DOMAIN parsed.pages = DOMAIN Base.pages
        /\ \A k \in DOMAIN Base.pages :
             /\ parsed.pages[k].number = Base.pages[k].number
             /\ parsed.pages[k].sourced = Base.pages[k].sourced
    BY <2>1, InventoryTells
  <2>3. PICK k \in DOMAIN Base.pages : c.page = Base.pages[k].number
    <3>1. \E k \in DOMAIN Base.pages : \E f \in Filled(Base.pages[k]) :
            c = [page |-> Base.pages[k].number, figure |-> f]
      BY <2>1, InventoryTells
    <3> QED BY <3>1
  <2>4. \A j \in DOMAIN parsed.pages : parsed.pages[j].number = c.page <=> j = k
    BY <2>2, <2>3 DEF ShapeOf
  <2>5. k \in Int
    BY <2>2 DEF ShapeOf
  <2>6. PageOf(c) = k
    <3>1. /\ k \in DOMAIN parsed.pages /\ parsed.pages[k].number = c.page
          /\ \A j \in DOMAIN parsed.pages : parsed.pages[j].number = c.page => k <= j
      BY <2>2, <2>4, <2>5
    <3> QED BY <2>4, <3>1 DEF PageOf
  <2>7. Base.pages[k].sourced
    BY <2>2, <2>6 DEF Citable
  <2>8. SourcePage(report, Base.pages[k])
    BY <2>2, <2>7 DEF ShapeOf, SyntheticPage, Unplaced, Page
  <2>9. Base.pages[k].sourced = (report.format = "pdf")
    BY <2>8 DEF SourcePage, Page
  <2> QED BY <2>3, <2>7, <2>8, <2>9 DEF SourcePage
<1> QED BY <1>1, RecoveryAlways, PTL

(* add_page_fallbacks offers a whole sheet exactly where the first pass    *)
(* found neither region nor text, whatever OCR made of that sheet.         *)
THEOREM EmptySheetsAreOffered == Spec => []EmptySheetsOffered
<1>1. RecoveryInv => EmptySheetsOffered
  <2> SUFFICES ASSUME RecoveryInv, phase = "inventoried"
               PROVE  /\ OfferedWhole \subseteq EmptySheets
                      /\ report.format = "pdf" /\ ~HasUnplaced(report) =>
                           EmptySheets \subseteq OfferedWhole
    BY DEF EmptySheetsOffered
  <2>1. /\ report \in Reports /\ Readable(report) /\ ShapeOf(report, Base)
        /\ sparse = SparseOf(Base)
        /\ \A c : c \in inventory <=>
              \E k \in DOMAIN Base.pages : \E f \in Filled(Base.pages[k]) :
                c = [page |-> Base.pages[k].number, figure |-> f]
    BY InventoryTells DEF RecoveryInv
  <2>2. \A k \in DOMAIN Base.pages : SourcePage(report, Base.pages[k]) =>
          /\ Base.pages[k].text = On(Texts(report.items), Base.pages[k].number)
          /\ Base.pages[k].figures = {} <=>
               On(Regions(report.items), Base.pages[k].number) = {}
          /\ Base.pages[k].sourced = (report.format = "pdf")
          /\ Base.pages[k].number \in PageNumbers(report)
    <3> SUFFICES ASSUME NEW k \in DOMAIN Base.pages, SourcePage(report, Base.pages[k])
                 PROVE  /\ Base.pages[k].text = On(Texts(report.items), Base.pages[k].number)
                        /\ Base.pages[k].figures = {} <=>
                             On(Regions(report.items), Base.pages[k].number) = {}
                        /\ Base.pages[k].sourced = (report.format = "pdf")
                        /\ Base.pages[k].number \in PageNumbers(report)
      OBVIOUS
    <3>1. Base.pages[k].figures
            = {Detected(x) : x \in On(Regions(report.items), Base.pages[k].number)}
      BY DEF SourcePage, Page
    <3>2. /\ Base.pages[k].text = On(Texts(report.items), Base.pages[k].number)
          /\ Base.pages[k].sourced = (report.format = "pdf")
          /\ Base.pages[k].number \in PageNumbers(report)
      BY DEF SourcePage, Page
    <3> QED BY <3>1, <3>2
  <2>3. OfferedWhole \subseteq EmptySheets
    <3> SUFFICES ASSUME NEW c \in inventory, c.figure.origin = "page_fallback"
                 PROVE  c.page \in EmptySheets
      BY DEF OfferedWhole
    <3>1. PICK k \in DOMAIN Base.pages : \E f \in Filled(Base.pages[k]) :
            c = [page |-> Base.pages[k].number, figure |-> f]
      BY <2>1
    <3> DEFINE g == Base.pages[k]
    <3>2. g.figures = {} /\ g.number \in sparse /\ g.sourced
      <4>1. PICK f \in Filled(g) : c = [page |-> g.number, figure |-> f]
        BY <3>1
      <4>2. f.origin = "page_fallback"
        BY <4>1
      <4>3. ~\E x \in Regions(report.items) :
               Home(report, x) = g.number /\ f = Offered(x)
        BY <4>2, OfferedParts
      <4> HIDE DEF g
      <4>4. g = Base.pages[k]
        BY DEF g
      <4> QED BY <2>1, <4>1, <4>3, <4>4, FilledTells
    <3>3. SourcePage(report, g)
      BY <2>1, <3>2 DEF ShapeOf, SyntheticPage, Unplaced, Page
    <3>4. PICK j \in DOMAIN Base.pages :
            g.number = Base.pages[j].number /\ Length(Base.pages[j].text) < SparseTextChars
      BY <2>1, <3>2 DEF SparseOf, SparsePages
    <3>5. j = k
      BY <2>1, <3>4 DEF ShapeOf
    <3>6. c.page = g.number
      BY <3>1
    <3> QED BY <2>2, <3>2, <3>3, <3>4, <3>5, <3>6 DEF EmptySheets
  <2>4. ASSUME report.format = "pdf", ~HasUnplaced(report), NEW n \in EmptySheets
        PROVE  n \in OfferedWhole
    <3>1. PICK k \in DOMAIN Base.pages : Base.pages[k].number = n
      BY <2>1 DEF ShapeOf, EmptySheets
    <3>2. \A j \in DOMAIN Base.pages : SourcePage(report, Base.pages[j])
      BY <2>1, <2>4 DEF ShapeOf, SyntheticPage
    <3>3. \A j \in DOMAIN Base.pages : Base.pages[j].sourced
      BY <2>2, <2>4, <3>2
    <3>4. Base.sourced
      BY <2>1, <3>3 DEF ShapeOf
    <3>5. Base.pages[k].figures = {} /\ Length(Base.pages[k].text) < SparseTextChars
      BY <2>2, <3>1, <3>2 DEF EmptySheets
    <3>6. n \in sparse
      BY <2>1, <3>1, <3>4, <3>5 DEF SparseOf, SparsePages
    <3>7. WholePage(n, report.sized) \in Filled(Base.pages[k])
      BY <3>1, <3>3, <3>5, <3>6 DEF Filled
    <3>8. [page |-> n, figure |-> WholePage(n, report.sized)] \in inventory
      BY <2>1, <3>1, <3>7
    <3>9. WholePage(n, report.sized).origin = "page_fallback"
      BY DEF WholePage
    <3> QED BY <3>8, <3>9 DEF OfferedWhole
  <2> QED BY <2>3, <2>4
<1> QED BY <1>1, RecoveryAlways, PTL

=============================================================================
