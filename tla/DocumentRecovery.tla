--------------------------- MODULE DocumentRecovery ---------------------------
(***************************************************************************)
(* From a stored report to the regions that may be sent to a vision model: *)
(* DoclingDocumentParser.parse (document/docling_adapter.py) and           *)
(* build_inventory (document/inventory.py), over any small report.         *)
(*                                                                         *)
(* A report is what the converter hands over: the pages it lists and the   *)
(* items it found.  An item is a text or a region; its page is 0 when it   *)
(* has no page provenance.  The text of a page is the set of its texts,    *)
(* and only its length is looked at.  Captions, types and scores of the    *)
(* regions are left out, boxes are a located one, the whole page or none.  *)
(***************************************************************************)
EXTENDS Integers, Sequences, FiniteSets, FiniteSetsExt, SequencesExt

CONSTANTS
  Reports,          \* [format, pages, sized, items]: what convert may return
  ReadingsOf(_),    \* what the OCR pass over a range of pages may return
  SparseTextChars,  \* SPARSE_TEXT_CHARS
  MaxPages          \* policy.limits.max_pages

\* A number of the converter below 1 is none; what it lists is finite.
Readable(r) ==
  /\ r.format \in {"pdf", "docx"}
  /\ r.pages \subseteq Int /\ IsFiniteSet(r.pages)
  /\ r.sized \subseteq r.pages
  /\ IsFiniteSet(r.items) /\ \A x \in r.items : x.page \in Nat

ASSUME RecoveryAssumption ==
  /\ SparseTextChars \in Nat /\ MaxPages \in Nat \ {0}
  /\ \A r \in Reports : Readable(r)

VARIABLES
  report,     \* the document, as the first conversion reads it
  parsed,     \* the ParsedDocument so far
  sparse,     \* page numbers parse holds as sparse
  recovered,  \* what the OCR pass was normalized to, if it came to that
  inventory,  \* the candidates of the DocumentInventory
  phase       \* where parse or build_inventory is

vars == <<report, parsed, sparse, recovered, inventory, phase>>

----------------------------------------------------------------------------
(* to_parsed_document                                                      *)

Texts(items) == {x \in items : x.kind = "text" /\ x.chars > 0}
Regions(items) == {x \in items : x.kind # "text"}
On(items, n) == {x \in items : x.page = n}

\* Texts of a page are joined by a newline.
Length(texts) ==
  MapThenSumSet(LAMBDA x : x.chars, texts)
    + (IF texts = {} THEN 0 ELSE Cardinality(texts) - 1)

Detected(x) == [item |-> {x}, origin |-> "detected", box |-> x.box]
Page(n, texts, figures, sourced) ==
  [number |-> n, text |-> texts, figures |-> figures, sourced |-> sourced]

PageNumbers(d) ==
  {n \in d.pages \cup {x.page : x \in Texts(d.items) \cup Regions(d.items)} :
     n >= 1}

\* An OCR pass may skip any page of the range it was asked for.
ASSUME ReadingAssumption ==
  \A a, b \in UNION {PageNumbers(r) : r \in Reports} :
    \A reading \in ReadingsOf(a..b) : Readable(reading)

\* sorted(...), of a set of numbers.
Ascending(S) ==
  CHOOSE s \in SetToSeqs(S) : \A i, j \in DOMAIN s : i < j => s[i] < s[j]

Placed(d) ==
  LET numbers == Ascending(PageNumbers(d))
  IN  [k \in DOMAIN numbers |->
         Page(numbers[k], On(Texts(d.items), numbers[k]),
              {Detected(x) : x \in On(Regions(d.items), numbers[k])},
              d.format = "pdf")]

\* An unplaced region has no box of its own.
Unplaced(d, n, sourced) ==
  Page(n, On(Texts(d.items), 0),
       {[Detected(x) EXCEPT !.box = "none"] : x \in On(Regions(d.items), 0)},
       sourced)

HasUnplaced(d) == On(Texts(d.items) \cup Regions(d.items), 0) # {}
Last1(numbers) == IF numbers = {} THEN 0 ELSE Max(numbers)

Document(pages) ==
  [pages |-> pages, sourced |-> \A k \in DOMAIN pages : pages[k].sourced]

\* mutant: the synthetic page counts as one of the source's
ToParsedAsSource(d) ==
  Document(Placed(d) \o
    (IF HasUnplaced(d)
     THEN <<Unplaced(d, Last1(PageNumbers(d)) + 1, d.format = "pdf")>>
     ELSE <<>>))

\* What has no page goes to a synthetic one after the last.
ToParsed(d) ==
  Document(Placed(d) \o
    (IF HasUnplaced(d)
     THEN <<Unplaced(d, Last1(PageNumbers(d)) + 1, FALSE)>> ELSE <<>>))

SparsePages(p) ==
  {p.pages[k].number :
     k \in {j \in DOMAIN p.pages : Length(p.pages[j].text) < SparseTextChars}}

WithPages(p, f(_)) == [p EXCEPT !.pages = [k \in DOMAIN @ |-> f(@[k])]]

(* merge_ocr_text                                                          *)

\* mutant: the k-th page of the reading belongs to the k-th page of the base
MergeByPosition(base, reading, wanted) ==
  [base EXCEPT !.pages = [k \in DOMAIN @ |->
     IF @[k].number \in wanted /\ k \in DOMAIN reading.pages
     THEN [@[k] EXCEPT !.text = reading.pages[k].text] ELSE @[k]]]

\* mutant: text and regions both come from the reading
MergeRegionsToo(base, reading, wanted) ==
  WithPages(base, LAMBDA page :
    LET same == {k \in DOMAIN reading.pages :
                   reading.pages[k].number = page.number}
    IN  IF page.number \in wanted /\ same # {}
        THEN reading.pages[Max(same)] ELSE page)

\* The dictionary keeps the last page of a number; regions stay the base's.
MergeOcrText(base, reading, wanted) ==
  WithPages(base, LAMBDA page :
    LET same == {k \in DOMAIN reading.pages :
                   reading.pages[k].number = page.number}
    IN  IF page.number \in wanted /\ same # {}
        THEN [page EXCEPT !.text = reading.pages[Max(same)].text] ELSE page)

(* add_page_fallbacks                                                      *)

WholePage(n, sized) ==
  [item |-> {}, origin |-> "page_fallback",
   box |-> IF n \in sized THEN "page" ELSE "none"]

\* mutant: sparseness is asked again of the text that OCR recovered
AddWhereStillSparse(p, wanted, sized) ==
  WithPages(p, LAMBDA page :
    IF page.figures # {} \/ page.number \notin SparsePages(p) \/ ~page.sourced
    THEN page
    ELSE [page EXCEPT !.figures = {WholePage(page.number, sized)}])

AddPageFallbacks(p, wanted, sized) ==
  WithPages(p, LAMBDA page :
    IF page.figures # {} \/ page.number \notin wanted \/ ~page.sourced
    THEN page
    ELSE [page EXCEPT !.figures = {WholePage(page.number, sized)}])

----------------------------------------------------------------------------
NoParse == Document(<<>>)

Init ==
  /\ report \in Reports
  /\ parsed = NoParse /\ sparse = {} /\ recovered = NoParse /\ inventory = {}
  /\ phase = "convert"

ConversionFails ==
  /\ phase = "convert"
  /\ phase' = "DOCUMENT_PARSE_FAILED"
  /\ UNCHANGED <<report, parsed, sparse, recovered, inventory>>

\* The limit counts normalized pages, the synthetic one among them.
Convert ==
  /\ phase = "convert"
  /\ LET p == ToParsed(report) IN
     IF Len(p.pages) > MaxPages
     THEN /\ phase' = "DOCUMENT_PAGE_LIMIT_EXCEEDED"
          /\ UNCHANGED <<parsed, sparse>>
     ELSE /\ parsed' = p
          /\ sparse' = IF p.sourced THEN SparsePages(p) ELSE {}
          /\ phase' = IF ~p.sourced THEN "classify"
                      ELSE IF sparse' = {} THEN "fallback" ELSE "recover"
  /\ UNCHANGED <<report, recovered, inventory>>

\* _recover: one span from the first sparse page to the last.
RecoveryFails ==
  /\ phase = "recover"
  /\ phase' = "fallback"
  /\ UNCHANGED <<report, parsed, sparse, recovered, inventory>>

Recover ==
  /\ phase = "recover"
  /\ \E reading \in ReadingsOf(Min(sparse)..Max(sparse)) :
       /\ recovered' = ToParsed(reading)
       /\ parsed' = MergeOcrText(parsed, recovered', sparse)
  /\ phase' = "fallback"
  /\ UNCHANGED <<report, sparse, inventory>>

Fallback ==
  /\ phase = "fallback"
  /\ parsed' = AddPageFallbacks(parsed, sparse, report.sized)
  /\ phase' = "classify"
  /\ UNCHANGED <<report, sparse, recovered, inventory>>

\* build_inventory: one candidate for each region, and the two paginations
\* must agree.
Inventory ==
  /\ phase = "classify"
  /\ IF parsed.sourced # (\A k \in DOMAIN parsed.pages : parsed.pages[k].sourced)
     THEN phase' = "DOCUMENT_PARSE_FAILED" /\ UNCHANGED inventory
     ELSE /\ phase' = "inventoried"
          /\ inventory' = UNION {{[page |-> parsed.pages[k].number, figure |-> f] :
                                    f \in parsed.pages[k].figures}
                                 : k \in DOMAIN parsed.pages}
  /\ UNCHANGED <<report, parsed, sparse, recovered>>

Finished == phase \in {"inventoried", "DOCUMENT_PARSE_FAILED",
                       "DOCUMENT_PAGE_LIMIT_EXCEEDED"}

Next ==
  \/ Convert \/ ConversionFails \/ Recover \/ RecoveryFails
  \/ Fallback \/ Inventory
  \/ Finished /\ UNCHANGED vars

Spec == Init /\ [][Next]_vars

----------------------------------------------------------------------------
PageOf(c) == CHOOSE k \in DOMAIN parsed.pages :
               /\ parsed.pages[k].number = c.page
               /\ \A j \in DOMAIN parsed.pages :
                    parsed.pages[j].number = c.page => k <= j

\* evidence_for yields a durable citation of the candidate's page.
Citable(c) == parsed.pages[PageOf(c)].sourced

(* Every region the first conversion found is a candidate exactly once, on *)
(* its own page or, unplaced, on a page past the last; OCR and fallbacks   *)
(* lose none and move none.                                                *)
RegionsSurvive ==
  phase = "inventoried" =>
    \A x \in Regions(report.items) :
      LET c == {d \in inventory : x \in d.figure.item} IN
      /\ Cardinality(c) = 1
      /\ \A d \in c : IF x.page = 0 THEN d.page > Last1(PageNumbers(report))
                                    ELSE d.page = x.page

\* The number that p gives to what has no page.
Invented(p) ==
  {p.pages[k].number : k \in {j \in DOMAIN p.pages : ~p.pages[j].sourced}}

(* What stands as the text of a page that can be cited was read on that    *)
(* page, whichever pass read it.  The one exception is the number that the *)
(* OCR pass itself gave to text without a page, when it skipped the page   *)
(* of that number: there merge_ocr_text takes the one for the other.       *)
TextStaysOnItsPage ==
  \A k \in DOMAIN parsed.pages :
    parsed.pages[k].sourced =>
      \A x \in parsed.pages[k].text :
        \/ x.page = parsed.pages[k].number
        \/ x.page = 0 /\ parsed.pages[k].number \in Invented(recovered)

(* A candidate that yields evidence is on a page the source itself has,    *)
(* in a format that has pages.                                             *)
EvidenceCitesTheSource ==
  \A c \in inventory : Citable(c) =>
    report.format = "pdf" /\ c.page \in PageNumbers(report)

EmptySheets ==
  {n \in PageNumbers(report) : /\ On(Regions(report.items), n) = {}
                               /\ Length(On(Texts(report.items), n)) < SparseTextChars}
OfferedWhole == {c.page : c \in {d \in inventory : d.figure.origin = "page_fallback"}}

(* A whole page is offered only where the first conversion found no region *)
(* and too little text, never beside a region and never for a phantom; and *)
(* a PDF whose every item is placed has each such sheet among its          *)
(* candidates, whether OCR ran, failed, or filled the sheet with text.     *)
EmptySheetsOffered ==
  phase = "inventoried" =>
    /\ OfferedWhole \subseteq EmptySheets
    /\ report.format = "pdf" /\ ~HasUnplaced(report) => OfferedWhole = EmptySheets

=============================================================================
