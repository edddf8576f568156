-------------------------- MODULE MCDocumentRecovery --------------------------
(***************************************************************************)
(* Every report of up to three items on up to three pages, and every OCR   *)
(* reading of up to two texts.  A text has one character, which is sparse, *)
(* or three, which is not.  An OCR pass lists any pages of its range and   *)
(* finds texts on any of them, or without a page.                          *)
(***************************************************************************)
EXTENDS DocumentRecovery

CONSTANTS MaxPageNo, MaxItems, MaxTexts

Text(n, c) == [kind |-> "text", page |-> n, chars |-> c, box |-> "none"]
Region(n) == [kind |-> "figure", page |-> n, chars |-> 0, box |-> "located"]

TextsOn(numbers) == {Text(n, c) : n \in numbers, c \in {1, 3}}
ItemsOn(numbers) == TextsOn(numbers) \cup {Region(n) : n \in numbers}

MCReports ==
  {[format |-> f, pages |-> ps, sized |-> ps \ {2}, items |-> xs] :
     f \in {"pdf", "docx"}, ps \in SUBSET (1..MaxPageNo),
     xs \in UNION {kSubset(k, ItemsOn(0..MaxPageNo)) : k \in 0..MaxItems}}

MCReadingsOf(span) ==
  {[format |-> "pdf", pages |-> ps, sized |-> ps, items |-> xs] :
     ps \in SUBSET span,
     xs \in UNION {kSubset(k, TextsOn(span \cup {0})) : k \in 0..MaxTexts}}
=============================================================================
