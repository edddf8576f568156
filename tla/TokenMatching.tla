----------------------------- MODULE TokenMatching -----------------------------
(***************************************************************************)
(* evaluation/matching.py: whether a text holds an expected token, and the *)
(* diagnostic recall of a list of them.                                    *)
(*                                                                         *)
(* A text or phrase is the sequence of tokens its normalized form splits   *)
(* into.  A token is [word, number]: some letters, some digits, or letters *)
(* followed by digits; one of any other shape counts as a word.            *)
(***************************************************************************)
EXTENDS Integers, Sequences, SequencesExt, FiniteSets

CONSTANTS
  ShortWords,     \* the words of one to four letters
  ShortNumbers    \* the numbers of one to four digits

None == "-"

ASSUME MatchingAssumption ==
  ShortWords \subseteq STRING \ {None} /\ ShortNumbers \subseteq STRING \ {None}

\* Letters or digits that a token may lack.
Part == STRING \cup {None}
Token == [word : Part, number : Part]

Word(w) == [word |-> w, number |-> None]
Number(n) == [word |-> None, number |-> n]
Joined(w, n) == [word |-> w, number |-> n]

\* The places in a text where _IDENTIFIER matches: within one token, or
\* across the space between two.
OneToken(text) ==
  {i \in DOMAIN text : text[i].word \in ShortWords /\ text[i].number \in ShortNumbers}
TwoTokens(text) ==
  {i \in 1 .. Len(text) - 1 :
     /\ text[i].word \in ShortWords /\ text[i].number = None
     /\ text[i + 1].word = None /\ text[i + 1].number \in ShortNumbers}

IdentifiersIn(text) ==
  {<<text[i].word, text[i].number>> : i \in OneToken(text)}
    \cup {<<text[i].word, text[i + 1].number>> : i \in TwoTokens(text)}

\* The phrase as a whole is an identifier, and which one.
IsIdentifier(phrase) ==
  \/ Len(phrase) = 1 /\ OneToken(phrase) # {}
  \/ Len(phrase) = 2 /\ TwoTokens(phrase) # {}
IdentifierParts(phrase) == CHOOSE id \in IdentifiersIn(phrase) : TRUE

\* mutant: the last window is left out
ContainsPhraseButLast(text, phrase) ==
  IF IsIdentifier(phrase)
  THEN IdentifierParts(phrase) \in IdentifiersIn(text)
  ELSE /\ phrase # <<>>
       /\ \E start \in 0 .. Len(text) - Len(phrase) - 1 :
            SubSeq(text, start + 1, start + Len(phrase)) = phrase

ContainsPhrase(text, phrase) ==
  IF IsIdentifier(phrase)
  THEN IdentifierParts(phrase) \in IdentifiersIn(text)
  ELSE /\ phrase # <<>>
       /\ \E start \in 0 .. Len(text) - Len(phrase) :
            SubSeq(text, start + 1, start + Len(phrase)) = phrase

MatchKey(phrase) ==
  IF IsIdentifier(phrase) THEN <<"identifier", IdentifierParts(phrase)>>
  ELSE <<"phrase", phrase>>

\* The expected phrases, each key once: where it stands first.
Unique(expected) ==
  {i \in DOMAIN expected :
     \A j \in 1 .. i - 1 : MatchKey(expected[j]) # MatchKey(expected[i])}

\* score_diagnostic_tokens; the recall is found / expected.
Score(expected, text) ==
  [expected |-> Cardinality(Unique(expected)),
   found |-> Cardinality({i \in Unique(expected) : ContainsPhrase(text, expected[i])})]

\* extract_identifiers, as the identifiers they canonicalize to.
ExtractIdentifiers(text, prefixes) ==
  {id \in IdentifiersIn(text) : id[1] \in prefixes}

----------------------------------------------------------------------------
(* What the score means, without windows, keys or scanning.                *)

\* An identifier may be written with or without a separator.
Spellings(phrase) ==
  IF \E w \in ShortWords, n \in ShortNumbers :
       phrase \in {<<Joined(w, n)>>, <<Word(w), Number(n)>>}
  THEN LET w == phrase[1].word
           n == phrase[Len(phrase)].number
       IN  {<<Joined(w, n)>>, <<Word(w), Number(n)>>}
  ELSE {phrase}

Occurs(text, phrase) ==
  \E spelled \in Spellings(phrase), i \in DOMAIN text :
    IsPrefix(spelled, SubSeq(text, i, Len(text)))

\* How many different things the list asks for, and how many the text says.
Asked(expected) == Cardinality({Spellings(p) : p \in Range(expected)})
Said(expected, text) ==
  Cardinality({Spellings(p) : p \in {q \in Range(expected) : Occurs(text, q)}})

=============================================================================
