------------------------- MODULE EvaluationRunTheorems -------------------------
(***************************************************************************)
(* What EvaluationRun promises for any invocations, run ids, dataset cases *)
(* and readings: printed counts have their artifacts in the Volume, an     *)
(* artifact is lost only to a container that started before it was there,  *)
(* and the printed recall is that of what the sheets say.  For the last,   *)
(* the first part proves the matching: its windows find exactly what       *)
(* occurs, and its keys tell apart exactly what is spelled apart.          *)
(***************************************************************************)
EXTENDS EvaluationRun, NumberTheorems

----------------------------------------------------------------------------
(* Matching                                                                *)

\* A phrase is an identifier in one of its two spellings.
IsSpelled(phrase, w, n) ==
  /\ w \in ShortWords /\ n \in ShortNumbers
  /\ phrase \in {<<Joined(w, n)>>, <<Word(w), Number(n)>>}

\* _identifier_parts recognizes the two spellings and nothing else.
LEMMA IdentifierShape ==
  ASSUME NEW phrase \in Seq(Token), IsIdentifier(phrase)
  PROVE  \E w, n : IsSpelled(phrase, w, n)
<1>1. CASE Len(phrase) = 1 /\ OneToken(phrase) # {}
  <2>1. PICK i \in DOMAIN phrase :
          phrase[i].word \in ShortWords /\ phrase[i].number \in ShortNumbers
    BY <1>1 DEF OneToken
  <2>2. i = 1 /\ phrase[1] \in Token
    BY <1>1, <2>1
  <2>3. phrase[1] = Joined(phrase[1].word, phrase[1].number)
    BY <2>2 DEF Token, Joined
  <2>4. phrase = <<phrase[1]>>
    BY <1>1
  <2>5. IsSpelled(phrase, phrase[1].word, phrase[1].number)
    BY <2>1, <2>2, <2>3, <2>4 DEF IsSpelled
  <2> QED BY <2>5
<1>2. CASE Len(phrase) = 2 /\ TwoTokens(phrase) # {}
  <2>1. PICK i \in 1 .. Len(phrase) - 1 :
          /\ phrase[i].word \in ShortWords /\ phrase[i].number = None
          /\ phrase[i + 1].word = None /\ phrase[i + 1].number \in ShortNumbers
    BY <1>2 DEF TwoTokens
  <2>2. i = 1 /\ phrase[1] \in Token /\ phrase[2] \in Token
    <3>1. i = 1
      BY <1>2
    <3>2. \A j \in 1 .. Len(phrase) : phrase[j] \in Token
      OBVIOUS
    <3>3. 1 \in 1 .. Len(phrase) /\ 2 \in 1 .. Len(phrase)
      BY <1>2
    <3> QED BY <3>1, <3>2, <3>3
  <2>3. phrase[1] = Word(phrase[1].word) /\ phrase[2] = Number(phrase[2].number)
    BY <2>1, <2>2 DEF Token, Word, Number
  <2>4. phrase = <<phrase[1], phrase[2]>>
    BY <1>2
  <2>5. IsSpelled(phrase, phrase[1].word, phrase[2].number)
    BY <2>1, <2>2, <2>3, <2>4 DEF IsSpelled
  <2> QED BY <2>5
<1> QED BY <1>1, <1>2 DEF IsIdentifier

\* The places where _IDENTIFIER matches, as the tokens that stand there.
LEMMA FoundIn ==
  ASSUME NEW text \in Seq(Token), NEW w \in ShortWords, NEW n \in ShortNumbers
  PROVE  <<w, n>> \in IdentifiersIn(text)
           <=> \/ \E i \in 1 .. Len(text) : text[i] = Joined(w, n)
               \/ \E i \in 1 .. Len(text) - 1 :
                    text[i] = Word(w) /\ text[i + 1] = Number(n)
<1>1. \A i \in 1 .. Len(text) : text[i] \in Token
  OBVIOUS
<1>2. DOMAIN text = 1 .. Len(text)
  OBVIOUS
<1>3. ASSUME NEW i \in OneToken(text), <<w, n>> = <<text[i].word, text[i].number>>
      PROVE  \E j \in 1 .. Len(text) : text[j] = Joined(w, n)
  <2>1. i \in 1 .. Len(text) /\ text[i].word = w /\ text[i].number = n
    BY <1>3, <1>2 DEF OneToken
  <2>2. text[i] = Joined(w, n)
    BY <1>1, <2>1 DEF Token, Joined
  <2> QED BY <2>1, <2>2
<1>4. ASSUME NEW i \in TwoTokens(text), <<w, n>> = <<text[i].word, text[i + 1].number>>
      PROVE  \E j \in 1 .. Len(text) - 1 :
               text[j] = Word(w) /\ text[j + 1] = Number(n)
  <2>1. /\ i \in 1 .. Len(text) - 1
        /\ text[i].word = w /\ text[i].number = None
        /\ text[i + 1].word = None /\ text[i + 1].number = n
    BY <1>4 DEF TwoTokens
  <2>2. i \in 1 .. Len(text) /\ i + 1 \in 1 .. Len(text)
    BY <2>1
  <2>3. text[i] = Word(w) /\ text[i + 1] = Number(n)
    BY <1>1, <2>1, <2>2 DEF Token, Word, Number
  <2> QED BY <2>1, <2>3
<1>5. ASSUME NEW i \in 1 .. Len(text), text[i] = Joined(w, n)
      PROVE  <<w, n>> \in IdentifiersIn(text)
  <2>1. i \in OneToken(text)
    BY <1>2, <1>5 DEF OneToken, Joined
  <2>2. <<w, n>> = <<text[i].word, text[i].number>>
    BY <1>5 DEF Joined
  <2> QED BY <2>1, <2>2 DEF IdentifiersIn
<1>6. ASSUME NEW i \in 1 .. Len(text) - 1,
             text[i] = Word(w) /\ text[i + 1] = Number(n)
      PROVE  <<w, n>> \in IdentifiersIn(text)
  <2>1. i \in TwoTokens(text)
    BY <1>6 DEF TwoTokens, Word, Number
  <2>2. <<w, n>> = <<text[i].word, text[i + 1].number>>
    BY <1>6 DEF Word, Number
  <2> QED BY <2>1, <2>2 DEF IdentifiersIn
<1>7. <<w, n>> \in IdentifiersIn(text) =>
        \/ \E i \in OneToken(text) : <<w, n>> = <<text[i].word, text[i].number>>
        \/ \E i \in TwoTokens(text) : <<w, n>> = <<text[i].word, text[i + 1].number>>
  BY DEF IdentifiersIn
<1> QED BY <1>3, <1>4, <1>5, <1>6, <1>7

\* A spelled identifier is recognized, and which one it is.
LEMMA Recognized ==
  ASSUME NEW phrase, NEW w, NEW n, IsSpelled(phrase, w, n)
  PROVE  /\ phrase \in Seq(Token) /\ IsIdentifier(phrase)
         /\ IdentifierParts(phrase) = <<w, n>>
         /\ Spellings(phrase) = {<<Joined(w, n)>>, <<Word(w), Number(n)>>}
<1> USE MatchingAssumption DEF IsSpelled
<1>0. /\ w \in Part /\ n \in Part /\ None \in Part
      /\ None \notin ShortWords /\ None \notin ShortNumbers
  BY DEF Part
<1>1. CASE phrase = <<Joined(w, n)>>
  <2>1. /\ Len(phrase) = 1 /\ phrase[1] = Joined(w, n)
        /\ phrase[1].word = w /\ phrase[1].number = n /\ DOMAIN phrase = {1}
    BY <1>1 DEF Joined
  <2>2. OneToken(phrase) = {1} /\ TwoTokens(phrase) = {}
    BY <2>1 DEF OneToken, TwoTokens
  <2>3. IdentifiersIn(phrase) = {<<w, n>>}
    BY <2>1, <2>2 DEF IdentifiersIn
  <2>4. phrase \in Seq(Token)
    BY <1>0, <1>1 DEF Token, Joined
  <2>5. phrase[1].word = w /\ phrase[Len(phrase)].number = n
    BY <2>1
  <2> QED BY <2>1, <2>2, <2>3, <2>4, <2>5 DEF IsIdentifier, IdentifierParts, Spellings
<1>2. CASE phrase = <<Word(w), Number(n)>>
  <2>1. /\ Len(phrase) = 2 /\ DOMAIN phrase = {1, 2}
        /\ phrase[1].word = w /\ phrase[1].number = None
        /\ phrase[2].word = None /\ phrase[2].number = n
    BY <1>2 DEF Word, Number
  <2>2. OneToken(phrase) = {}
    BY <1>0, <2>1 DEF OneToken
  <2>3. TwoTokens(phrase) = {1}
    BY <2>1 DEF TwoTokens
  <2>4. IdentifiersIn(phrase) = {<<w, n>>}
    BY <2>1, <2>2, <2>3 DEF IdentifiersIn
  <2>5. phrase \in Seq(Token)
    BY <1>0, <1>2 DEF Token, Word, Number
  <2>6. phrase[1].word = w /\ phrase[Len(phrase)].number = n
    BY <2>1
  <2> QED BY <2>1, <2>3, <2>4, <2>5, <2>6 DEF IsIdentifier, IdentifierParts, Spellings
<1> QED BY <1>1, <1>2

\* A phrase that is no identifier has one spelling.
LEMMA Unrecognized ==
  ASSUME NEW phrase \in Seq(Token), ~IsIdentifier(phrase)
  PROVE  Spellings(phrase) = {phrase}
<1>1. ~\E w \in ShortWords, n \in ShortNumbers :
        phrase \in {<<Joined(w, n)>>, <<Word(w), Number(n)>>}
  BY Recognized DEF IsSpelled
<1> QED BY <1>1 DEF Spellings

\* A spelling stands at i.
LEMMA StandsAt ==
  ASSUME NEW text \in Seq(Token), NEW s \in Seq(Token), NEW i \in 1 .. Len(text)
  PROVE  IsPrefix(s, SubSeq(text, i, Len(text)))
           <=> /\ i + Len(s) - 1 <= Len(text)
               /\ \A j \in 1 .. Len(s) : text[i + j - 1] = s[j]
<1> DEFINE rest == SubSeq(text, i, Len(text))
<1>1. /\ rest \in Seq(Token) /\ Len(rest) = Len(text) - i + 1
      /\ \A j \in 1 .. Len(text) - i + 1 : rest[j] = text[i + j - 1]
  OBVIOUS
<1> HIDE DEF rest
<1>2. Len(s) \in Nat /\ Len(text) \in Nat
  OBVIOUS
<1>3. ASSUME Len(s) <= Len(rest)
      PROVE  SubSeq(s, 1, Len(s)) = SubSeq(rest, 1, Len(s))
               <=> \A j \in 1 .. Len(s) : rest[j] = s[j]
  <2>1. /\ SubSeq(s, 1, Len(s)) \in Seq(Token) /\ Len(SubSeq(s, 1, Len(s))) = Len(s)
        /\ \A j \in 1 .. Len(s) : SubSeq(s, 1, Len(s))[j] = s[j]
    BY <1>2
  <2>2. /\ SubSeq(rest, 1, Len(s)) \in Seq(Token)
        /\ Len(SubSeq(rest, 1, Len(s))) = Len(s)
        /\ \A j \in 1 .. Len(s) : SubSeq(rest, 1, Len(s))[j] = rest[j]
    BY <1>1, <1>2, <1>3
  <2> DEFINE a == SubSeq(s, 1, Len(s))
             b == SubSeq(rest, 1, Len(s))
  <2> HIDE DEF a, b
  <2>3. a = b <=> \A j \in 1 .. Len(s) : a[j] = b[j]
    BY <2>1, <2>2 DEF a, b
  <2> QED BY <2>1, <2>2, <2>3 DEF a, b
<1>4. Len(s) <= Len(rest) <=> i + Len(s) - 1 <= Len(text)
  BY <1>1, <1>2
<1>5. Len(s) <= Len(rest) =>
        \A j \in 1 .. Len(s) : rest[j] = text[i + j - 1]
  BY <1>1, <1>2
<1>6. IsPrefix(s, rest) <=> Len(s) <= Len(rest) /\ \A j \in 1 .. Len(s) : rest[j] = s[j]
  BY <1>3 DEF IsPrefix
<1> QED BY <1>4, <1>5, <1>6 DEF rest

\* contains_phrase finds exactly the phrases that occur in a spelling.
LEMMA ContainsWhatOccurs ==
  ASSUME NEW text \in Seq(Token), NEW phrase \in Seq(Token) \ {<<>>}
  PROVE  ContainsPhrase(text, phrase) <=> Occurs(text, phrase)
<1>0. DOMAIN text = 1 .. Len(text) /\ Len(text) \in Nat
  OBVIOUS
<1>1. CASE IsIdentifier(phrase)
  <2>1. PICK w, n : IsSpelled(phrase, w, n)
    BY <1>1, IdentifierShape
  <2> DEFINE one == <<Joined(w, n)>>
             two == <<Word(w), Number(n)>>
  <2>2. /\ IdentifierParts(phrase) = <<w, n>> /\ Spellings(phrase) = {one, two}
        /\ w \in ShortWords /\ n \in ShortNumbers
    <3>1. IdentifierParts(phrase) = <<w, n>> /\ Spellings(phrase) = {one, two}
      BY <2>1, Recognized
    <3>2. w \in ShortWords /\ n \in ShortNumbers
      BY <2>1 DEF IsSpelled
    <3> QED BY <3>1, <3>2
  <2>3. one \in Seq(Token) /\ two \in Seq(Token)
    <3>1. IsSpelled(one, w, n) /\ IsSpelled(two, w, n)
      BY <2>2 DEF IsSpelled
    <3> QED BY <3>1, Recognized
  <2>4. Len(one) = 1 /\ one[1] = Joined(w, n)
        /\ Len(two) = 2 /\ two[1] = Word(w) /\ two[2] = Number(n)
    OBVIOUS
  <2> HIDE DEF one, two
  <2>5. Occurs(text, phrase)
          <=> \E i \in 1 .. Len(text) :
                \/ IsPrefix(one, SubSeq(text, i, Len(text)))
                \/ IsPrefix(two, SubSeq(text, i, Len(text)))
    BY <1>0, <2>2 DEF Occurs
  <2>6. \A i \in 1 .. Len(text) :
          IsPrefix(one, SubSeq(text, i, Len(text))) <=> text[i] = Joined(w, n)
    <3> TAKE i \in 1 .. Len(text)
    <3>1. \A j \in 1 .. 1 : j = 1 /\ i + j - 1 = i
      OBVIOUS
    <3>2. i + 1 - 1 <= Len(text)
      BY <1>0
    <3>3. IsPrefix(one, SubSeq(text, i, Len(text)))
            <=> /\ i + Len(one) - 1 <= Len(text)
                /\ \A j \in 1 .. Len(one) : text[i + j - 1] = one[j]
      BY <2>3, StandsAt
    <3> QED BY <2>4, <3>1, <3>2, <3>3
  <2>7. \A i \in 1 .. Len(text) :
          IsPrefix(two, SubSeq(text, i, Len(text)))
            <=> /\ i \in 1 .. Len(text) - 1
                /\ text[i] = Word(w) /\ text[i + 1] = Number(n)
    <3> TAKE i \in 1 .. Len(text)
    <3>1. IsPrefix(two, SubSeq(text, i, Len(text)))
            <=> /\ i + Len(two) - 1 <= Len(text)
                /\ \A j \in 1 .. Len(two) : text[i + j - 1] = two[j]
      BY <2>3, StandsAt
    <3>2. i + 2 - 1 <= Len(text) <=> i \in 1 .. Len(text) - 1
      BY <1>0
    <3>3. (\A j \in 1 .. 2 : text[i + j - 1] = two[j])
            <=> text[i] = two[1] /\ text[i + 1] = two[2]
      <4>1. 1 .. 2 = {1, 2} /\ i + 1 - 1 = i /\ i + 2 - 1 = i + 1
        OBVIOUS
      <4> QED BY <4>1
    <3> QED BY <2>4, <3>1, <3>2, <3>3
  <2>8. \A i \in 1 .. Len(text) - 1 : i \in 1 .. Len(text)
    BY <1>0
  <2>9. <<w, n>> \in IdentifiersIn(text) <=> Occurs(text, phrase)
    BY <2>2, <2>5, <2>6, <2>7, <2>8, FoundIn
  <2> QED BY <1>1, <2>2, <2>9 DEF ContainsPhrase
<1>2. CASE ~IsIdentifier(phrase)
  <2>1. Len(phrase) \in Nat \ {0}
    OBVIOUS
  <2>2. Occurs(text, phrase)
          <=> \E i \in 1 .. Len(text) : IsPrefix(phrase, SubSeq(text, i, Len(text)))
    BY <1>0, <1>2, Unrecognized DEF Occurs
  <2>3. ContainsPhrase(text, phrase)
          <=> \E start \in 0 .. Len(text) - Len(phrase) :
                SubSeq(text, start + 1, start + Len(phrase)) = phrase
    BY <1>2 DEF ContainsPhrase
  <2>4. \A start \in 0 .. Len(text) - Len(phrase) :
          SubSeq(text, start + 1, start + Len(phrase)) = phrase
            <=> \A j \in 1 .. Len(phrase) : text[start + 1 + j - 1] = phrase[j]
    <3> TAKE start \in 0 .. Len(text) - Len(phrase)
    <3> DEFINE window == SubSeq(text, start + 1, start + Len(phrase))
    <3>1. /\ window \in Seq(Token) /\ Len(window) = Len(phrase)
          /\ \A j \in 1 .. Len(phrase) : window[j] = text[start + 1 + j - 1]
      BY <1>0, <2>1
    <3> HIDE DEF window
    <3>2. window = phrase <=> \A j \in 1 .. Len(phrase) : window[j] = phrase[j]
      BY <3>1
    <3> QED BY <3>1, <3>2 DEF window
  <2>5. ASSUME NEW start \in 0 .. Len(text) - Len(phrase),
               SubSeq(text, start + 1, start + Len(phrase)) = phrase
        PROVE  Occurs(text, phrase)
    <3>1. start + 1 \in 1 .. Len(text) /\ start + 1 + Len(phrase) - 1 <= Len(text)
      BY <1>0, <2>1
    <3>2. IsPrefix(phrase, SubSeq(text, start + 1, Len(text)))
      BY <2>4, <2>5, <3>1, StandsAt
    <3> QED BY <2>2, <3>1, <3>2
  <2>6. ASSUME NEW i \in 1 .. Len(text), IsPrefix(phrase, SubSeq(text, i, Len(text)))
        PROVE  ContainsPhrase(text, phrase)
    <3>1. /\ i + Len(phrase) - 1 <= Len(text)
          /\ \A j \in 1 .. Len(phrase) : text[i + j - 1] = phrase[j]
      BY <2>6, StandsAt
    <3>2. PICK start \in 0 .. Len(text) - Len(phrase) : start + 1 = i
      <4>1. i - 1 \in 0 .. Len(text) - Len(phrase) /\ (i - 1) + 1 = i
        BY <1>0, <2>1, <3>1
      <4> QED BY <4>1
    <3>3. SubSeq(text, start + 1, start + Len(phrase)) = phrase
      BY <2>4, <3>1, <3>2
    <3> QED BY <2>3, <3>3
  <2> QED BY <2>2, <2>3, <2>5, <2>6
<1> QED BY <1>1, <1>2

\* Two phrases have one key exactly when they have the same spellings.
LEMMA KeysAreSpellings ==
  ASSUME NEW p \in Seq(Token), NEW q \in Seq(Token)
  PROVE  MatchKey(p) = MatchKey(q) <=> Spellings(p) = Spellings(q)
<1>1. ASSUME NEW x \in Seq(Token), NEW y \in Seq(Token),
             IsIdentifier(x), ~IsIdentifier(y)
      PROVE  MatchKey(x) # MatchKey(y) /\ Spellings(x) # Spellings(y)
  <2>1. PICK w, n : IsSpelled(x, w, n)
    BY <1>1, IdentifierShape
  <2> DEFINE one == <<Joined(w, n)>>
             two == <<Word(w), Number(n)>>
  <2>2. Spellings(x) = {one, two}
    BY <2>1, Recognized
  <2>3. Spellings(y) = {y}
    BY <1>1, Unrecognized
  <2>4. one # two
    <3>1. Len(one) = 1 /\ Len(two) = 2
      OBVIOUS
    <3> QED BY <3>1
  <2> HIDE DEF one, two
  <2>5. Spellings(x) # Spellings(y)
    <3> SUFFICES ASSUME {one, two} = {y} PROVE FALSE
      BY <2>2, <2>3
    <3>1. one \in {one, two} /\ two \in {one, two}
      OBVIOUS
    <3>2. one = y /\ two = y
      BY <3>1
    <3> QED BY <2>4, <3>2
  <2>6. MatchKey(x)[1] = "identifier" /\ MatchKey(y)[1] = "phrase"
    BY <1>1 DEF MatchKey
  <2> QED BY <2>5, <2>6
<1>2. CASE IsIdentifier(p) /\ IsIdentifier(q)
  <2>1. PICK w, n : IsSpelled(p, w, n)
    BY <1>2, IdentifierShape
  <2>2. PICK v, m : IsSpelled(q, v, m)
    BY <1>2, IdentifierShape
  <2>3. /\ IdentifierParts(p) = <<w, n>> /\ IdentifierParts(q) = <<v, m>>
        /\ Spellings(p) = {<<Joined(w, n)>>, <<Word(w), Number(n)>>}
        /\ Spellings(q) = {<<Joined(v, m)>>, <<Word(v), Number(m)>>}
    BY <2>1, <2>2, Recognized
  <2>4. MatchKey(p) = MatchKey(q) <=> w = v /\ n = m
    BY <1>2, <2>3 DEF MatchKey
  <2>5. ASSUME Spellings(p) = Spellings(q) PROVE w = v /\ n = m
    <3>1. <<Joined(w, n)>> \in {<<Joined(v, m)>>, <<Word(v), Number(m)>>}
      BY <2>3, <2>5
    <3>2. Len(<<Joined(w, n)>>) = 1 /\ Len(<<Word(v), Number(m)>>) = 2
      OBVIOUS
    <3>3. <<Joined(w, n)>> = <<Joined(v, m)>>
      BY <3>1, <3>2
    <3>4. Joined(w, n) = Joined(v, m)
      BY <3>3
    <3> QED BY <3>4 DEF Joined
  <2> QED BY <2>3, <2>4, <2>5
<1>3. CASE ~IsIdentifier(p) /\ ~IsIdentifier(q)
  <2>1. Spellings(p) = {p} /\ Spellings(q) = {q}
    BY <1>3, Unrecognized
  <2>2. MatchKey(p) = <<"phrase", p>> /\ MatchKey(q) = <<"phrase", q>>
    BY <1>3 DEF MatchKey
  <2> QED BY <2>1, <2>2
<1> QED BY <1>1, <1>2, <1>3

\* setdefault keeps one phrase for each key: of the positions in W, a set that
\* no key leaves, those that stand first are as many as the different
\* spellings.
LEMMA FirstsCount ==
  ASSUME NEW expected \in Seq(Seq(Token) \ {<<>>}), NEW W \in SUBSET DOMAIN expected,
         \A i \in W, j \in DOMAIN expected :
           Spellings(expected[j]) = Spellings(expected[i]) => j \in W
  PROVE  Cardinality(Unique(expected) \cap W)
           = Cardinality({Spellings(expected[i]) : i \in W})
<1> DEFINE firsts == Unique(expected) \cap W
           things == {Spellings(expected[i]) : i \in W}
           f == [i \in firsts |-> Spellings(expected[i])]
<1>1. DOMAIN expected = 1 .. Len(expected) /\ Len(expected) \in Nat
  OBVIOUS
<1>2. \A i \in DOMAIN expected : expected[i] \in Seq(Token)
  OBVIOUS
<1>3. \A i, j \in DOMAIN expected :
        MatchKey(expected[i]) = MatchKey(expected[j])
          <=> Spellings(expected[i]) = Spellings(expected[j])
  BY <1>2, KeysAreSpellings
<1>4. IsFiniteSet(DOMAIN expected)
  BY <1>1, FS_Interval
<1>5. IsFiniteSet(firsts)
  BY <1>4, FS_Subset
<1>6. ASSUME NEW i \in W
      PROVE  \E k \in firsts : Spellings(expected[k]) = Spellings(expected[i])
  <2> DEFINE same == {j \in DOMAIN expected :
                        Spellings(expected[j]) = Spellings(expected[i])}
  <2>1. same \in SUBSET Int /\ IsFiniteSet(same) /\ same # {}
    BY <1>1, <1>4, FS_Subset
  <2>2. PICK k \in same : \A j \in same : k <= j
    BY <2>1, LeastExists
  <2>3. k \in W /\ k \in DOMAIN expected
    BY <2>2
  <2>4. ASSUME NEW j \in 1 .. k - 1
        PROVE  MatchKey(expected[j]) # MatchKey(expected[k])
    <3>1. k \in 1 .. Len(expected)
      BY <1>1, <2>3
    <3>2. j \in DOMAIN expected /\ ~(k <= j)
      BY <1>1, <3>1
    <3>3. j \notin same
      <4> HIDE DEF same
      <4> QED BY <2>2, <3>2
    <3> QED BY <1>3, <2>2, <2>3, <3>2, <3>3
  <2>5. k \in Unique(expected)
    BY <2>3, <2>4 DEF Unique
  <2> QED BY <2>2, <2>3, <2>5
<1>7. f \in Surjection(firsts, things)
  <2>1. \A i \in firsts : i \in W
    OBVIOUS
  <2>2. f \in [firsts -> things]
    BY <2>1
  <2>3. \A t \in things : \E k \in firsts : f[k] = t
    BY <1>6
  <2> HIDE DEF f, firsts, things
  <2> QED BY <2>2, <2>3 DEF Surjection
<1>8. f \in Injection(firsts, things)
  <2>1. f \in [firsts -> things]
    BY <1>7 DEF Surjection
  <2>2. ASSUME NEW i \in firsts, NEW j \in firsts, f[i] = f[j], i # j PROVE FALSE
    <3>1. i \in 1 .. Len(expected) /\ j \in 1 .. Len(expected)
      BY <1>1
    <3>2. MatchKey(expected[i]) = MatchKey(expected[j])
      BY <1>1, <1>3, <2>2, <3>1
    <3>3. i \in 1 .. j - 1 \/ j \in 1 .. i - 1
      BY <2>2, <3>1
    <3> QED BY <3>2, <3>3 DEF Unique
  <2> HIDE DEF f, firsts, things
  <2> QED BY <2>1, <2>2 DEF Injection, IsInjective
<1> HIDE DEF f, firsts, things
<1>9. Cardinality(things) = Cardinality(firsts)
  BY <1>5, <1>7, <1>8, FS_Surjection
<1> QED BY <1>9 DEF firsts, things

(* score_diagnostic_tokens counts what was asked for and what the text     *)
(* says, whatever the spellings and repetitions.                           *)
LEMMA ScoreCounts ==
  ASSUME NEW expected \in Seq(Seq(Token) \ {<<>>}), NEW text \in Seq(Token)
  PROVE  /\ Score(expected, text).expected = Asked(expected)
         /\ Score(expected, text).found = Said(expected, text)
<1>1. \A i \in DOMAIN expected : expected[i] \in Seq(Token) \ {<<>>}
  OBVIOUS
<1>2. Cardinality(Unique(expected)) = Asked(expected)
  <2>1. Unique(expected) = Unique(expected) \cap DOMAIN expected
    BY DEF Unique
  <2>2. {Spellings(p) : p \in Range(expected)}
          = {Spellings(expected[i]) : i \in DOMAIN expected}
    BY DEF Range
  <2>3. Cardinality(Unique(expected) \cap DOMAIN expected)
          = Cardinality({Spellings(expected[i]) : i \in DOMAIN expected})
    BY FirstsCount
  <2> QED BY <2>1, <2>2, <2>3 DEF Asked
<1>3. Cardinality({i \in Unique(expected) : ContainsPhrase(text, expected[i])})
        = Said(expected, text)
  <2> DEFINE W == {i \in DOMAIN expected : Occurs(text, expected[i])}
  <2>1. \A i \in DOMAIN expected :
          ContainsPhrase(text, expected[i]) <=> Occurs(text, expected[i])
    BY <1>1, ContainsWhatOccurs
  <2>2. {i \in Unique(expected) : ContainsPhrase(text, expected[i])}
          = Unique(expected) \cap W
    BY <2>1 DEF Unique
  <2>3. {Spellings(p) : p \in {q \in Range(expected) : Occurs(text, q)}}
          = {Spellings(expected[i]) : i \in W}
    BY DEF Range
  <2>4. \A i \in W, j \in DOMAIN expected :
          Spellings(expected[j]) = Spellings(expected[i]) => j \in W
    BY DEF Occurs
  <2>5. Cardinality(Unique(expected) \cap W)
          = Cardinality({Spellings(expected[i]) : i \in W})
    <3> HIDE DEF W
    <3>1. W \in SUBSET DOMAIN expected
      BY DEF W
    <3> QED BY <2>4, <3>1, FirstsCount
  <2> QED BY <2>2, <2>3, <2>5 DEF Said
<1> QED BY <1>2, <1>3 DEF Score

(* A summary sums what its pages say.                                      *)
LEMMA SummaryCounts ==
  ASSUME NEW reading \in Readings
  PROVE  /\ Summary(reading).expected
              = SumFunction([p \in Pages |-> Asked(Expected[p])])
         /\ Summary(reading).found
              = SumFunction([p \in Pages |-> Said(Expected[p], reading[p].tokens)])
<1>1. \A p \in Pages : /\ Expected[p] \in Seq(Seq(Token) \ {<<>>})
                       /\ reading[p].tokens \in Seq(Token)
  BY EvaluationAssumption
<1>2. \A p \in Pages :
        /\ Score(Expected[p], reading[p].tokens).expected = Asked(Expected[p])
        /\ Score(Expected[p], reading[p].tokens).found = Said(Expected[p], reading[p].tokens)
  BY <1>1, ScoreCounts
<1>3. [p \in Pages |-> Score(Expected[p], reading[p].tokens).expected]
        = [p \in Pages |-> Asked(Expected[p])]
  BY <1>2
<1>4. [p \in Pages |-> Score(Expected[p], reading[p].tokens).found]
        = [p \in Pages |-> Said(Expected[p], reading[p].tokens)]
  BY <1>2
<1> QED BY <1>3, <1>4 DEF Summary

----------------------------------------------------------------------------
(* The invariant                                                           *)

Labels == {"idle", "called", "mounted", "read", "wrote", "returned", "raised"}
Phases == {"new", "waiting", "succeeded", "incomplete", "refused", "failed"}
Function == [pc : Labels, sees : BOOLEAN, reading : Readings \cup {<<>>}]

RunTypes ==
  /\ phase \in [Calls -> Phases]
  /\ DOMAIN work = Calls /\ DOMAIN printed = Calls
  /\ \A c \in Calls : work[c] \in [Engines(c) -> Function]

\* The artifact of a call and an engine, and under an id of its own the very
\* reading it made.
KeptAt(c, e) ==
  \E x \in volume : /\ x.id = RunId[c] /\ x.engine = e
                    /\ Alone(c) => x.reading = work[c][e].reading

\* A function creates its artifact only where its mount has none, and has
\* committed it when it returns.
FunctionAt(c, e) ==
  /\ work[c][e].pc \in {"read", "wrote", "returned"} =>
       work[c][e].reading \in Readings
  /\ work[c][e].pc = "wrote" => ~work[c][e].sees
  /\ work[c][e].pc = "returned" => KeptAt(c, e)

\* A summary is printed when every engine has returned, of what it read.
PrintedAt(c) ==
  phase[c] \in {"succeeded", "incomplete"} =>
    \A e \in Engines(c) :
      /\ work[c][e].pc = "returned"
      /\ printed[c][e] = Summary(work[c][e].reading)
      /\ phase[c] = "succeeded" => Complete(work[c][e].reading)

RunInv ==
  /\ RunTypes
  /\ \A c \in Calls : PrintedAt(c)
  /\ \A c \in Calls : \A e \in Engines(c) : FunctionAt(c, e)

----------------------------------------------------------------------------
(* Lemmas about the operators                                              *)

\* Two calls that have an engine in common run the same tool.
LEMMA SameTool ==
  ASSUME NEW c \in Calls, NEW d \in Calls, NEW e \in Engines(c), e \in Engines(d)
  PROVE  Tool[c] = Tool[d]
BY EvaluationAssumption DEF Engines

\* What a commit leaves of the artifact of another function: it stays, or,
\* under an id that is not its own, there is another in its place.
LEMMA PushKeeps ==
  ASSUME NEW c \in Calls, NEW e \in Engines(c),
         NEW d \in Calls, NEW f \in Engines(d), d # c \/ f # e,
         KeptAt(d, f), volume' = Pushed(c, e),
         work'[d][f].reading = work[d][f].reading
  PROVE  KeptAt(d, f)'
<1>1. PICK x \in volume : /\ x.id = RunId[d] /\ x.engine = f
                          /\ Alone(d) => x.reading = work[d][f].reading
  BY DEF KeptAt
<1>2. CASE x.id # RunId[c] \/ f # e
  <2>1. x \in volume'
    BY <1>1, <1>2 DEF Pushed
  <2> QED BY <1>1, <2>1 DEF KeptAt, Alone
<1>3. CASE x.id = RunId[c] /\ f = e
  <2>1. ~Alone(d)
    BY <1>1, <1>3, SameTool DEF Alone
  <2>2. Artifact(c, e).id = RunId[d] /\ Artifact(c, e).engine = f
    BY <1>1, <1>3 DEF Artifact
  <2>3. PICK y : y = Artifact(c, e)
    OBVIOUS
  <2>4. y \in volume' /\ y.id = RunId[d] /\ y.engine = f
    BY <2>2, <2>3 DEF Pushed
  <2> QED BY <2>1, <2>4 DEF KeptAt, Alone
<1> QED BY <1>2, <1>3

\* The committed artifact is there.
LEMMA PushKept ==
  ASSUME NEW c, NEW e, volume' = Pushed(c, e),
         work'[c][e].reading = work[c][e].reading
  PROVE  KeptAt(c, e)'
<1>1. PICK y : y = Artifact(c, e)
  OBVIOUS
<1>2. y \in volume' /\ y.id = RunId[c] /\ y.engine = e
      /\ y.reading = work'[c][e].reading
  BY <1>1 DEF Pushed, Artifact
<1> QED BY <1>2 DEF KeptAt

\* One field of one function changes, or two.
LEMMA WorkMoves ==
  ASSUME RunTypes, NEW c \in Calls, NEW e \in Engines(c), NEW w \in Function,
         work' = [work EXCEPT ![c] = [work[c] EXCEPT ![e] = w]]
  PROVE  /\ DOMAIN work' = Calls /\ work'[c] \in [Engines(c) -> Function]
         /\ work'[c][e] = w
         /\ \A f \in Engines(c) \ {e} : work'[c][f] = work[c][f]
         /\ \A d \in Calls \ {c} : work'[d] = work[d]
BY DEF RunTypes

----------------------------------------------------------------------------
(* A step of one function keeps the invariant of the others.               *)
LEMMA FunctionMoves ==
  ASSUME RunInv, NEW c \in Calls, NEW e \in Engines(c), NEW w \in Function,
         work' = [work EXCEPT ![c] = [work[c] EXCEPT ![e] = w]],
         UNCHANGED <<phase, printed>>, volume' \in {volume, Pushed(c, e)},
         phase[c] \notin {"succeeded", "incomplete"},
         FunctionAt(c, e)'
  PROVE  RunInv'
<1>1. /\ DOMAIN work' = Calls /\ work'[c] \in [Engines(c) -> Function]
      /\ work'[c][e] = w
      /\ \A f \in Engines(c) \ {e} : work'[c][f] = work[c][f]
      /\ \A d \in Calls \ {c} : work'[d] = work[d]
  BY WorkMoves DEF RunInv
<1>2. RunTypes'
  BY <1>1 DEF RunInv, RunTypes, Engines
<1>3. ASSUME NEW d \in Calls PROVE PrintedAt(d)'
  BY <1>1 DEF RunInv, PrintedAt, Engines, Complete
<1>4. ASSUME NEW d \in Calls, NEW f \in Engines(d) PROVE FunctionAt(d, f)'
  <2>1. CASE d = c /\ f = e
    BY <2>1
  <2>2. CASE d # c \/ f # e
    <3>1. work'[d][f] = work[d][f] /\ FunctionAt(d, f)
      BY <1>1, <2>2 DEF RunInv
    <3>2. CASE volume' = volume
      BY <3>1, <3>2 DEF FunctionAt, KeptAt, Alone
    <3>3. CASE volume' = Pushed(c, e)
      BY <2>2, <3>1, <3>3, PushKeeps DEF FunctionAt
    <3> QED BY <3>2, <3>3
  <2> QED BY <2>1, <2>2
<1> QED BY <1>2, <1>3, <1>4 DEF RunInv, Engines

\* A function that has not returned belongs to a call that has not printed.
LEMMA NotPrinted ==
  ASSUME RunInv, NEW c \in Calls, NEW e \in Engines(c), work[c][e].pc # "returned"
  PROVE  phase[c] \notin {"succeeded", "incomplete"}
BY DEF RunInv, PrintedAt

\* A function that goes on and commits nothing.
LEMMA FunctionGoesOn ==
  ASSUME RunInv, NEW c \in Calls, NEW e \in Engines(c), NEW w \in Function,
         work' = [work EXCEPT ![c] = [work[c] EXCEPT ![e] = w]],
         UNCHANGED <<phase, printed>>, volume' \in {volume, Pushed(c, e)},
         phase[c] \notin {"succeeded", "incomplete"},
         w.pc # "returned", w.pc = "wrote" => ~w.sees,
         w.pc \in {"read", "wrote"} => w.reading \in Readings
  PROVE  RunInv'
<1>1. work'[c][e] = w
  BY WorkMoves DEF RunInv
<1>2. FunctionAt(c, e)'
  BY <1>1 DEF FunctionAt
<1> QED BY <1>2, FunctionMoves

\* Become changes the label of one function.
LEMMA BecomeMoves ==
  ASSUME RunInv, NEW c \in Calls, NEW e \in Engines(c), NEW l \in Labels,
         Become(c, e, l)
  PROVE  \E w \in Function :
           /\ w.pc = l /\ w.sees = work[c][e].sees
           /\ w.reading = work[c][e].reading
           /\ work' = [work EXCEPT ![c] = [work[c] EXCEPT ![e] = w]]
<1>1. work[c][e] \in Function
  BY DEF RunInv, RunTypes
<1>2. PICK w : w = [work[c][e] EXCEPT !.pc = l]
  OBVIOUS
<1>3. /\ w \in Function /\ w.pc = l /\ w.sees = work[c][e].sees
      /\ w.reading = work[c][e].reading
  BY <1>1, <1>2 DEF Function
<1>4. work' = [work EXCEPT ![c] = [work[c] EXCEPT ![e] = w]]
  BY <1>2 DEF Become
<1> QED BY <1>3, <1>4

\* A function that is left with nothing in hand.
LEMMA FunctionLeaves ==
  ASSUME RunInv, NEW c \in Calls, NEW e \in Engines(c),
         NEW l \in Labels \ {"read", "wrote", "returned"}, Leave(c, e, l),
         UNCHANGED <<phase, printed>>, volume' \in {volume, Pushed(c, e)},
         phase[c] \notin {"succeeded", "incomplete"}
  PROVE  RunInv'
<1>1. PICK w : w = [Idle EXCEPT !.pc = l]
  OBVIOUS
<1>2. w \in Function /\ w.pc = l
  BY <1>1 DEF Idle, Function
<1>3. work' = [work EXCEPT ![c] = [work[c] EXCEPT ![e] = w]]
  BY <1>1 DEF Leave
<1> QED BY <1>2, <1>3, FunctionGoesOn

----------------------------------------------------------------------------
LEMMA MountKeeps ==
  ASSUME RunInv, NEW c \in Calls, NEW e \in Engines(c), Mount(c, e)
  PROVE  RunInv'
<1>1. phase[c] \notin {"succeeded", "incomplete"} /\ UNCHANGED <<phase, printed, volume>>
  BY NotPrinted DEF Mount
<1>2. CASE Leave(c, e, "raised")
  BY <1>1, <1>2, FunctionLeaves DEF Labels
<1>3. CASE work' = [work EXCEPT ![c][e].pc = "mounted",
                                ![c][e].sees = Present(c, e)]
  <2>1. work[c][e] \in Function /\ work[c] \in [Engines(c) -> Function]
        /\ DOMAIN work = Calls
    BY DEF RunInv, RunTypes
  <2>2. PICK w : w = [work[c][e] EXCEPT !.pc = "mounted", !.sees = Present(c, e)]
    OBVIOUS
  <2>3. w \in Function /\ w.pc = "mounted"
    BY <2>1, <2>2 DEF Function, Labels, Present
  <2>4. work' = [work EXCEPT ![c] = [work[c] EXCEPT ![e] = w]]
    BY <1>3, <2>1, <2>2
  <2> QED BY <1>1, <2>3, <2>4, FunctionGoesOn
<1> QED BY <1>2, <1>3 DEF Mount

LEMMA ReadKeeps ==
  ASSUME RunInv, NEW c \in Calls, NEW e \in Engines(c), Read(c, e)
  PROVE  RunInv'
<1>1. phase[c] \notin {"succeeded", "incomplete"} /\ UNCHANGED <<phase, printed, volume>>
  BY NotPrinted DEF Read
<1>2. PICK r \in Readings :
        work' = [work EXCEPT ![c][e].pc = "read", ![c][e].reading = r]
  BY DEF Read
<1>3. work[c][e] \in Function /\ work[c] \in [Engines(c) -> Function]
      /\ DOMAIN work = Calls
  BY DEF RunInv, RunTypes
<1>4. PICK w : w = [work[c][e] EXCEPT !.pc = "read", !.reading = r]
  OBVIOUS
<1>5. w \in Function /\ w.pc = "read" /\ w.reading \in Readings
  BY <1>3, <1>4 DEF Function, Labels
<1>6. work' = [work EXCEPT ![c] = [work[c] EXCEPT ![e] = w]]
  BY <1>2, <1>3, <1>4
<1> QED BY <1>1, <1>5, <1>6, FunctionGoesOn

LEMMA WriteKeeps ==
  ASSUME RunInv, NEW c \in Calls, NEW e \in Engines(c), Write(c, e)
  PROVE  RunInv'
<1>1. phase[c] \notin {"succeeded", "incomplete"} /\ UNCHANGED <<phase, printed, volume>>
  BY NotPrinted DEF Write
<1>2. CASE Leave(c, e, "raised")
  BY <1>1, <1>2, FunctionLeaves DEF Labels
<1>3. CASE Become(c, e, "wrote") /\ ~work[c][e].sees
  <2>1. PICK w \in Function :
          /\ w.pc = "wrote" /\ w.sees = work[c][e].sees
          /\ w.reading = work[c][e].reading
          /\ work' = [work EXCEPT ![c] = [work[c] EXCEPT ![e] = w]]
    BY <1>3, BecomeMoves DEF Labels
  <2>2. work[c][e].reading \in Readings
    BY DEF Write, RunInv, FunctionAt
  <2> QED BY <1>1, <1>3, <2>1, <2>2, FunctionGoesOn
<1> QED BY <1>2, <1>3 DEF Write

LEMMA CommitKeeps ==
  ASSUME RunInv, NEW c \in Calls, NEW e \in Engines(c), Commit(c, e)
  PROVE  RunInv'
<1>1. phase[c] \notin {"succeeded", "incomplete"} /\ UNCHANGED <<phase, printed>>
      /\ volume' = Pushed(c, e)
  BY NotPrinted DEF Commit
<1>2. PICK w \in Function :
        /\ w.pc = "returned" /\ w.reading = work[c][e].reading
        /\ work' = [work EXCEPT ![c] = [work[c] EXCEPT ![e] = w]]
  BY BecomeMoves DEF Commit, Labels
<1>3. work'[c][e] = w
  BY <1>2, WorkMoves DEF RunInv
<1>4. work[c][e].reading \in Readings
  BY DEF Commit, RunInv, FunctionAt
<1>5. FunctionAt(c, e)'
  BY <1>1, <1>2, <1>3, <1>4, PushKept DEF FunctionAt
<1> QED BY <1>1, <1>2, <1>5, FunctionMoves

LEMMA RaiseKeeps ==
  ASSUME RunInv, NEW c \in Calls, NEW e \in Engines(c), Raise(c, e)
  PROVE  RunInv'
<1>1. phase[c] \notin {"succeeded", "incomplete"} /\ UNCHANGED <<phase, printed>>
      /\ volume' \in {volume, Pushed(c, e)}
  BY DEF Raise
<1> QED BY <1>1, FunctionLeaves DEF Raise, Labels

LEMMA RestartKeeps ==
  ASSUME RunInv, NEW c \in Calls, NEW e \in Engines(c), Restart(c, e)
  PROVE  RunInv'
<1>1. phase[c] \notin {"succeeded", "incomplete"} /\ UNCHANGED <<phase, printed>>
      /\ volume' \in {volume, Pushed(c, e)}
  BY NotPrinted DEF Restart
<1> QED BY <1>1, FunctionLeaves DEF Restart, Labels

----------------------------------------------------------------------------
(* The entry points                                                        *)

\* Nothing of the functions changes.
LEMMA MainMoves ==
  ASSUME RunInv, NEW c \in Calls, NEW p \in Phases,
         phase' = [phase EXCEPT ![c] = p], UNCHANGED <<work, volume>>,
         DOMAIN printed' = Calls, \A d \in Calls \ {c} : printed'[d] = printed[d],
         p \in {"succeeded", "incomplete"} =>
           \A e \in Engines(c) :
             /\ work[c][e].pc = "returned"
             /\ printed'[c][e] = Summary(work[c][e].reading)
             /\ p = "succeeded" => Complete(work[c][e].reading)
  PROVE  RunInv'
<1>1. phase'[c] = p /\ \A d \in Calls \ {c} : phase'[d] = phase[d]
  BY DEF RunInv, RunTypes
<1>2. RunTypes'
  BY DEF RunInv, RunTypes, Engines
<1>3. ASSUME NEW d \in Calls PROVE PrintedAt(d)'
  BY <1>1 DEF RunInv, PrintedAt, Engines, Complete
<1>4. ASSUME NEW d \in Calls, NEW e \in Engines(d) PROVE FunctionAt(d, e)'
  BY DEF RunInv, FunctionAt, KeptAt, Alone
<1> QED BY <1>2, <1>3, <1>4 DEF RunInv, Engines

LEMMA BeginKeeps ==
  ASSUME RunInv, NEW c \in Calls, NEW k \in Cases, Begin(c, k)
  PROVE  RunInv'
<1>0. UNCHANGED <<volume, printed>> /\ DOMAIN printed = Calls
  BY DEF Begin, RunInv, RunTypes
<1>1. CASE phase' = [phase EXCEPT ![c] = "refused"] /\ UNCHANGED work
  BY <1>0, <1>1, MainMoves DEF Phases
<1>2. CASE /\ phase' = [phase EXCEPT ![c] = "waiting"]
           /\ work' = [work EXCEPT ![c] =
                         [e \in Engines(c) |-> [Idle EXCEPT !.pc = "called"]]]
  <2>1. PICK w : w = [Idle EXCEPT !.pc = "called"]
    OBVIOUS
  <2>2. w \in Function /\ w.pc = "called"
    BY <2>1 DEF Idle, Function, Labels
  <2>3. /\ work'[c] = [e \in Engines(c) |-> w] /\ DOMAIN work' = Calls
        /\ \A d \in Calls \ {c} : work'[d] = work[d]
    BY <1>2, <2>1 DEF RunInv, RunTypes
  <2>4. phase'[c] = "waiting" /\ \A d \in Calls \ {c} : phase'[d] = phase[d]
    BY <1>2 DEF RunInv, RunTypes
  <2>5. RunTypes'
    BY <1>0, <1>2, <2>2, <2>3 DEF RunInv, RunTypes, Phases, Engines
  <2>6. ASSUME NEW d \in Calls PROVE PrintedAt(d)'
    BY <1>0, <2>3, <2>4 DEF RunInv, PrintedAt, Engines, Complete
  <2>7. ASSUME NEW d \in Calls, NEW e \in Engines(d) PROVE FunctionAt(d, e)'
    <3>1. CASE d = c
      BY <2>2, <2>3, <3>1 DEF FunctionAt
    <3>2. CASE d # c
      BY <2>3, <3>2 DEF RunInv, FunctionAt, KeptAt, Alone, Begin
    <3> QED BY <3>1, <3>2
  <2> QED BY <2>5, <2>6, <2>7 DEF RunInv, Engines
<1> QED BY <1>1, <1>2 DEF Begin

LEMMA ReportKeeps ==
  ASSUME RunInv, NEW c \in Calls, Report(c)
  PROVE  RunInv'
<1>1. PICK p \in {"succeeded", "incomplete"} :
        /\ phase' = [phase EXCEPT ![c] = p]
        /\ p = "succeeded" => \A e \in Engines(c) : Complete(work[c][e].reading)
  BY DEF Report
<1>2. /\ DOMAIN printed' = Calls /\ \A d \in Calls \ {c} : printed'[d] = printed[d]
      /\ \A e \in Engines(c) : printed'[c][e] = Summary(work[c][e].reading)
  BY DEF Report, RunInv, RunTypes
<1>3. /\ \A e \in Engines(c) : work[c][e].pc = "returned"
      /\ UNCHANGED <<work, volume>> /\ p \in Phases
  BY DEF Report, Phases
<1> QED BY <1>1, <1>2, <1>3, MainMoves

LEMMA AbortKeeps ==
  ASSUME RunInv, NEW c \in Calls, Abort(c)
  PROVE  RunInv'
<1>1. UNCHANGED <<work, volume, printed>> /\ DOMAIN printed = Calls
  BY DEF Abort, RunInv, RunTypes
<1> QED BY <1>1, MainMoves DEF Abort, Phases

----------------------------------------------------------------------------
LEMMA RunInit == Init => RunInv
<1> SUFFICES ASSUME Init PROVE RunInv
  OBVIOUS
<1>1. Idle \in Function /\ Idle.pc = "idle"
  BY DEF Idle, Function, Labels
<1>2. \A c \in Calls : work[c] = [e \in Engines(c) |-> Idle]
  BY DEF Init
<1>3. RunTypes
  BY <1>1, <1>2 DEF Init, RunTypes, Phases
<1>4. \A c \in Calls : PrintedAt(c)
  BY DEF Init, PrintedAt
<1>5. \A c \in Calls : \A e \in Engines(c) : FunctionAt(c, e)
  BY <1>1, <1>2 DEF FunctionAt
<1> QED BY <1>3, <1>4, <1>5 DEF RunInv

LEMMA RunNext == RunInv /\ [Next]_vars => RunInv'
<1> SUFFICES ASSUME RunInv, [Next]_vars PROVE RunInv'
  OBVIOUS
<1>1. ASSUME NEW c \in Calls, NEW k \in Cases, Begin(c, k) PROVE RunInv'
  BY <1>1, BeginKeeps
<1>2. ASSUME NEW c \in Calls, Report(c) \/ Abort(c) PROVE RunInv'
  BY <1>2, ReportKeeps, AbortKeeps
<1>3. ASSUME NEW c \in Calls, NEW e \in Engines(c),
             \/ Mount(c, e) \/ Read(c, e) \/ Write(c, e) \/ Commit(c, e)
             \/ Restart(c, e) \/ Raise(c, e)
      PROVE  RunInv'
  BY <1>3, MountKeeps, ReadKeeps, WriteKeeps, CommitKeeps, RestartKeeps, RaiseKeeps
<1>4. CASE UNCHANGED vars
  BY <1>4 DEF vars, RunInv, RunTypes, PrintedAt, FunctionAt, KeptAt, Alone,
     Complete, Engines
<1> QED BY <1>1, <1>2, <1>3, <1>4 DEF Next, Terminating

LEMMA RunAlways == Spec => []RunInv
BY RunInit, RunNext, PTL DEF Spec

----------------------------------------------------------------------------
(* A printed summary has its artifacts in the Volume, whoever else used    *)
(* the run id and whatever was lost; under an id of its own they are the   *)
(* readings that were counted, complete if the run succeeded.              *)
THEOREM PrintedCountsAreKept == Spec => []PrintedIsKept
<1>1. RunInv => PrintedIsKept
  <2> SUFFICES ASSUME RunInv, NEW c \in Calls,
                      phase[c] \in {"succeeded", "incomplete"}, NEW e \in Engines(c)
               PROVE  \E x \in volume :
                        /\ x.id = RunId[c] /\ x.engine = e
                        /\ Alone(c) =>
                             /\ x.reading = work[c][e].reading
                             /\ phase[c] = "succeeded" =>
                                  \A p \in Pages : ~x.reading[p].empty
    BY DEF PrintedIsKept
  <2>1. KeptAt(c, e) /\ (phase[c] = "succeeded" => Complete(work[c][e].reading))
    BY DEF RunInv, PrintedAt, FunctionAt
  <2> QED BY <2>1 DEF KeptAt, Complete
<1> QED BY <1>1, RunAlways, PTL

(* The printed recall is that of the things the list asks for and the      *)
(* reading says, however the list repeats or spells them.                  *)
THEOREM RecallIsTrue == Spec => []RecallRecounts
<1>1. RunInv => RecallRecounts
  <2> SUFFICES ASSUME RunInv, NEW c \in Calls,
                      phase[c] \in {"succeeded", "incomplete"}, NEW e \in Engines(c)
               PROVE  LET reading == work[c][e].reading
                      IN  /\ printed[c][e].expected
                               = SumFunction([p \in Pages |-> Asked(Expected[p])])
                          /\ printed[c][e].found
                               = SumFunction([p \in Pages |-> Said(Expected[p], reading[p].tokens)])
    BY DEF RecallRecounts
  <2>1. /\ printed[c][e] = Summary(work[c][e].reading)
        /\ work[c][e].reading \in Readings
    BY DEF RunInv, PrintedAt, FunctionAt
  <2> QED BY <2>1, SummaryCounts
<1> QED BY <1>1, RunAlways, PTL

(* write_raw_cloud_result creates its file exclusively in its own mount:   *)
(* what a commit replaces was not there when that container started.       *)
THEOREM ArtifactsStay == Spec => OldArtifactsStay
<1>1. RunInv /\ [Next]_vars =>
        [\A x \in volume :
           \/ x \in volume'
           \/ \E c \in Calls : \E e \in Engines(c) :
                /\ RunId[c] = x.id /\ e = x.engine
                /\ work[c][e].pc = "wrote" /\ ~work[c][e].sees]_vars
  <2> SUFFICES ASSUME RunInv, Next, NEW x \in volume, x \notin volume'
               PROVE  \E c \in Calls : \E e \in Engines(c) :
                        /\ RunId[c] = x.id /\ e = x.engine
                        /\ work[c][e].pc = "wrote" /\ ~work[c][e].sees
    BY DEF vars
  <2>1. PICK c \in Calls : \E e \in Engines(c) :
          volume' = Pushed(c, e) /\ work[c][e].pc = "wrote"
    <3>1. volume' # volume
      OBVIOUS
    <3>2. \A c \in Calls : /\ ~Report(c) /\ ~Abort(c)
                           /\ \A k \in Cases : ~Begin(c, k)
      BY <3>1 DEF Begin, Report, Abort
    <3>3. \A c \in Calls : \A e \in Engines(c) :
            ~Mount(c, e) /\ ~Read(c, e) /\ ~Write(c, e)
      BY <3>1 DEF Mount, Read, Write
    <3>4. ~Terminating
      BY <3>1 DEF Terminating, vars
    <3>5. \E c \in Calls : \E e \in Engines(c) :
            Commit(c, e) \/ Restart(c, e) \/ Raise(c, e)
      BY <3>2, <3>3, <3>4 DEF Next
    <3> QED BY <3>1, <3>5 DEF Commit, Restart, Raise
  <2>2. PICK e \in Engines(c) : volume' = Pushed(c, e) /\ work[c][e].pc = "wrote"
    BY <2>1
  <2>3. ~work[c][e].sees
    BY <2>2 DEF RunInv, FunctionAt
  <2>4. x.id = RunId[c] /\ x.engine = e
    BY <2>2 DEF Pushed
  <2> QED BY <2>2, <2>3, <2>4
<1> QED BY <1>1, RunAlways, PTL DEF Spec, OldArtifactsStay

=============================================================================
