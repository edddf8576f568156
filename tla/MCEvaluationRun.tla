---------------------------- MODULE MCEvaluationRun ----------------------------
(***************************************************************************)
(* Two probes that share a run id, and a comparison under it as well.  The *)
(* expected tokens are an identifier in two spellings, a phrase that ends  *)
(* in a number without being one, a word that begins another, and a phrase *)
(* at the end of its sheet.  One sheet fails in one reading, and has only  *)
(* punctuation in another.                                                 *)
(***************************************************************************)
EXTENDS EvaluationRun

ToolOf == "c1" :> "ocr" @@ "c2" :> "vision" @@ "c3" :> "vision"
RunIdOf == "c1" :> "one" @@ "c2" :> "one" @@ "c3" :> "one"

Case(annotation, allowed, stored) ==
  [annotation |-> annotation, allowed |-> allowed, stored |-> stored]
SomeCases ==
  {Case("provisional_tokens", 79 .. 91, "intact"),
   Case("provisional_tokens", 79 .. 91, "altered"),
   Case("provisional_tokens", {85}, "intact"),
   Case("unannotated", 79 .. 91, "intact")}

ExpectedOf ==
  85 :> << <<Word("t"), Number("1")>>, <<Joined("t", "1")>>,
           <<Word("reach"), Number("1")>> >>
  @@ 86 :> << <<Word("sand")>>, <<Word("ross"), Word("ave")>> >>

Text(tokens) == [empty |-> FALSE, tokens |-> tokens]
Failed == [empty |-> TRUE, tokens |-> <<>>]

SomeReadings ==
  {85 :> Text(<<>>)
     @@ 86 :> Text(<<Word("sandstone"), Word("ross"), Word("ave")>>),
   85 :> Text(<<Word("at"), Number("1"), Word("reach"), Joined("t", "1"), Number("10")>>)
     @@ 86 :> Failed,
   85 :> Text(<<Joined("at", "1"), Word("t"), Number("1"), Word("reach"), Number("1")>>)
     @@ 86 :> Text(<<Word("ross"), Word("sand"), Word("ave"), Word("sand")>>)}

=============================================================================
