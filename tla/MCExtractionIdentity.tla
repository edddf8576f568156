------------------------- MODULE MCExtractionIdentity -------------------------
(***************************************************************************)
(* Three calls for the same few regions under an old release, upgrades of  *)
(* it that each change one thing, and a development process with the mock. *)
(* One box reaches over the edge of its page, one lies off it, and one     *)
(* request is for a page the document does not have.  At 72 dpi the sides  *)
(* of the inner box, padded by just enough, lie half-way between an odd    *)
(* and an even pixel and half-way between an even and an odd one; at 200   *)
(* dpi its right side is rounded down, and clamped nowhere.                *)
(*                                                                         *)
(* Lengths are in quarters of a point.                                     *)
(***************************************************************************)
EXTENDS ExtractionIdentity, TLC

CallSymmetry == Permutations(Calls)

\* Positions are a quarter of a pixel off at most, some up and some down.
MCScaled(s, dpi) == (s * dpi + 71 * (s % 2)) \div 72

Page(drawn) == [drawn |-> drawn, width |-> 68, height |-> 44, exists |-> TRUE]
Missing == [Page("nothing") EXCEPT !.exists = FALSE]

Corner == [left |-> 0, top |-> 12, right |-> 36, bottom |-> 48]
Inner == [left |-> 9, top |-> 3, right |-> 31, bottom |-> 19]
Beside == [left |-> 120, top |-> 12, right |-> 160, bottom |-> 36]

Asked(key, page, box) == [key |-> key, doc |-> "report", page |-> page, box |-> box]

SomeRequests ==
  {Asked("first", Page("plan"), Corner), Asked("second", Page("plan"), Corner),
   Asked("second", Page("log"), Corner), Asked("third", Page("plan"), WholePage),
   Asked("third", Page("plan"), Inner), Asked("third", Page("plan"), Beside),
   Asked("third", Missing, WholePage)}

Old == [provider |-> "modal", model |-> "qwen", revision |-> "one",
        prompt |-> "v1", preprocess |-> "v1", contract |-> "c1",
        render |-> "r1", dpi |-> 200, padding |-> 24]

SomeReleases ==
  {Old, [Old EXCEPT !.contract = "c2"], [Old EXCEPT !.revision = "two"],
   [Old EXCEPT !.dpi = 72, !.padding = 3], [Old EXCEPT !.provider = "mock"]}

SomeBuilds ==
  {[model |-> "qwen", revision |-> "one"], [model |-> "qwen", revision |-> "two"]}

=============================================================================
