--------------------------- MODULE MCProjectUpload ---------------------------
(***************************************************************************)
(* Two copies of the same report under different suffixes and one other    *)
(* report, into one project, over a store that offers three ids: one holds *)
(* a legacy entry from the start, and one cannot be unlinked.  Ids collide *)
(* in most runs.                                                           *)
(***************************************************************************)
EXTENDS ProjectUpload, TLC

CONSTANTS u1, u2, u3, p1, i1, i2, i3

MCUploads == {u1, u2, u3}
MCProjects == {p1}
MCIds == {i1, i2, i3}
MCAsked ==
  (u1 :> [project |-> p1, sha |-> "a", suffix |-> ".pdf"]) @@
  (u2 :> [project |-> p1, sha |-> "a", suffix |-> ".docx"]) @@
  (u3 :> [project |-> p1, sha |-> "b", suffix |-> ".pdf"])
=============================================================================
