-------------------------- MODULE MCObservationStore --------------------------
(***************************************************************************)
(* Three extractions and one with a foreign citation about two boreholes.  *)
(* The first two report them in opposite orders; A is stored already, with *)
(* a geometry.  The third reports A twice, first without coordinates.      *)
(***************************************************************************)
EXTENDS ObservationStore, TLC

Borehole(name, east, north, depth, intervals) ==
  [name |-> name, east |-> east, north |-> north, depth |-> depth,
   intervals |-> intervals]
Extraction(srid, foreign, reports) ==
  [srid |-> srid, foreign |-> foreign, reports |-> reports]

MCRequest ==
  "c1" :> Extraction(1, FALSE, <<Borehole("A", 2, 1, 1, 1), Borehole("B", 1, 1, 1, 0)>>)
  @@ "c2" :> Extraction(2, FALSE, <<Borehole("B", 1, 1, 2, 1), Borehole("A", 1, 2, 1, 0)>>)
  @@ "c3" :> Extraction(1, FALSE, <<Borehole("A", Null, Null, 2, 0),
                                    Borehole("A", 1, 1, 2, 1)>>)
  @@ "c4" :> Extraction(Null, TRUE, <<Borehole("B", 1, 1, 1, 0)>>)
MCCalls == DOMAIN MCRequest
MCBoreholes == {"A", "B"}
MCEarlier ==
  "A" :> [east |-> 1, north |-> 1, depth |-> 1, srid |-> 1, geom |-> <<1, 1, 1>>]
  @@ "B" :> NoRow
=============================================================================
