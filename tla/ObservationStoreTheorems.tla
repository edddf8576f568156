------------------------ MODULE ObservationStoreTheorems ------------------------
(***************************************************************************)
(* What ObservationStore promises for any calls, extractions and earlier   *)
(* rows: an extraction is stored whole or not at all, a row is written as  *)
(* reported unless somebody came between, and a geometry is labelled.      *)
(***************************************************************************)
EXTENDS ObservationStore, TLAPS

Labels == {"begin", "select", "write", "left"}
Outcomes == {"", "ProvenanceError", "IntegrityError", "OperationalError", "DIED",
             "PERSISTED"}

\* A row, or none, for each borehole.
Rows == [Boreholes -> Row \cup {NoRow}]
Fact == [by : Calls, report : Nat, item : Nat]

StoreTypes ==
  /\ borehole \in Rows /\ facts \in SUBSET Fact
  /\ written \in [Calls -> Rows] /\ mine \in [Calls -> Rows]
  /\ staged \in [Calls -> SUBSET Fact]
  /\ pos \in [Calls -> Nat] /\ pc \in [Calls -> Labels]
  /\ outcome \in [Calls -> Outcomes]

\* The facts of the first k reports of an extraction.
FactsTo(c, k) == {f \in AllFacts(c) : f.report <= k}

\* A call is at one of its reports, and has staged what the earlier ones say;
\* one that began or left has nothing open.
PlacedAt(c) ==
  /\ pos[c] \in 1 .. Len(Request[c].reports) + 1
  /\ pc[c] = "write" => pos[c] <= Len(Request[c].reports)
  /\ pc[c] \in {"select", "write"} => staged[c] = FactsTo(c, pos[c] - 1)
  /\ pc[c] \in {"begin", "left"} => staged[c] = {} /\ written[c] = Nothing
  /\ pc[c] = "begin" => pos[c] = 1
  /\ outcome[c] = "PERSISTED" => pc[c] = "left"

\* What is stored of a call is all of it, or nothing.
StoredAt(c) ==
  {f \in facts : f.by = c} = IF outcome[c] = "PERSISTED" THEN AllFacts(c) ELSE {}

\* A version that waits for its COMMIT passed the checks, and its evidence
\* waits with it.
DraftAt(c, n) ==
  written[c][n] # NoRow =>
    /\ Consistent(written[c][n])
    /\ \E f \in staged[c] : f.item = 0 /\ Subject(f) = n

\* What a session knows, or has staged facts about, is a row it works on.
KnownAt(c) ==
  /\ \A n \in Boreholes : mine[c][n] # NoRow => Latest(c, n) # NoRow
  /\ \A f \in staged[c] : f.by = c /\ Latest(c, Subject(f)) # NoRow

\* No row of the table without evidence, but those that came earlier.
RowAt(n) ==
  /\ borehole[n] # NoRow => Consistent(borehole[n])
  /\ borehole[n] # Earlier[n] => \E f \in facts : f.item = 0 /\ Subject(f) = n

StoreInv ==
  /\ StoreTypes
  /\ \A c \in Calls : PlacedAt(c) /\ StoredAt(c) /\ KnownAt(c)
  /\ \A c \in Calls : \A n \in Boreholes : DraftAt(c, n)
  /\ \A n \in Boreholes : RowAt(n)
  /\ \A f \in facts : Subject(f) \in Boreholes /\ borehole[Subject(f)] # NoRow

----------------------------------------------------------------------------
(* Lemmas about the operators                                              *)

\* The report a call is at, and the row it asks for.
LEMMA ReportsOf ==
  ASSUME NEW c \in Calls
  PROVE  /\ Len(Request[c].reports) \in Nat
         /\ DOMAIN Request[c].reports = 1 .. Len(Request[c].reports)
         /\ \A i \in DOMAIN Request[c].reports :
              /\ Request[c].reports[i] \in Reported
              /\ Request[c].reports[i].name \in Boreholes
              /\ Request[c].reports[i].intervals \in Nat
<1>1. Request[c].reports \in Seq(Reported)
  BY ObservationAssumption
<1>2. \A r \in Reported : r.name \in Boreholes /\ r.intervals \in Nat
  BY DEF Reported
<1> QED BY <1>1, <1>2

LEMMA UpsertedIsRow ==
  ASSUME NEW c \in Calls, pos[c] \in DOMAIN Request[c].reports
  PROVE  /\ Name(c) \in Boreholes /\ Upserted(c) \in Row
         /\ Upserted(c) # NoRow /\ Consistent(Upserted(c))
<1>1. /\ Report(c).name \in Boreholes /\ Report(c).east \in Number
      /\ Report(c).north \in Number /\ Report(c).depth \in Number
  <2>1. Report(c) \in Reported
    BY ReportsOf DEF Report
  <2> QED BY <2>1 DEF Reported
<1>2. Report(c).east = Null <=> Report(c).north = Null
  BY ObservationAssumption DEF Report
<1>3. Request[c].srid = Null \/ Request[c].srid \in Nat \ {0}
  BY ObservationAssumption
<1>4. CASE Located(c)
  <2>1. /\ Report(c).east \in Int /\ Report(c).north \in Int
        /\ Request[c].srid \in Int /\ Report(c).east # Null
    BY <1>1, <1>2, <1>3, <1>4 DEF Located, Number
  <2>2. /\ Upserted(c).east = Report(c).east /\ Upserted(c).north = Report(c).north
        /\ Upserted(c).srid = Request[c].srid
        /\ Upserted(c).geom =
             <<Report(c).east, Report(c).north, Request[c].srid>>
    BY <1>4 DEF Upserted
  <2>3. Upserted(c) \in Row
    BY <1>1, <1>4, <2>1 DEF Upserted, Row, Number
  <2>4. Consistent(Upserted(c))
    BY <1>2, <2>1, <2>2 DEF Consistent
  <2> QED BY <1>1, <2>3, <2>4, ObservationAssumption DEF Name
<1>5. CASE ~Located(c)
  <2>1. /\ Upserted(c).east = Report(c).east /\ Upserted(c).north = Report(c).north
        /\ Upserted(c).geom = Null
    BY <1>5 DEF Upserted
  <2>2. Upserted(c) \in Row
    BY <1>1, <1>5 DEF Upserted, Row, Number
  <2>3. Consistent(Upserted(c))
    BY <1>2, <2>1 DEF Consistent
  <2> QED BY <1>1, <2>2, <2>3, ObservationAssumption DEF Name
<1> QED BY <1>4, <1>5

\* A fact tells its call, its report and its borehole.
LEMMA FactsTell ==
  ASSUME NEW c \in Calls, NEW i \in DOMAIN Request[c].reports, NEW f \in FactsOf(c, i)
  PROVE  /\ f \in Fact /\ f.by = c /\ f.report = i
         /\ Subject(f) = Request[c].reports[i].name /\ Subject(f) \in Boreholes
<1>1. PICK j \in 0 .. Request[c].reports[i].intervals :
        f = [by |-> c, report |-> i, item |-> j]
  BY DEF FactsOf
<1>2. i \in Nat /\ j \in Nat
  BY ReportsOf
<1>3. f.by = c /\ f.report = i /\ f \in Fact
  BY <1>1, <1>2 DEF Fact
<1> QED BY <1>3, ReportsOf DEF Subject

\* Each report brings evidence for its borehole.
LEMMA EvidenceOf ==
  ASSUME NEW c \in Calls, NEW i \in DOMAIN Request[c].reports
  PROVE  \E f \in FactsOf(c, i) : f.item = 0
<1>1. 0 \in 0 .. Request[c].reports[i].intervals
  BY ReportsOf
<1>2. [by |-> c, report |-> i, item |-> 0] \in FactsOf(c, i)
  BY <1>1 DEF FactsOf
<1> QED BY <1>2

LEMMA AllFactsTell ==
  ASSUME NEW c \in Calls, NEW f \in AllFacts(c)
  PROVE  /\ f \in Fact /\ f.by = c /\ Subject(f) \in Boreholes
         /\ f.report \in DOMAIN Request[c].reports /\ f \in FactsOf(c, f.report)
<1>1. PICK i \in DOMAIN Request[c].reports : f \in FactsOf(c, i)
  BY DEF AllFacts
<1> QED BY <1>1, FactsTell

\* The staged facts grow by one report at a time, from none to all.
LEMMA FactsGrow ==
  ASSUME NEW c \in Calls
  PROVE  /\ FactsTo(c, 0) = {}
         /\ FactsTo(c, Len(Request[c].reports)) = AllFacts(c)
         /\ \A i \in DOMAIN Request[c].reports :
              FactsTo(c, i) = FactsTo(c, i - 1) \cup FactsOf(c, i)
<1>1. \A f \in AllFacts(c) :
        f.report \in Nat /\ 1 <= f.report /\ f.report <= Len(Request[c].reports)
  BY AllFactsTell, ReportsOf
<1>2. FactsTo(c, 0) = {}
  BY <1>1 DEF FactsTo
<1>3. FactsTo(c, Len(Request[c].reports)) = AllFacts(c)
  BY <1>1 DEF FactsTo
<1>4. ASSUME NEW i \in DOMAIN Request[c].reports
      PROVE  FactsTo(c, i) = FactsTo(c, i - 1) \cup FactsOf(c, i)
  <2>1. i \in Nat
    BY ReportsOf
  <2>2. ASSUME NEW f \in FactsOf(c, i) PROVE f \in AllFacts(c) /\ f.report = i
    BY FactsTell DEF AllFacts
  <2>3. ASSUME NEW f \in AllFacts(c), f.report <= i
        PROVE  f.report <= i - 1 \/ f \in FactsOf(c, i)
    BY <1>1, <2>1, <2>3, AllFactsTell
  <2>4. \A f \in AllFacts(c) : f.report <= i - 1 => f.report <= i
    BY <1>1, <2>1
  <2> QED BY <2>1, <2>2, <2>3, <2>4 DEF FactsTo
<1> QED BY <1>2, <1>3, <1>4

\* Every row a session reads is a row.
LEMMA LatestIsRow ==
  ASSUME StoreTypes, NEW c \in Calls, NEW n \in Boreholes
  PROVE  Latest(c, n) \in Row \cup {NoRow}
BY DEF StoreTypes, Rows, Latest

----------------------------------------------------------------------------
(* Sessions do not disturb each other                                      *)

\* No row goes away and no facts of its own come: all a session relies on.
LEMMA OthersKeep ==
  ASSUME StoreInv, NEW d \in Calls,
         written'[d] = written[d], staged'[d] = staged[d], mine'[d] = mine[d],
         pos'[d] = pos[d], pc'[d] = pc[d], outcome'[d] = outcome[d],
         \A n \in Boreholes : borehole[n] # NoRow => borehole'[n] # NoRow,
         \A f : f.by = d => (f \in facts' <=> f \in facts)
  PROVE  /\ PlacedAt(d)' /\ StoredAt(d)' /\ KnownAt(d)'
         /\ \A n \in Boreholes : DraftAt(d, n)'
<1>1. PlacedAt(d) /\ StoredAt(d) /\ KnownAt(d) /\ \A n \in Boreholes : DraftAt(d, n)
  BY DEF StoreInv
<1>2. PlacedAt(d)'
  BY <1>1 DEF PlacedAt, FactsTo
<1>3. StoredAt(d)'
  BY <1>1 DEF StoredAt
<1>4. \A n \in Boreholes : Latest(d, n) # NoRow => Latest(d, n)' # NoRow
  BY DEF Latest
<1>5. \A f \in staged[d] : Subject(f) \in Boreholes
  <2>1. staged[d] = {} \/ staged[d] = FactsTo(d, pos[d] - 1)
    BY <1>1 DEF PlacedAt, StoreInv, StoreTypes, Labels
  <2> QED BY <2>1, AllFactsTell DEF FactsTo
<1>6. KnownAt(d)'
  <2>1. \A n \in Boreholes : mine'[d][n] # NoRow => Latest(d, n)' # NoRow
    BY <1>1, <1>4 DEF KnownAt
  <2>2. ASSUME NEW f \in staged'[d] PROVE f.by = d /\ Latest(d, Subject(f))' # NoRow
    <3>1. PICK n \in Boreholes : n = Subject(f)
      BY <1>5
    <3>2. f.by = d /\ Latest(d, n) # NoRow
      BY <1>1, <3>1 DEF KnownAt
    <3>3. Latest(d, n)' # NoRow
      BY <1>4, <3>2
    <3> QED BY <3>1, <3>2, <3>3 DEF Subject
  <2> QED BY <2>1, <2>2 DEF KnownAt
<1>7. \A n \in Boreholes : DraftAt(d, n)'
  BY <1>1 DEF DraftAt, Consistent, Subject
<1> QED BY <1>2, <1>3, <1>6, <1>7

\* While the tables stay as they are, one session moves.
LEMMA OneSessionMoves ==
  ASSUME StoreInv, StoreTypes', NEW c \in Calls, UNCHANGED database,
         \A d \in Calls \ {c} :
           /\ written'[d] = written[d] /\ staged'[d] = staged[d]
           /\ mine'[d] = mine[d] /\ pos'[d] = pos[d] /\ pc'[d] = pc[d]
           /\ outcome'[d] = outcome[d],
         PlacedAt(c)', StoredAt(c)', KnownAt(c)',
         \A n \in Boreholes : DraftAt(c, n)'
  PROVE  StoreInv'
<1>1. ASSUME NEW d \in Calls
      PROVE  /\ PlacedAt(d)' /\ StoredAt(d)' /\ KnownAt(d)'
             /\ \A n \in Boreholes : DraftAt(d, n)'
  <2>1. CASE d = c
    BY <2>1
  <2>2. CASE d # c
    BY <2>2, OthersKeep DEF database
  <2> QED BY <2>1, <2>2
<1>2. \A n \in Boreholes : RowAt(n)'
  BY DEF StoreInv, RowAt, database, Consistent, Subject
<1>3. \A f \in facts' : Subject(f)' \in Boreholes /\ borehole'[Subject(f)] # NoRow
  BY DEF StoreInv, database, Subject
<1> QED BY <1>1, <1>2, <1>3 DEF StoreInv

----------------------------------------------------------------------------
(* The steps                                                               *)

\* unit_of_work rolls back: nothing of the call is left.
LEMMA RollBackKeeps ==
  ASSUME StoreInv, NEW c \in Calls, NEW o \in Outcomes \ {"PERSISTED"},
         pc[c] # "left", RollBack(c, o)
  PROVE  StoreInv'
<1>1. Nothing \in Rows /\ \A n \in Boreholes : Nothing[n] = NoRow
  BY DEF Nothing, Rows
<1>2. StoreTypes'
  BY <1>1 DEF StoreInv, StoreTypes, RollBack, database, Labels
<1>3. /\ written'[c] = Nothing /\ staged'[c] = {} /\ mine'[c] = Nothing
      /\ pos'[c] = pos[c] /\ pc'[c] = "left" /\ outcome'[c] = o
  BY DEF StoreInv, StoreTypes, RollBack
<1>4. \A d \in Calls \ {c} :
        /\ written'[d] = written[d] /\ staged'[d] = staged[d]
        /\ mine'[d] = mine[d] /\ pos'[d] = pos[d] /\ pc'[d] = pc[d]
        /\ outcome'[d] = outcome[d]
  BY DEF StoreInv, StoreTypes, RollBack
<1>5. PlacedAt(c) /\ StoredAt(c)
  BY DEF StoreInv
<1>6. PlacedAt(c)'
  BY <1>3, <1>5 DEF PlacedAt
<1>7. StoredAt(c)'
  BY <1>3, <1>5 DEF PlacedAt, StoredAt, RollBack, database
<1>8. KnownAt(c)' /\ \A n \in Boreholes : DraftAt(c, n)'
  BY <1>1, <1>3 DEF KnownAt, DraftAt
<1> QED BY <1>2, <1>4, <1>6, <1>7, <1>8, OneSessionMoves DEF RollBack

LEMMA BeginKeeps ==
  ASSUME StoreInv, NEW c \in Calls, Begin(c)
  PROVE  StoreInv'
<1>1. CASE RollBack(c, "ProvenanceError")
  BY <1>1, RollBackKeeps DEF Begin, Outcomes
<1>2. CASE pc' = [pc EXCEPT ![c] = "select"]
           /\ UNCHANGED <<database, written, staged, mine, pos, outcome>>
  <2>1. StoreTypes'
    BY <1>2 DEF StoreInv, StoreTypes, database, Labels
  <2>2. pc'[c] = "select" /\ \A d \in Calls \ {c} : pc'[d] = pc[d]
    BY <1>2 DEF StoreInv, StoreTypes
  <2>3. PlacedAt(c) /\ StoredAt(c) /\ KnownAt(c) /\ \A n \in Boreholes : DraftAt(c, n)
    BY DEF StoreInv
  <2>4. pos[c] - 1 = 0 /\ pc[c] = "begin" /\ staged[c] = {}
    BY <2>3 DEF Begin, PlacedAt
  <2>5. PlacedAt(c)'
    <3>1. FactsTo(c, 0) = {}
      BY FactsGrow
    <3>2. staged[c] = FactsTo(c, pos[c] - 1)
      BY <2>4, <3>1
    <3>3. outcome[c] # "PERSISTED"
      BY <2>3, <2>4 DEF PlacedAt
    <3> QED BY <1>2, <2>2, <2>3, <2>4, <3>2, <3>3 DEF PlacedAt, FactsTo
  <2>6. StoredAt(c)'
    BY <1>2, <2>3 DEF StoredAt, database
  <2>7. KnownAt(c)'
    BY <1>2, <2>3 DEF KnownAt, Latest, database, Subject
  <2>8. \A n \in Boreholes : DraftAt(c, n)'
    BY <1>2, <2>3 DEF DraftAt, Consistent, Subject
  <2> QED BY <1>2, <2>1, <2>2, <2>5, <2>6, <2>7, <2>8, OneSessionMoves
<1> QED BY <1>1, <1>2 DEF Begin

LEMMA SelectKeeps ==
  ASSUME StoreInv, NEW c \in Calls, Select(c)
  PROVE  StoreInv'
<1>1. pos[c] \in DOMAIN Request[c].reports
  BY ReportsOf DEF StoreInv, PlacedAt, Select
<1>2. PICK n \in Boreholes : n = Name(c)
  BY <1>1, UpsertedIsRow
<1>3. UNCHANGED <<database, written, staged, pos, outcome>>
      /\ pc' = [pc EXCEPT ![c] = "write"]
  BY DEF Select
<1>4. borehole[n] \in Row \cup {NoRow} /\ mine[c] \in Rows /\ mine \in [Calls -> Rows]
  BY DEF StoreInv, StoreTypes, Rows
<1>5. /\ mine' \in [Calls -> Rows] /\ \A d \in Calls \ {c} : mine'[d] = mine[d]
      /\ \A m \in Boreholes \ {n} : mine'[c][m] = mine[c][m]
      /\ mine'[c][n] \in {mine[c][n], borehole[n]}
  <2>1. CASE mine' = mine
    BY <2>1, <1>4
  <2>2. CASE mine' = [mine EXCEPT ![c][n] = borehole[n]]
    <3>1. PICK rows \in Rows : rows = [mine[c] EXCEPT ![n] = borehole[n]]
      BY <1>4 DEF Rows
    <3>2. mine' = [mine EXCEPT ![c] = rows]
      BY <2>2, <3>1
    <3> QED BY <1>4, <3>1, <3>2 DEF Rows
  <2> QED BY <1>2, <2>1, <2>2 DEF Select
<1>6. StoreTypes'
  BY <1>3, <1>5 DEF StoreInv, StoreTypes, database, Labels
<1>7. pc'[c] = "write" /\ pc[c] = "select" /\ \A d \in Calls \ {c} : pc'[d] = pc[d]
  BY DEF StoreInv, StoreTypes, Select
<1>8. PlacedAt(c) /\ StoredAt(c) /\ KnownAt(c) /\ \A m \in Boreholes : DraftAt(c, m)
  BY DEF StoreInv
<1>9. PlacedAt(c)'
  BY <1>3, <1>7, <1>8 DEF PlacedAt, FactsTo, Select
<1>10. StoredAt(c)'
  BY <1>3, <1>8 DEF StoredAt, database
<1>11. KnownAt(c)'
  <2>1. \A m \in Boreholes : Latest(c, m)' = Latest(c, m)
    BY <1>3 DEF Latest, database
  <2>2. borehole[n] # NoRow => Latest(c, n) # NoRow
    BY DEF Latest
  <2>3. \A m \in Boreholes : mine'[c][m] # NoRow => Latest(c, m)' # NoRow
    BY <1>5, <1>8, <2>1, <2>2 DEF KnownAt
  <2>4. \A f \in staged'[c] : f.by = c /\ Latest(c, Subject(f))' # NoRow
    BY <1>3, <1>8 DEF KnownAt, Latest, database, Subject
  <2> QED BY <2>3, <2>4 DEF KnownAt
<1>12. \A m \in Boreholes : DraftAt(c, m)'
  BY <1>3, <1>8 DEF DraftAt, Consistent, Subject
<1> QED BY <1>3, <1>5, <1>6, <1>7, <1>9, <1>10, <1>11, <1>12, OneSessionMoves

\* What flushing a version leaves the session with.
LEMMA FlushedParts ==
  ASSUME StoreInv, NEW c \in Calls, pos[c] \in DOMAIN Request[c].reports,
         NEW n \in Boreholes, n = Name(c),
         NEW version \in Row \cup {NoRow}, Flushed(c, version)
  PROVE  /\ StoreTypes'
         /\ \A d \in Calls \ {c} :
              /\ written'[d] = written[d] /\ staged'[d] = staged[d]
              /\ mine'[d] = mine[d] /\ pos'[d] = pos[d] /\ pc'[d] = pc[d]
              /\ outcome'[d] = outcome[d]
         /\ written'[c][n] = version /\ mine'[c][n] = Upserted(c)
         /\ \A m \in Boreholes \ {n} :
              written'[c][m] = written[c][m] /\ mine'[c][m] = mine[c][m]
         /\ staged'[c] = staged[c] \cup FactsOf(c, pos[c])
         /\ pos'[c] = pos[c] + 1 /\ pc'[c] = "select" /\ outcome'[c] = outcome[c]
<1>1. /\ written \in [Calls -> Rows] /\ mine \in [Calls -> Rows]
      /\ written[c] \in Rows /\ mine[c] \in Rows
      /\ staged \in [Calls -> SUBSET Fact] /\ pos \in [Calls -> Nat]
      /\ pc \in [Calls -> Labels]
  BY DEF StoreInv, StoreTypes
<1>2. Upserted(c) \in Row
  BY UpsertedIsRow
<1>3. PICK rows \in Rows : rows = [written[c] EXCEPT ![n] = version]
  BY <1>1 DEF Rows
<1>4. PICK known \in Rows : known = [mine[c] EXCEPT ![n] = Upserted(c)]
  BY <1>1, <1>2 DEF Rows
<1>5. /\ written' = [written EXCEPT ![c] = rows]
      /\ mine' = [mine EXCEPT ![c] = known]
  BY <1>3, <1>4 DEF Flushed
<1>6. FactsOf(c, pos[c]) \in SUBSET Fact
  BY FactsTell
<1>7. /\ written' \in [Calls -> Rows] /\ mine' \in [Calls -> Rows]
      /\ written'[c] = rows /\ mine'[c] = known
      /\ \A d \in Calls \ {c} : written'[d] = written[d] /\ mine'[d] = mine[d]
  BY <1>1, <1>5
<1>8. /\ written'[c][n] = version /\ mine'[c][n] = Upserted(c)
      /\ \A m \in Boreholes \ {n} :
           written'[c][m] = written[c][m] /\ mine'[c][m] = mine[c][m]
  BY <1>1, <1>3, <1>4, <1>7 DEF Rows
<1>9. /\ staged' \in [Calls -> SUBSET Fact]
      /\ staged'[c] = staged[c] \cup FactsOf(c, pos[c])
      /\ \A d \in Calls \ {c} : staged'[d] = staged[d]
  BY <1>1, <1>6 DEF Flushed
<1>10. /\ pos' \in [Calls -> Nat] /\ pos'[c] = pos[c] + 1
       /\ pc' \in [Calls -> Labels] /\ pc'[c] = "select"
       /\ \A d \in Calls \ {c} : pos'[d] = pos[d] /\ pc'[d] = pc[d]
       /\ UNCHANGED <<borehole, facts, outcome>>
  BY <1>1 DEF Flushed, Labels, database
<1>11. StoreTypes'
  BY <1>7, <1>9, <1>10 DEF StoreInv, StoreTypes
<1> QED BY <1>7, <1>8, <1>9, <1>10, <1>11

\* A version that passed the checks, or none for a row that is there, is
\* flushed with the facts of its report.
LEMMA FlushKeeps ==
  ASSUME StoreInv, NEW c \in Calls, pc[c] = "write",
         NEW version \in Row \cup {NoRow}, Flushed(c, version),
         version # NoRow => Consistent(version),
         version = NoRow => borehole[Name(c)] # NoRow
  PROVE  StoreInv'
<1>1. PlacedAt(c) /\ StoredAt(c) /\ KnownAt(c) /\ \A m \in Boreholes : DraftAt(c, m)
  BY DEF StoreInv
<1>2. pos[c] \in DOMAIN Request[c].reports
  BY <1>1, ReportsOf DEF PlacedAt
<1>3. PICK n \in Boreholes : n = Name(c)
  BY <1>2, UpsertedIsRow
<1>4. /\ StoreTypes'
      /\ \A d \in Calls \ {c} :
           /\ written'[d] = written[d] /\ staged'[d] = staged[d]
           /\ mine'[d] = mine[d] /\ pos'[d] = pos[d] /\ pc'[d] = pc[d]
           /\ outcome'[d] = outcome[d]
      /\ written'[c][n] = version /\ mine'[c][n] = Upserted(c)
      /\ \A m \in Boreholes \ {n} :
           written'[c][m] = written[c][m] /\ mine'[c][m] = mine[c][m]
      /\ staged'[c] = staged[c] \cup FactsOf(c, pos[c])
      /\ pos'[c] = pos[c] + 1 /\ pc'[c] = "select" /\ outcome'[c] = outcome[c]
  BY <1>2, <1>3, FlushedParts
<1>5. UNCHANGED <<borehole, facts>>
  BY DEF Flushed, database
<1>6. \A f \in FactsOf(c, pos[c]) : f.by = c /\ Subject(f) = n
  <2>1. n = Request[c].reports[pos[c]].name
    BY <1>3 DEF Name, Report
  <2> QED BY <1>2, <2>1, FactsTell
<1>7. PlacedAt(c)'
  <2>1. pos[c] \in Nat /\ pos[c] + 1 \in 1 .. Len(Request[c].reports) + 1
    <3>1. Len(Request[c].reports) \in Nat /\ pos[c] \in 1 .. Len(Request[c].reports)
      BY <1>2, ReportsOf, ZenonT(20)
    <3> QED BY <3>1
  <2>2. staged'[c] = FactsTo(c, pos[c])
    BY <1>1, <1>2, <1>4, FactsGrow DEF PlacedAt
  <2>3. staged'[c] = FactsTo(c, pos'[c] - 1)
    BY <1>4, <2>1, <2>2
  <2>4. outcome[c] # "PERSISTED"
    BY <1>1 DEF PlacedAt
  <2> QED BY <1>4, <2>1, <2>3, <2>4 DEF PlacedAt, FactsTo
<1>8. StoredAt(c)'
  BY <1>1, <1>4, <1>5 DEF StoredAt
<1>9. \A m \in Boreholes : Latest(c, m) # NoRow => Latest(c, m)' # NoRow
  BY <1>3, <1>4, <1>5 DEF Latest
<1>10. Latest(c, n)' # NoRow
  BY <1>3, <1>4, <1>5 DEF Latest
<1>11. KnownAt(c)'
  <2>1. \A m \in Boreholes : mine'[c][m] # NoRow => Latest(c, m)' # NoRow
    BY <1>1, <1>4, <1>9, <1>10 DEF KnownAt
  <2>2. ASSUME NEW f \in staged'[c] PROVE f.by = c /\ Latest(c, Subject(f))' # NoRow
    <3>1. CASE f \in FactsOf(c, pos[c])
      BY <3>1, <1>6, <1>10 DEF Subject
    <3>2. CASE f \in staged[c]
      <4>1. f.by = c /\ Latest(c, Subject(f)) # NoRow
        BY <1>1, <3>2 DEF KnownAt
      <4>2. Subject(f) \in Boreholes
        BY <1>1, <3>2, AllFactsTell DEF PlacedAt, FactsTo
      <4>3. PICK m \in Boreholes : m = Subject(f)
        BY <4>2
      <4> QED BY <1>9, <4>1, <4>3 DEF Subject
    <3> QED BY <3>1, <3>2, <1>4
  <2> QED BY <2>1, <2>2 DEF KnownAt
<1>12. \A m \in Boreholes : DraftAt(c, m)'
  <2>1. DraftAt(c, n)'
    <3>1. \E f \in FactsOf(c, pos[c]) : f.item = 0
      BY <1>2, EvidenceOf
    <3> QED BY <1>4, <1>6, <3>1 DEF DraftAt, Consistent, Subject
  <2>2. ASSUME NEW m \in Boreholes \ {n} PROVE DraftAt(c, m)'
    BY <1>1, <1>4 DEF DraftAt, Consistent, Subject
  <2> QED BY <2>1, <2>2
<1> QED BY <1>4, <1>7, <1>8, <1>11, <1>12, OneSessionMoves DEF Flushed

LEMMA InsertKeeps ==
  ASSUME StoreInv, NEW c \in Calls, Insert(c)
  PROVE  StoreInv'
<1>1. pos[c] \in DOMAIN Request[c].reports
  BY ReportsOf DEF StoreInv, PlacedAt, Insert
<1>2. Upserted(c) \in Row /\ Upserted(c) # NoRow /\ Consistent(Upserted(c))
  BY <1>1, UpsertedIsRow
<1>3. CASE RollBack(c, "IntegrityError")
  BY <1>3, RollBackKeeps DEF Insert, Outcomes
<1>4. CASE Flushed(c, Upserted(c))
  BY <1>2, <1>4, FlushKeeps DEF Insert
<1> QED BY <1>3, <1>4 DEF Insert

\* What the UPDATE makes of a row: a row, and the reported one unless
\* somebody came between.
LEMMA MergedRow ==
  ASSUME NEW new \in Row, NEW old \in Row, NEW columns
  PROVE  [k \in Columns |-> IF k \in columns THEN new[k] ELSE old[k]] \in Row
BY DEF Row, Columns

LEMMA SameRow ==
  ASSUME NEW new \in Row, NEW old \in Row, \A k \in Columns : new[k] = old[k]
  PROVE  new = old
BY DEF Row, Columns

LEMMA UpdateKeeps ==
  ASSUME StoreInv, NEW c \in Calls, Update(c)
  PROVE  StoreInv'
<1>1. pos[c] \in DOMAIN Request[c].reports /\ pc[c] = "write"
  BY ReportsOf DEF StoreInv, PlacedAt, Update
<1>2. Upserted(c) \in Row /\ Name(c) \in Boreholes
  BY <1>1, UpsertedIsRow
<1>3. Latest(c, Name(c)) \in Row /\ Latest(c, Name(c)) # NoRow
  <2>1. Latest(c, Name(c)) \in Row \cup {NoRow}
    BY <1>2, LatestIsRow DEF StoreInv
  <2> QED BY <1>2, <2>1 DEF StoreInv, KnownAt, Update, IsNew
<1>4. CASE RollBack(c, "IntegrityError")
  BY <1>1, <1>4, RollBackKeeps DEF Outcomes
<1>5. CASE Flushed(c, written[c][Name(c)])
  <2>1. written[c][Name(c)] \in Row \cup {NoRow}
    BY <1>2 DEF StoreInv, StoreTypes, Rows
  <2>2. written[c][Name(c)] # NoRow => Consistent(written[c][Name(c)])
    BY <1>2 DEF StoreInv, DraftAt
  <2>3. written[c][Name(c)] = NoRow => borehole[Name(c)] # NoRow
    BY <1>3 DEF Latest
  <2> QED BY <1>1, <1>5, <2>1, <2>2, <2>3, FlushKeeps
<1>6. ASSUME NEW columns, NEW row,
             row = [k \in Columns |-> IF k \in columns THEN Upserted(c)[k]
                                      ELSE Latest(c, Name(c))[k]],
             Consistent(row), Flushed(c, row)
      PROVE  StoreInv'
  <2>1. row \in Row
    BY <1>2, <1>3, <1>6, MergedRow
  <2> QED BY <1>1, <1>6, <2>1, ObservationAssumption, FlushKeeps
<1> QED BY <1>4, <1>5, <1>6 DEF Update

LEMMA CommitKeeps ==
  ASSUME StoreInv, NEW c \in Calls, Commit(c)
  PROVE  StoreInv'
<1>1. PlacedAt(c) /\ StoredAt(c) /\ KnownAt(c) /\ \A n \in Boreholes : DraftAt(c, n)
  BY DEF StoreInv
<1>2. staged[c] = AllFacts(c)
  <2>1. pos[c] = Len(Request[c].reports) + 1
    BY <1>1, ReportsOf DEF Commit, PlacedAt
  <2>2. pos[c] - 1 = Len(Request[c].reports)
    BY <2>1, ReportsOf
  <2>3. staged[c] = FactsTo(c, Len(Request[c].reports))
    BY <1>1, <2>2 DEF Commit, PlacedAt
  <2> QED BY <2>3, FactsGrow
<1>3. Nothing \in Rows /\ \A n \in Boreholes : Nothing[n] = NoRow
  BY DEF Nothing, Rows
<1>4. /\ borehole' \in Rows
      /\ \A n \in Boreholes : borehole'[n] = Latest(c, n)
  BY LatestIsRow DEF Commit, StoreInv, Rows
<1>5. facts' = facts \cup AllFacts(c) /\ facts' \in SUBSET Fact
  BY <1>2, AllFactsTell DEF Commit, StoreInv, StoreTypes
<1>6. StoreTypes'
  BY <1>3, <1>4, <1>5 DEF Commit, StoreInv, StoreTypes, Labels, Outcomes
<1>7. /\ written'[c] = Nothing /\ staged'[c] = {} /\ mine'[c] = Nothing
      /\ pos'[c] = pos[c] /\ pc'[c] = "left" /\ outcome'[c] = "PERSISTED"
      /\ \A d \in Calls \ {c} :
           /\ written'[d] = written[d] /\ staged'[d] = staged[d]
           /\ mine'[d] = mine[d] /\ pos'[d] = pos[d] /\ pc'[d] = pc[d]
           /\ outcome'[d] = outcome[d]
  BY DEF Commit, StoreInv, StoreTypes
<1>8. \A n \in Boreholes : borehole[n] # NoRow => borehole'[n] # NoRow
  BY <1>4 DEF Latest
<1>9. ASSUME NEW d \in Calls
      PROVE  /\ PlacedAt(d)' /\ StoredAt(d)' /\ KnownAt(d)'
             /\ \A n \in Boreholes : DraftAt(d, n)'
  <2>1. CASE d = c
    <3>1. PlacedAt(c)'
      BY <1>1, <1>7 DEF PlacedAt
    <3>2. StoredAt(c)'
      <4>1. {f \in facts' : f.by = c} = AllFacts(c)
        <5>1. {f \in facts : f.by = c} = {}
          BY <1>1 DEF StoredAt, PlacedAt, Commit
        <5> QED BY <1>5, <5>1, AllFactsTell
      <4> QED BY <1>7, <4>1 DEF StoredAt
    <3>3. KnownAt(c)' /\ \A n \in Boreholes : DraftAt(c, n)'
      BY <1>3, <1>7 DEF KnownAt, DraftAt
    <3> QED BY <2>1, <3>1, <3>2, <3>3
  <2>2. CASE d # c
    <3>1. \A f : f.by = d => (f \in facts' <=> f \in facts)
      BY <1>5, <2>2, AllFactsTell
    <3> QED BY <1>7, <1>8, <2>2, <3>1, OthersKeep
  <2> QED BY <2>1, <2>2
<1>10. ASSUME NEW n \in Boreholes PROVE RowAt(n)'
  <2>1. RowAt(n) /\ DraftAt(c, n)
    BY <1>1 DEF StoreInv
  <2>2. CASE written[c][n] # NoRow
    <3>1. borehole'[n] = written[c][n]
      BY <1>4, <2>2 DEF Latest
    <3>2. \E f \in facts' : f.item = 0 /\ Subject(f) = n
      BY <1>2, <1>5, <2>1, <2>2 DEF DraftAt
    <3> QED BY <2>1, <2>2, <3>1, <3>2 DEF RowAt, DraftAt, Consistent, Subject
  <2>3. CASE written[c][n] = NoRow
    <3>1. borehole'[n] = borehole[n]
      BY <1>4, <2>3 DEF Latest
    <3> QED BY <1>5, <2>1, <3>1 DEF RowAt, Consistent, Subject
  <2> QED BY <2>2, <2>3
<1>11. ASSUME NEW f \in facts'
       PROVE  Subject(f) \in Boreholes /\ borehole'[Subject(f)] # NoRow
  <2>1. CASE f \in facts
    BY <1>8, <2>1 DEF StoreInv
  <2>2. CASE f \in AllFacts(c)
    <3>1. Subject(f) \in Boreholes /\ Latest(c, Subject(f)) # NoRow
      BY <1>1, <1>2, <2>2, AllFactsTell DEF KnownAt
    <3> QED BY <1>4, <3>1
  <2> QED BY <1>5, <2>1, <2>2
<1> QED BY <1>6, <1>9, <1>10, <1>11 DEF StoreInv, Subject

----------------------------------------------------------------------------
LEMMA StoreInit == Init => StoreInv
<1> SUFFICES ASSUME Init PROVE StoreInv
  OBVIOUS
<1>1. Nothing \in Rows /\ \A n \in Boreholes : Nothing[n] = NoRow
  BY DEF Nothing, Rows
<1>2. StoreTypes
  BY <1>1, EarlierAssumption DEF Init, StoreTypes, Rows, Labels, Outcomes
<1>3. ASSUME NEW c \in Calls
      PROVE  /\ PlacedAt(c) /\ StoredAt(c) /\ KnownAt(c)
             /\ \A n \in Boreholes : DraftAt(c, n)
  <2>1. PlacedAt(c)
    <3>1. 1 \in 1 .. Len(Request[c].reports) + 1
      BY ReportsOf
    <3>2. /\ pos[c] = 1 /\ pc[c] = "begin" /\ outcome[c] = ""
          /\ staged[c] = {} /\ written[c] = Nothing
      BY DEF Init
    <3> QED BY <3>1, <3>2 DEF PlacedAt
  <2>2. StoredAt(c)
    BY DEF Init, StoredAt
  <2>3. KnownAt(c) /\ \A n \in Boreholes : DraftAt(c, n)
    BY <1>1 DEF Init, KnownAt, DraftAt
  <2> QED BY <2>1, <2>2, <2>3
<1>4. \A n \in Boreholes : RowAt(n)
  BY EarlierAssumption DEF Init, RowAt
<1> QED BY <1>2, <1>3, <1>4 DEF StoreInv, Init

LEMMA StoreNext == StoreInv /\ [Next]_vars => StoreInv'
<1> SUFFICES ASSUME StoreInv, [Next]_vars PROVE StoreInv'
  OBVIOUS
<1>1. ASSUME NEW c \in Calls, Step(c) PROVE StoreInv'
  <2>1. CASE Abort(c)
    <3>1. pc[c] = "write"
      BY <2>1 DEF Abort, Deadlocked, Holders
    <3> QED BY <2>1, <3>1, RollBackKeeps DEF Abort, Outcomes
  <2> QED BY <1>1, <2>1, BeginKeeps, SelectKeeps, InsertKeeps, UpdateKeeps,
             CommitKeeps DEF Step
<1>2. ASSUME NEW c \in Calls, Die(c) PROVE StoreInv'
  BY <1>2, RollBackKeeps DEF Die, Outcomes
<1>3. CASE UNCHANGED vars
  <2>1. StoreTypes'
    BY <1>3 DEF StoreInv, StoreTypes, vars
  <2>2. \A c \in Calls : /\ PlacedAt(c)' /\ StoredAt(c)' /\ KnownAt(c)'
                         /\ \A n \in Boreholes : DraftAt(c, n)'
    BY <1>3, OthersKeep DEF vars
  <2>3. \A n \in Boreholes : RowAt(n)'
    BY <1>3 DEF StoreInv, RowAt, vars, Consistent, Subject
  <2>4. \A f \in facts' : Subject(f)' \in Boreholes /\ borehole'[Subject(f)] # NoRow
    BY <1>3 DEF StoreInv, vars, Subject
  <2> QED BY <2>1, <2>2, <2>3, <2>4 DEF StoreInv
<1> QED BY <1>1, <1>2, <1>3 DEF Next, Terminating

LEMMA StoreAlways == Spec => []StoreInv
BY StoreInit, StoreNext, PTL DEF Spec

----------------------------------------------------------------------------
(* unit_of_work commits an extraction whole or leaves nothing of it; no    *)
(* fact belongs to a borehole that is not stored, and no row of boreholes  *)
(* appears or changes without evidence.                                    *)
THEOREM StoredWhole == Spec => []WholeOrNothing
<1>1. StoreInv => WholeOrNothing
  BY DEF StoreInv, StoredAt, RowAt, WholeOrNothing
<1> QED BY <1>1, StoreAlways, PTL

(* Whatever columns concurrent sessions write over each other, a geometry  *)
(* lies in the SRID its row names, and its row has coordinates.            *)
THEOREM GeometryKeepsItsLabel == Spec => []GeometryIsLabelled
<1>1. StoreInv => GeometryIsLabelled
  BY DEF StoreInv, RowAt, Consistent, GeometryIsLabelled
<1> QED BY <1>1, StoreAlways, PTL

(* _upsert_borehole writes only what differs from the loaded row, and yet, *)
(* if nobody changed the row after the look-up, every column of it is as   *)
(* the extraction reports it.                                              *)
THEOREM WrittenAsReported == Spec => UndisturbedRowAsReported
<1>1. StoreInv /\ [Next]_vars =>
        [\A c \in Calls : \A n \in Boreholes :
           pc[c] = "write" /\ pc'[c] = "select" /\ Name(c) = n
           /\ (IsNew(c) \/ mine[c][n] = Latest(c, n))
             => Latest(c, n)' = Upserted(c)]_vars
  <2> SUFFICES ASSUME StoreInv, Next, NEW c \in Calls, NEW n \in Boreholes,
                      pc[c] = "write", pc'[c] = "select", Name(c) = n,
                      IsNew(c) \/ mine[c][n] = Latest(c, n)
               PROVE  Latest(c, n)' = Upserted(c)
    BY DEF vars
  <2>1. pos[c] \in DOMAIN Request[c].reports /\ StoreTypes
    BY ReportsOf DEF StoreInv, PlacedAt
  <2>2. Upserted(c) \in Row /\ Upserted(c) # NoRow
    BY <2>1, UpsertedIsRow
  <2>3. Insert(c) \/ Update(c)
    <3>1. \A d \in Calls, o \in Outcomes : RollBack(d, o) => pc'[c] # "select"
      BY <2>1 DEF RollBack, StoreTypes
    <3>2. ASSUME NEW d \in Calls, Step(d) \/ Die(d)
          PROVE  Insert(c) \/ Update(c)
      <4>1. CASE d = c
        BY <3>1, <3>2, <4>1 DEF Step, Begin, Select, Commit, Abort, Die, Outcomes
      <4>2. CASE d # c
        BY <2>1, <3>2, <4>2 DEF Step, Begin, Select, Insert, Update, Commit,
           Abort, Die, RollBack, Flushed, StoreTypes
      <4> QED BY <4>1, <4>2
    <3> QED BY <3>2 DEF Next, Terminating, vars
  <2>4. ASSUME NEW version \in Row \cup {NoRow}, Flushed(c, version)
        PROVE  written'[c][n] = version /\ UNCHANGED borehole
    <3>1. UNCHANGED borehole
      BY <2>4 DEF Flushed, database
    <3> QED BY <2>1, <2>4, <3>1, FlushedParts
  <2>5. CASE Insert(c)
    <3>1. Flushed(c, Upserted(c))
      BY <2>1, <2>5 DEF Insert, RollBack, StoreTypes
    <3> QED BY <2>2, <2>4, <3>1 DEF Latest
  <2>6. CASE Update(c)
    <3>1. mine[c][n] = Latest(c, n) /\ mine[c][n] # NoRow
      BY <2>6 DEF Update, IsNew
    <3>2. PICK old \in Row : old = mine[c][n]
      BY <2>1, <3>1 DEF StoreTypes, Rows
    <3>3. PICK new \in Row : new = Upserted(c)
      BY <2>2
    <3>4. \A k \in Columns \ Changed(c) : new[k] = old[k]
      BY <3>2, <3>3 DEF Changed
    <3>5. CASE Changed(c) = {} /\ Flushed(c, written[c][n])
      <4>1. new = old
        BY <3>4, <3>5, SameRow
      <4>2. written[c][n] \in Row \cup {NoRow}
        BY <2>1 DEF StoreTypes, Rows
      <4>3. Latest(c, n)' = Latest(c, n)
        BY <2>4, <3>5, <4>2 DEF Latest
      <4> QED BY <3>1, <3>2, <3>3, <4>1, <4>3
    <3>6. ASSUME NEW row,
                 row = [k \in Columns |-> IF k \in Changed(c) THEN new[k]
                                          ELSE old[k]],
                 Flushed(c, row)
          PROVE  Latest(c, n)' = Upserted(c)
      <4>1. row \in Row
        BY <3>6, MergedRow
      <4>2. \A k \in Columns : row[k] = new[k]
        BY <3>4, <3>6
      <4>3. row = new
        BY <4>1, <4>2, SameRow
      <4> QED BY <2>2, <2>4, <3>3, <3>6, <4>1, <4>3 DEF Latest
    <3>7. \/ Changed(c) = {} /\ Flushed(c, written[c][n])
          \/ Flushed(c, [k \in Columns |-> IF k \in Changed(c) THEN new[k]
                                           ELSE old[k]])
      BY <2>1, <2>6, <3>1, <3>2, <3>3 DEF Update, RollBack, StoreTypes
    <3> QED BY <3>5, <3>6, <3>7
  <2> QED BY <2>3, <2>5, <2>6
<1> QED BY <1>1, StoreAlways, PTL DEF Spec, UndisturbedRowAsReported

=============================================================================
