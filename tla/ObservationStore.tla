--------------------------- MODULE ObservationStore ---------------------------
(***************************************************************************)
(* ObservationRepository.persist_extraction (georeport3d/db/               *)
(* repositories.py) inside unit_of_work (db/session.py), by concurrent     *)
(* sessions that report some of the same boreholes of one project.         *)
(*                                                                         *)
(* A borehole row is looked up first and inserted or changed afterwards,   *)
(* and the change writes only the columns that differ from what the        *)
(* session loaded, as the mapper does; PostgreSQL lets one transaction at  *)
(* a time write a row.  Intervals and evidence get fresh ids, so nothing   *)
(* collides with them: a fact is one of them with its links.  Column depth *)
(* stands for elevation, crs and total_depth, which are treated alike.     *)
(***************************************************************************)
EXTENDS Integers, Sequences, FiniteSets

CONSTANTS
  Calls,      \* calls of persist_extraction, each in a unit of work
  Request,    \* [Calls -> [srid, foreign, reports]]
  Boreholes,  \* the borehole ids of the project
  Earlier,    \* [Boreholes -> row or NoRow]: what is stored already
  Null, NoRow

Columns == {"east", "north", "depth", "srid", "geom"}

\* A number in the smallest unit of its column, or none; geometry is a point
\* with its SRID.
Number == Int \cup {Null}
Row == [east : Number, north : Number, depth : Number, srid : Number,
        geom : (Int \X Int \X Int) \cup {Null}]
Reported == [name : Boreholes, east : Number, north : Number, depth : Number,
             intervals : Nat]

ASSUME ObservationAssumption ==
  /\ NoRow # Null /\ NoRow \notin Row
  /\ \A c \in Calls :
       /\ Request[c].srid = Null \/ Request[c].srid \in Nat \ {0}
       /\ Request[c].reports \in Seq(Reported)
       /\ \A i \in DOMAIN Request[c].reports :
            Request[c].reports[i].east = Null <=> Request[c].reports[i].north = Null

VARIABLES
  borehole,  \* committed rows of boreholes
  facts,     \* committed intervals and evidence
  written,   \* row versions each open transaction has written
  staged,    \* facts each open transaction has inserted
  mine,      \* the rows as each session's identity map has them
  pos,       \* the report of its extraction each call is at
  pc,
  outcome    \* what the unit of work returned or raised

vars == <<borehole, facts, written, staged, mine, pos, pc, outcome>>
database == <<borehole, facts>>

Nothing == [n \in Boreholes |-> NoRow]

Report(c) == Request[c].reports[pos[c]]
Name(c) == Report(c).name

\* One report of a borehole yields its own evidence and its intervals.
FactsOf(c, i) == {[by |-> c, report |-> i, item |-> j] :
                    j \in 0..Request[c].reports[i].intervals}
AllFacts(c) == UNION {FactsOf(c, i) : i \in DOMAIN Request[c].reports}
Subject(f) == Request[f.by].reports[f.report].name

----------------------------------------------------------------------------
\* unit_of_work rolls back and closes; what the database holds is untouched.
RollBack(c, o) ==
  /\ written' = [written EXCEPT ![c] = Nothing]
  /\ staged' = [staged EXCEPT ![c] = {}]
  /\ mine' = [mine EXCEPT ![c] = Nothing]
  /\ pc' = [pc EXCEPT ![c] = "left"]
  /\ outcome' = [outcome EXCEPT ![c] = o]
  /\ UNCHANGED <<database, pos>>

\* _reject_foreign_evidence, before anything is written.
Begin(c) ==
  /\ pc[c] = "begin"
  /\ IF Request[c].foreign THEN RollBack(c, "ProvenanceError")
     ELSE /\ pc' = [pc EXCEPT ![c] = "select"]
          /\ UNCHANGED <<database, written, staged, mine, pos, outcome>>

\* get_borehole: a row the session knows keeps the values it has there.
Select(c) ==
  /\ pc[c] = "select" /\ pos[c] <= Len(Request[c].reports)
  /\ mine' = IF mine[c][Name(c)] = NoRow
             THEN [mine EXCEPT ![c][Name(c)] = borehole[Name(c)]] ELSE mine
  /\ pc' = [pc EXCEPT ![c] = "write"]
  /\ UNCHANGED <<database, written, staged, pos, outcome>>

----------------------------------------------------------------------------
(* _upsert_borehole                                                        *)

Located(c) == Request[c].srid # Null /\ Report(c).east # Null

\* The values the row object is given; geometry is none without an SRID.
Upserted(c) ==
  [east |-> Report(c).east, north |-> Report(c).north, depth |-> Report(c).depth,
   srid |-> IF Located(c) THEN Request[c].srid ELSE Null,
   geom |-> IF Located(c)
            THEN <<Report(c).east, Report(c).north, Request[c].srid>> ELSE Null]

\* mutant: what the new extraction does not know is left as it was
ChangedToValues(c) ==
  {k \in Columns : Upserted(c)[k] \notin {Null, mine[c][Name(c)][k]}}

\* The columns of the UPDATE: those with a new value, and a computed geometry.
Changed(c) ==
  {k \in Columns : Upserted(c)[k] # mine[c][Name(c)][k]}
    \cup (IF Located(c) THEN {"geom"} ELSE {})

\* mutant: geometry without its checks
PairedOnly(row) == row.east = Null <=> row.north = Null

\* paired_xy, geometry_has_native_identity and geometry_srid_matches.
Consistent(row) ==
  /\ row.east = Null <=> row.north = Null
  /\ row.geom # Null => row.east # Null /\ row.srid = row.geom[3]

\* What was stored before the calls came passed the same checks.
ASSUME EarlierAssumption ==
  /\ Earlier \in [Boreholes -> Row \cup {NoRow}]
  /\ \A n \in Boreholes : Earlier[n] # NoRow => Consistent(Earlier[n])

\* The version of a row that c's next statement works on.
Latest(c, n) == IF written[c][n] # NoRow THEN written[c][n] ELSE borehole[n]

IsNew(c) == mine[c][Name(c)] = NoRow
Silent(c) == ~IsNew(c) /\ Changed(c) = {}

\* Who has written the row that c is about to write, and not committed.
Holders(c) ==
  {d \in Calls \ {c} :
     pc[c] = "write" /\ written[d][Name(c)] # NoRow /\ ~Silent(c)}

\* mutant: nobody looks for deadlocks
NoneDeadlocked == {}

\* Transactions that wait for each other in a circle.
Deadlocked ==
  UNION {S \in SUBSET {d \in Calls : Holders(d) # {}} :
           \A d \in S : \E e \in S : d \in Holders(e)}

\* The session has its row, its evidence and its intervals flushed.
Flushed(c, version) ==
  /\ written' = [written EXCEPT ![c][Name(c)] = version]
  /\ staged' = [staged EXCEPT ![c] = @ \cup FactsOf(c, pos[c])]
  /\ mine' = [mine EXCEPT ![c][Name(c)] = Upserted(c)]
  /\ pos' = [pos EXCEPT ![c] = @ + 1]
  /\ pc' = [pc EXCEPT ![c] = "select"]
  /\ UNCHANGED <<database, outcome>>

\* INSERT: the row may have appeared since the look-up.
Insert(c) ==
  /\ pc[c] = "write" /\ Holders(c) = {} /\ IsNew(c)
  /\ IF borehole[Name(c)] # NoRow THEN RollBack(c, "IntegrityError")
     ELSE Flushed(c, Upserted(c))

\* mutant: the repository commits each borehole by itself
UpdateCommitting(c) ==
  /\ pc[c] = "write" /\ Holders(c) = {} /\ ~IsNew(c)
  /\ borehole' = [borehole EXCEPT ![Name(c)] = Upserted(c)]
  /\ facts' = facts \cup FactsOf(c, pos[c])
  /\ pos' = [pos EXCEPT ![c] = @ + 1]
  /\ pc' = [pc EXCEPT ![c] = "select"]
  /\ UNCHANGED <<written, staged, mine, outcome>>

\* UPDATE of the changed columns over whatever is committed by now, subject
\* to the checks of the table; none at all when nothing changed.
Update(c) ==
  /\ pc[c] = "write" /\ ~IsNew(c) /\ Holders(c) = {}
  /\ \E columns \in {Changed(c)} :
       LET row == [k \in Columns |-> IF k \in columns THEN Upserted(c)[k]
                                     ELSE Latest(c, Name(c))[k]]
       IN  IF columns = {} THEN Flushed(c, written[c][Name(c)])
           ELSE IF Consistent(row) THEN Flushed(c, row)
           ELSE RollBack(c, "IntegrityError")

----------------------------------------------------------------------------
Commit(c) ==
  /\ pc[c] = "select" /\ pos[c] > Len(Request[c].reports)
  /\ borehole' = [n \in Boreholes |-> Latest(c, n)]
  /\ facts' = facts \cup staged[c]
  /\ written' = [written EXCEPT ![c] = Nothing]
  /\ staged' = [staged EXCEPT ![c] = {}]
  /\ mine' = [mine EXCEPT ![c] = Nothing]
  /\ pc' = [pc EXCEPT ![c] = "left"]
  /\ outcome' = [outcome EXCEPT ![c] = "PERSISTED"]
  /\ UNCHANGED pos

\* PostgreSQL fails the statement of one of them.
Abort(c) == c \in Deadlocked /\ RollBack(c, "OperationalError")

\* The process dies or the connection breaks.
Die(c) == pc[c] # "left" /\ RollBack(c, "DIED")

Init ==
  /\ borehole = Earlier /\ facts = {}
  /\ written = [c \in Calls |-> Nothing]
  /\ staged = [c \in Calls |-> {}]
  /\ mine = [c \in Calls |-> Nothing]
  /\ pos = [c \in Calls |-> 1]
  /\ pc = [c \in Calls |-> "begin"]
  /\ outcome = [c \in Calls |-> ""]

Step(c) ==
  Begin(c) \/ Select(c) \/ Insert(c) \/ Update(c) \/ Commit(c) \/ Abort(c)

Terminating == (\A c \in Calls : pc[c] = "left") /\ UNCHANGED vars

Next == (\E c \in Calls : Step(c) \/ Die(c)) \/ Terminating

Spec == Init /\ [][Next]_vars

\* Sessions are scheduled, PostgreSQL wakes waiters and looks for deadlocks.
FairSpec == Spec /\ \A c \in Calls : WF_vars(Step(c))

----------------------------------------------------------------------------
(* An extraction is stored whole or not at all, whichever borehole of it   *)
(* met a conflict, a deadlock or a crash; each of its facts belongs to a   *)
(* stored borehole, and no borehole appears or changes without evidence.   *)
WholeOrNothing ==
  /\ \A c \in Calls : {f \in facts : f.by = c} =
                        IF outcome[c] = "PERSISTED" THEN AllFacts(c) ELSE {}
  /\ \A f \in facts : borehole[Subject(f)] # NoRow
  /\ \A n \in Boreholes : borehole[n] # Earlier[n] =>
       \E f \in facts : f.item = 0 /\ Subject(f) = n

(* Unless somebody else changed the row between its look-up and its write, *)
(* the row says what the extraction says in every column, also where the   *)
(* extraction no longer knows what an earlier one did: no coordinate and   *)
(* no geometry of an earlier report stays under the new evidence.          *)
UndisturbedRowAsReported ==
  [][\A c \in Calls : \A n \in Boreholes :
       pc[c] = "write" /\ pc'[c] = "select" /\ Name(c) = n
       /\ (IsNew(c) \/ mine[c][n] = Latest(c, n))
         => Latest(c, n)' = Upserted(c)]_vars

(* A stored geometry lies in the SRID its row names, and its row has       *)
(* coordinates, although concurrent updates of one row write different     *)
(* columns of it.                                                          *)
GeometryIsLabelled ==
  \A n \in Boreholes : borehole[n] # NoRow /\ borehole[n].geom # Null =>
    /\ borehole[n].srid = borehole[n].geom[3]
    /\ borehole[n].east # Null /\ borehole[n].north # Null

(* Every call ends: no two extractions that report the same boreholes in   *)
(* different orders wait for each other for ever.                          *)
EveryPersistEnds == \A c \in Calls : <>(pc[c] = "left")

=============================================================================
