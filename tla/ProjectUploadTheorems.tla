------------------------ MODULE ProjectUploadTheorems ------------------------
(***************************************************************************)
(* What holds of uploads for any number of requests, workers, projects and *)
(* ids, whichever ids are drawn, whatever fails and whoever dies.          *)
(*                                                                         *)
(* The invariant follows an upload through its three owners.  The          *)
(* exclusive temporary entry owns the id until the file is published; the  *)
(* file, the only one of its id, owns it until the row is there or the     *)
(* clean-up is done; the unique constraint owns the content of a project   *)
(* from the insert on.                                                     *)
(***************************************************************************)
EXTENDS ProjectUpload, FiniteSetTheorems, TLAPS

----------------------------------------------------------------------------
(* Types.                                                                  *)

\* The steps between the reservation and the published file, and those of
\* an upload whose file is published.
Reserving == {"open", "recheck", "publish"}
Holding == {"unlink", "recheckProject", "insert", "lookup", "commit",
            "cleanup404", "cleanup503", "dropCopy"}
UploadLabels == {"check", "reserve"} \cup Reserving \cup Holding \cup {"done", "dead"}

Suffixes == {".pdf", ".docx", ".bin"}
AnswerCodes ==
  {"", "CREATED", "OK", "PROJECT_NOT_FOUND", "INTERNAL_ERROR", "FILE_TOO_LARGE",
   "STORAGE_FAILURE", "DATABASE_FAILURE", "STORAGE_CLEANUP_FAILED"}

UploadTypes ==
  /\ document \in [Ids -> Uploads \cup {NoUpload}]
  /\ pending \in [Uploads -> Ids \cup {NoId}]
  /\ stored \subseteq [id : Ids, suffix : Suffixes, by : Uploads \cup {NoUpload}]
  /\ temp \in [Ids -> Uploads \cup {NoUpload}]
  /\ own \in [Uploads -> Ids \cup {NoId}]
  /\ tries \in [Uploads -> Nat]
  /\ pc \in [Uploads -> UploadLabels]
  /\ answer \in [Uploads -> [code : AnswerCodes, doc : Ids \cup {NoId}]]

----------------------------------------------------------------------------
(* The invariant.                                                          *)

\* The file an upload publishes.
EntryOf(u) == [id |-> own[u], suffix |-> Asked[u].suffix, by |-> u]

\* An upload on its way has an id; from open to unlink it owns the temporary
\* entry, and once it has looked again nobody else has published the id.
ReservedAt(u) ==
  /\ pc[u] \in Reserving \cup Holding => own[u] \in Ids
  /\ pc[u] \in {"recheck", "publish", "unlink"} => temp[own[u]] = u
  /\ pc[u] = "publish" => Entries(own[u]) = {}

\* Its file stays until the upload itself removes it.
HeldAt(u) == pc[u] \in Holding => EntryOf(u) \in stored

OneEntry == \A e, f \in stored : e.id = f.id => e = f

\* Whose an entry is: an older release's, or an upload's that got so far.
KnownEntry(e) ==
  IF e.by = NoUpload THEN e.suffix = ".bin"
  ELSE e = EntryOf(e.by) /\ pc[e.by] \in Holding \cup {"done", "dead"}

FilesInv ==
  /\ UploadTypes
  /\ \A u \in Uploads : ReservedAt(u) /\ HeldAt(u)
  /\ OneEntry
  /\ \A e \in stored : KnownEntry(e)

\* A committed row names the id of its upload, in a project that exists, and
\* its file is there unless that upload was told of a database failure.
RowAt(i) ==
  document[i] # NoUpload =>
    LET u == document[i] IN
    /\ own[u] = i /\ Asked[u].project \in projects
    /\ pc[u] \in {"cleanup503", "done", "dead"}
    /\ EntryOf(u) \in stored \/ answer[u].code = "DATABASE_FAILURE"

\* The constraint (project_id, sha256).
OneRow ==
  \A i, j \in Ids :
    document[i] # NoUpload /\ document[j] # NoUpload
      /\ Content(document[i]) = Content(document[j]) => i = j

\* An uncommitted row is going to be the first of its id and its content.
PendingAt(u) ==
  /\ pc[u] = "commit" <=> pending[u] # NoId
  /\ pending[u] # NoId =>
       /\ pending[u] = own[u] /\ document[own[u]] = NoUpload
       /\ RowWith(Content(u)) = {} /\ Asked[u].project \in projects
OnePending ==
  \A u, v \in Uploads : u # v /\ pending[u] # NoId /\ pending[v] # NoId =>
    own[u] # own[v] /\ Content(u) # Content(v)

\* A file that an answered upload left behind.
LeftAt(u) ==
  pc[u] = "done" /\ EntryOf(u) \in stored =>
    \/ document[own[u]] = u
    \/ Asked[u].project \notin projects
    \/ own[u] \in Unremovable

\* The document an upload is told of has its content.
Told(u) == pc[u] = "dropCopy" \/ Accepted(u)
ToldAt(u) ==
  Told(u) =>
    \/ Asked[u].project \notin projects
    \/ answer[u].doc \in RowWith(Content(u))
ToldAlike ==
  \A u, v \in Uploads : u # v /\ Content(u) = Content(v) /\ Told(u) /\ Told(v) =>
    /\ answer[u].doc = answer[v].doc
    /\ ~(answer[u].code = "CREATED" /\ answer[v].code = "CREATED")

UploadInv ==
  /\ FilesInv
  /\ \A i \in Ids : RowAt(i)
  /\ OneRow /\ OnePending /\ ToldAlike
  /\ \A u \in Uploads : PendingAt(u) /\ LeftAt(u) /\ ToldAt(u)

----------------------------------------------------------------------------
(* What a step of one upload may write.                                    *)
Unmoved(v) ==
  /\ own'[v] = own[v] /\ pc'[v] = pc[v]
  /\ pending'[v] = pending[v] /\ answer'[v] = answer[v]

LEMMA OthersUnmoved ==
  ASSUME UploadTypes, NEW u \in Uploads, Step(u) \/ Fault(u), NEW v \in Uploads \ {u}
  PROVE  Unmoved(v)
<1> USE DEF UploadTypes, Unmoved, Go, Respond, database, files
<1>1. CASE CheckProject(u)
  BY <1>1 DEF CheckProject
<1>2. CASE DrawId(u)
  BY <1>2 DEF DrawId
<1>3. CASE OpenTemp(u)
  BY <1>3 DEF OpenTemp
<1>4. CASE Recheck(u)
  BY <1>4 DEF Recheck
<1>5. CASE Publish(u)
  BY <1>5 DEF Publish
<1>6. CASE UnlinkTemp(u)
  BY <1>6 DEF UnlinkTemp
<1>7. CASE RecheckProject(u)
  BY <1>7 DEF RecheckProject
<1>8. CASE Insert(u)
  BY <1>8 DEF Insert
<1>9. CASE Lookup(u)
  BY <1>9 DEF Lookup
<1>10. CASE Commit(u)
  BY <1>10 DEF Commit
<1>11. CASE CleanUp(u)
  BY <1>11 DEF CleanUp
<1>12. CASE DropCopy(u)
  BY <1>12 DEF DropCopy
<1>13. CASE StorageFails(u)
  BY <1>13 DEF StorageFails
<1>14. CASE CommitUnacknowledged(u)
  BY <1>14 DEF CommitUnacknowledged
<1>15. CASE DatabaseFails(u)
  BY <1>15 DEF DatabaseFails
<1>16. CASE Die(u)
  BY <1>16 DEF Die
<1> HIDE DEF UploadTypes, Unmoved, Go, Respond, database, files
<1> QED BY <1>1, <1>2, <1>3, <1>4, <1>5, <1>6, <1>7, <1>8, <1>9, <1>10, <1>11,
           <1>12, <1>13, <1>14, <1>15, <1>16
        DEF Step, Fault

(* What it means for the files: reserving, publishing, holding, removing.  *)
Reserves(u) ==
  /\ pc[u] \notin Holding \cup {"done", "dead"} /\ pc'[u] \notin Holding
  /\ stored' = stored
Publishes(u) ==
  /\ pc[u] = "publish" /\ pc'[u] = "unlink" /\ own' = own /\ temp' = temp
  /\ stored' = stored \cup {EntryOf(u)}
Holds(u) ==
  /\ pc[u] \in Holding /\ pc'[u] \in Holding \cup {"dead"}
  /\ stored' = stored /\ own' = own
Removes(u) ==
  /\ pc[u] \in Holding /\ pc'[u] = "done" /\ own' = own /\ temp' = temp
  /\ Delete(own[u])
Commits(u) ==
  /\ pc[u] = "commit" /\ pc'[u] = "done" /\ own' = own /\ temp' = temp
  /\ stored' = stored /\ document' = [document EXCEPT ![own[u]] = u]

LEMMA FileMoves ==
  ASSUME UploadTypes, NEW u \in Uploads, Step(u) \/ Fault(u)
  PROVE  Reserves(u) \/ Publishes(u) \/ Holds(u) \/ Removes(u) \/ Commits(u)
<1> USE DEF UploadTypes, Go, Respond, database, files, Holding
<1>1. CASE CheckProject(u)
  BY <1>1 DEF CheckProject, Reserves
<1>2. CASE DrawId(u)
  BY <1>2 DEF DrawId, Reserves
<1>3. CASE OpenTemp(u)
  BY <1>3 DEF OpenTemp, Reserves
<1>4. CASE Recheck(u)
  BY <1>4 DEF Recheck, Reserves
<1>5. CASE Publish(u)
  BY <1>5 DEF Publish, Publishes, EntryOf
<1>6. CASE UnlinkTemp(u)
  BY <1>6 DEF UnlinkTemp, Holds
<1>7. CASE RecheckProject(u)
  BY <1>7 DEF RecheckProject, Holds
<1>8. CASE Insert(u)
  BY <1>8 DEF Insert, Holds
<1>9. CASE Lookup(u)
  BY <1>9 DEF Lookup, Holds
<1>10. CASE Commit(u)
  BY <1>10 DEF Commit, Commits
<1>11. CASE CleanUp(u)
  BY <1>11 DEF CleanUp, Removes
<1>12. CASE DropCopy(u)
  BY <1>12 DEF DropCopy, Removes
<1>13. CASE StorageFails(u)
  BY <1>13 DEF StorageFails, Reserves
<1>14. CASE CommitUnacknowledged(u)
  BY <1>14 DEF CommitUnacknowledged, Holds
<1>15. CASE DatabaseFails(u)
  BY <1>15 DEF DatabaseFails, Reserves, Holds
<1>16. CASE Die(u)
  BY <1>16 DEF Die, Gone, Reserves, Holds
<1> HIDE DEF UploadTypes, Go, Respond, database, files, Holding
<1> QED BY <1>1, <1>2, <1>3, <1>4, <1>5, <1>6, <1>7, <1>8, <1>9, <1>10, <1>11,
           <1>12, <1>13, <1>14, <1>15, <1>16
        DEF Step, Fault

----------------------------------------------------------------------------
(* Types.                                                                  *)
LEMMA StoredTypes ==
  ASSUME UploadTypes, NEW u \in Uploads, own[u] \in Ids
  PROVE  EntryOf(u) \in [id : Ids, suffix : Suffixes, by : Uploads \cup {NoUpload}]
BY UploadAssumption DEF EntryOf, Suffixes

LEMMA AnswerTypes ==
  ASSUME UploadTypes, NEW u \in Uploads, NEW code \in AnswerCodes,
         NEW i \in Ids \cup {NoId}, Respond(u, code, i)
  PROVE  /\ answer' \in [Uploads -> [code : AnswerCodes, doc : Ids \cup {NoId}]]
         /\ pc' \in [Uploads -> UploadLabels]
<1>1. Answer(code, i) \in [code : AnswerCodes, doc : Ids \cup {NoId}]
  BY DEF Answer
<1>2. "done" \in UploadLabels
  BY DEF UploadLabels
<1> QED BY <1>1, <1>2 DEF Respond, Go, UploadTypes

LEMMA LabelTypes ==
  ASSUME UploadTypes, NEW u \in Uploads, NEW l \in UploadLabels, Go(u, l)
  PROVE  pc' \in [Uploads -> UploadLabels]
BY DEF Go, UploadTypes

LEMMA DropTempTypes ==
  ASSUME UploadTypes, NEW i \in Ids, DropTemp(i)
  PROVE  temp' \in [Ids -> Uploads \cup {NoUpload}]
BY DEF DropTemp, UploadTypes

LEMMA TriesTypes ==
  ASSUME UploadTypes, NEW u \in Uploads, tries' = [tries EXCEPT ![u] = @ + 1]
  PROVE  tries' \in [Uploads -> Nat]
BY DEF UploadTypes

LEMMA StepUploadTypes ==
  ASSUME UploadTypes, NEW u \in Uploads, Step(u) \/ Fault(u), ReservedAt(u)
  PROVE  UploadTypes'
<1>1. /\ {"reserve", "open", "recheck", "publish", "unlink", "recheckProject", "insert",
           "lookup", "commit", "cleanup404", "cleanup503", "dropCopy", "dead"}
            \subseteq UploadLabels
      /\ {"", "CREATED", "OK", "PROJECT_NOT_FOUND", "INTERNAL_ERROR", "FILE_TOO_LARGE",
          "STORAGE_FAILURE", "DATABASE_FAILURE", "STORAGE_CLEANUP_FAILED"} = AnswerCodes
  BY DEF UploadLabels, Reserving, Holding, AnswerCodes
<1>2. pc[u] \in Reserving \cup Holding => own[u] \in Ids
  BY DEF ReservedAt
<1> USE <1>1, LabelTypes, AnswerTypes DEF database, files
<1>3. CASE CheckProject(u)
  BY <1>3 DEF CheckProject, UploadTypes
<1>4. CASE DrawId(u)
  <2>1. CASE tries[u] = MaxIdAttempts
    BY <1>4, <2>1 DEF DrawId, UploadTypes
  <2>2. CASE tries[u] # MaxIdAttempts
    <3>1. PICK i \in Ids :
            /\ tries' = [tries EXCEPT ![u] = @ + 1] /\ own' = [own EXCEPT ![u] = i]
            /\ IF Entries(i) = {} THEN Go(u, "open") ELSE UNCHANGED pc
            /\ UNCHANGED answer
      BY <1>4, <2>2 DEF DrawId
    <3>2. pc' \in [Uploads -> UploadLabels]
      BY <3>1 DEF UploadTypes
    <3>3. own' \in [Uploads -> Ids \cup {NoId}] /\ tries' \in [Uploads -> Nat]
      BY <3>1, TriesTypes DEF UploadTypes
    <3>4. UNCHANGED <<document, pending, stored, temp, answer>>
      BY <1>4, <3>1 DEF DrawId
    <3> QED BY <3>2, <3>3, <3>4 DEF UploadTypes
  <2> QED BY <2>1, <2>2
<1>5. CASE OpenTemp(u)
  <2>1. own[u] \in Ids
    BY <1>2, <1>5 DEF OpenTemp, Reserving
  <2>2. pc' \in [Uploads -> UploadLabels]
    BY <1>5 DEF OpenTemp
  <2> QED BY <1>5, <2>1, <2>2 DEF OpenTemp, UploadTypes
<1>6. CASE Recheck(u)
  <2>1. own[u] \in Ids
    BY <1>2, <1>6 DEF Recheck, Reserving
  <2>2. pc' \in [Uploads -> UploadLabels]
    BY <1>6 DEF Recheck
  <2>3. temp' \in [Ids -> Uploads \cup {NoUpload}]
    BY <1>6, <2>1, DropTempTypes DEF Recheck, UploadTypes
  <2> QED BY <1>6, <2>2, <2>3 DEF Recheck, UploadTypes
<1>7. CASE Publish(u)
  <2>1. own[u] \in Ids
    BY <1>2, <1>7 DEF Publish, Reserving
  <2>2. pc' \in [Uploads -> UploadLabels]
    BY <1>7 DEF Publish
  <2>3. stored' = stored \cup {EntryOf(u)}
    BY <1>7 DEF Publish, EntryOf
  <2> QED BY <1>7, <2>1, <2>2, <2>3, StoredTypes DEF Publish, UploadTypes
<1>8. CASE UnlinkTemp(u)
  <2>1. own[u] \in Ids
    BY <1>2, <1>8 DEF UnlinkTemp, Holding
  <2>2. pc' \in [Uploads -> UploadLabels]
    BY <1>8 DEF UnlinkTemp
  <2>3. temp' \in [Ids -> Uploads \cup {NoUpload}]
    BY <1>8, <2>1, DropTempTypes DEF UnlinkTemp
  <2> QED BY <1>8, <2>2, <2>3 DEF UnlinkTemp, UploadTypes
<1>9. CASE RecheckProject(u)
  BY <1>9 DEF RecheckProject, UploadTypes
<1>10. CASE Insert(u)
  <2>1. own[u] \in Ids
    BY <1>2, <1>10 DEF Insert, Holding
  <2>2. pc' \in [Uploads -> UploadLabels]
    BY <1>10 DEF Insert
  <2> QED BY <1>10, <2>1, <2>2 DEF Insert, UploadTypes
<1>11. CASE Lookup(u)
  <2>1. pc' \in [Uploads -> UploadLabels]
    BY <1>11 DEF Lookup
  <2>2. \A i \in Ids : Answer("", i) \in [code : AnswerCodes, doc : Ids \cup {NoId}]
    BY DEF Answer
  <2>3. answer' \in [Uploads -> [code : AnswerCodes, doc : Ids \cup {NoId}]]
    <3>1. CASE RowWith(Content(u)) = {}
      BY <1>11, <3>1 DEF Lookup, UploadTypes
    <3>2. CASE RowWith(Content(u)) # {}
      <4>1. PICK i \in Ids : answer' = [answer EXCEPT ![u] = Answer("", i)]
        BY <1>11, <3>2 DEF Lookup, RowWith
      <4> QED BY <2>2, <4>1 DEF UploadTypes
    <3> QED BY <3>1, <3>2
  <2> QED BY <1>11, <2>1, <2>3 DEF Lookup, UploadTypes
<1>12. CASE Commit(u)
  <2>1. own[u] \in Ids
    BY <1>2, <1>12 DEF Commit, Holding
  <2> QED BY <1>12, <2>1 DEF Commit, UploadTypes
<1>13. CASE CleanUp(u)
  <2>1. stored' \subseteq stored
    BY <1>13 DEF CleanUp, Delete
  <2> QED BY <1>13, <2>1 DEF CleanUp, UploadTypes
<1>14. CASE DropCopy(u)
  <2>1. stored' \subseteq stored
    BY <1>14 DEF DropCopy, Delete
  <2>2. answer[u].doc \in Ids \cup {NoId}
    BY DEF UploadTypes
  <2> QED BY <1>14, <2>1, <2>2 DEF DropCopy, UploadTypes
<1>15. CASE StorageFails(u)
  <2>1. own[u] \in Ids
    BY <1>2, <1>15 DEF StorageFails, Reserving
  <2> QED BY <1>15, <2>1, DropTempTypes DEF StorageFails, UploadTypes
<1>16. CASE CommitUnacknowledged(u)
  <2>1. own[u] \in Ids
    BY <1>2, <1>16 DEF CommitUnacknowledged, Holding
  <2> QED BY <1>16, <2>1 DEF CommitUnacknowledged, UploadTypes
<1>17. CASE DatabaseFails(u)
  BY <1>17 DEF DatabaseFails, UploadTypes
<1>18. CASE Die(u)
  BY <1>18 DEF Die, UploadTypes
<1> QED BY <1>3, <1>4, <1>5, <1>6, <1>7, <1>8, <1>9, <1>10, <1>11, <1>12, <1>13,
           <1>14, <1>15, <1>16, <1>17, <1>18
        DEF Step, Fault

LEMMA DeleteProjectTypes ==
  ASSUME UploadTypes, NEW p, DeleteProject(p)
  PROVE  UploadTypes'
BY DEF DeleteProject, UploadTypes, files

----------------------------------------------------------------------------
(* One entry for each id.                                                  *)

LEMMA OwnReservation ==
  ASSUME UploadTypes, NEW u \in Uploads, ReservedAt(u), Step(u) \/ Fault(u)
  PROVE  ReservedAt(u)'
<1> USE DEF UploadTypes, ReservedAt, Go, Respond, database, files, Reserving, Holding
<1>1. CASE CheckProject(u)
  BY <1>1 DEF CheckProject
<1>2. CASE DrawId(u)
  BY <1>2 DEF DrawId
<1>3. CASE OpenTemp(u)
  BY <1>3 DEF OpenTemp
<1>4. CASE Recheck(u)
  BY <1>4 DEF Recheck, Entries
<1>5. CASE Publish(u)
  BY <1>5 DEF Publish
<1>6. CASE UnlinkTemp(u)
  BY <1>6 DEF UnlinkTemp
<1>7. CASE RecheckProject(u)
  BY <1>7 DEF RecheckProject
<1>8. CASE Insert(u)
  BY <1>8 DEF Insert
<1>9. CASE Lookup(u)
  BY <1>9 DEF Lookup
<1>10. CASE Commit(u)
  BY <1>10 DEF Commit
<1>11. CASE CleanUp(u)
  BY <1>11 DEF CleanUp
<1>12. CASE DropCopy(u)
  BY <1>12 DEF DropCopy
<1>13. CASE StorageFails(u)
  BY <1>13 DEF StorageFails
<1>14. CASE CommitUnacknowledged(u)
  BY <1>14 DEF CommitUnacknowledged
<1>15. CASE DatabaseFails(u)
  BY <1>15 DEF DatabaseFails
<1>16. CASE Die(u)
  BY <1>16 DEF Die
<1> HIDE DEF UploadTypes, ReservedAt, Go, Respond, database, files, Reserving, Holding
<1> QED BY <1>1, <1>2, <1>3, <1>4, <1>5, <1>6, <1>7, <1>8, <1>9, <1>10, <1>11,
           <1>12, <1>13, <1>14, <1>15, <1>16
        DEF Step, Fault

\* The temporary entry changes hands only through its owner.
LEMMA TempOwner ==
  ASSUME UploadTypes, NEW u \in Uploads, ReservedAt(u), Step(u) \/ Fault(u),
         NEW i \in Ids, temp'[i] # temp[i]
  PROVE  temp[i] \in {NoUpload, u}
<1>1. pc[u] \in {"open", "recheck", "publish", "unlink"} => own[u] \in Ids
  BY DEF ReservedAt, Reserving, Holding
<1>2. OpenTemp(u) \/ Recheck(u) \/ StorageFails(u) \/ UnlinkTemp(u)
  BY DEF Step, Fault, CheckProject, DrawId, Publish, RecheckProject, Insert, Lookup,
         Commit, CleanUp, DropCopy, CommitUnacknowledged, DatabaseFails, Die, files
<1>3. CASE OpenTemp(u)
  BY <1>1, <1>3 DEF OpenTemp, UploadTypes, files
<1>4. CASE Recheck(u) \/ StorageFails(u) \/ UnlinkTemp(u)
  <2>1. temp[own[u]] = u /\ own[u] \in Ids
    BY <1>1, <1>4 DEF Recheck, StorageFails, UnlinkTemp, ReservedAt
  <2>2. temp' = [temp EXCEPT ![own[u]] = NoUpload]
    BY <1>4 DEF Recheck, StorageFails, UnlinkTemp, DropTemp
  <2> QED BY <2>1, <2>2 DEF UploadTypes
<1> QED BY <1>2, <1>3, <1>4

LEMMA ReservedKept ==
  ASSUME FilesInv, NEW u \in Uploads, Step(u) \/ Fault(u), NEW v \in Uploads
  PROVE  ReservedAt(v)'
<1> USE DEF FilesInv
<1>1. CASE v = u
  BY <1>1, OwnReservation
<1>2. CASE v # u
  <2>1. Unmoved(v)
    BY <1>2, OthersUnmoved
  <2>2. pc[v] \in Reserving \cup Holding => own[v] \in Ids
    BY DEF ReservedAt
  <2>3. pc[v] \in {"recheck", "publish", "unlink"} => temp'[own[v]] = v
    BY <1>2, <2>2, TempOwner, UploadAssumption DEF ReservedAt, Reserving, Holding
  <2>4. pc[v] = "publish" => Entries(own[v])' = {}
    <3>1. CASE Publishes(u)
      <4>1. own[u] # own[v] \/ pc[v] # "publish"
        BY <1>2, <3>1 DEF ReservedAt, Publishes
      <4> QED BY <2>1, <3>1, <4>1 DEF Publishes, Entries, EntryOf, Unmoved, ReservedAt
    <3>2. stored' \subseteq stored \/ Publishes(u)
      BY FileMoves DEF Reserves, Holds, Removes, Commits, Delete
    <3> QED BY <2>1, <3>1, <3>2 DEF Entries, Unmoved, ReservedAt
  <2> QED BY <2>1, <2>2, <2>3, <2>4 DEF Unmoved, ReservedAt
<1> QED BY <1>1, <1>2

\* A removal takes the one entry of the upload's own id, or nothing.
LEMMA RemovesOwn ==
  ASSUME FilesInv, NEW u \in Uploads, Removes(u)
  PROVE  stored' \in {stored, stored \ {EntryOf(u)}}
<1>1. EntryOf(u) \in stored
  BY DEF FilesInv, HeldAt, Removes
<1>2. Entries(own[u]) = {EntryOf(u)}
  BY <1>1 DEF FilesInv, OneEntry, Entries, EntryOf
<1> QED BY <1>2 DEF Removes, Delete

LEMMA FilesKept ==
  ASSUME FilesInv, NEW u \in Uploads, Step(u) \/ Fault(u)
  PROVE  FilesInv'
<1> USE DEF FilesInv
<1>1. UploadTypes'
  BY StepUploadTypes
<1>2. \A v \in Uploads : ReservedAt(v)'
  BY ReservedKept
<1>3. \A v \in Uploads \ {u} : Unmoved(v) /\ EntryOf(v)' = EntryOf(v)
  BY OthersUnmoved DEF Unmoved, EntryOf
<1>4. stored' \subseteq stored \/ Publishes(u)
  BY FileMoves DEF Reserves, Holds, Removes, Commits, Delete
<1>5. OneEntry'
  <2>1. CASE stored' \subseteq stored
    BY <2>1 DEF OneEntry
  <2>2. CASE Publishes(u)
    <3>1. \A e \in stored : e.id # own[u]
      BY <2>2 DEF Publishes, ReservedAt, Entries
    <3>2. EntryOf(u).id = own[u]
      BY DEF EntryOf
    <3> QED BY <2>2, <3>1, <3>2 DEF Publishes, OneEntry
  <2> QED BY <1>4, <2>1, <2>2
<1>6. \A v \in Uploads : HeldAt(v)'
  <2>1. ASSUME NEW v \in Uploads, pc'[v] \in Holding
        PROVE  EntryOf(v)' \in stored'
    <3>1. CASE v = u
      <4>1. Publishes(u) \/ Holds(u)
        BY <2>1, <3>1, FileMoves DEF Reserves, Removes, Commits, Holding
      <4> QED BY <3>1, <4>1 DEF Publishes, Holds, HeldAt, EntryOf
    <3>2. CASE v # u
      <4>1. EntryOf(v) \in stored
        BY <1>3, <2>1, <3>2 DEF Unmoved, HeldAt
      <4>2. EntryOf(v) # EntryOf(u)
        BY <3>2 DEF EntryOf
      <4>3. stored \subseteq stored' \/ stored' = stored \ {EntryOf(u)}
        BY FileMoves, RemovesOwn DEF Reserves, Publishes, Holds, Commits
      <4> QED BY <1>3, <3>2, <4>1, <4>2, <4>3
    <3> QED BY <3>1, <3>2
  <2> QED BY <2>1 DEF HeldAt
<1>7. \A e \in stored' : KnownEntry(e)'
  <2>1. ASSUME NEW e \in stored, e.by = u
        PROVE  ~Reserves(u) /\ ~Publishes(u) /\ e = EntryOf(u)
    BY <2>1, UploadAssumption DEF KnownEntry, Reserves, Publishes, Holding
  <2>2. ASSUME NEW e \in stored
        PROVE  KnownEntry(e)'
    <3>1. CASE e.by = NoUpload
      BY <2>2, <3>1 DEF KnownEntry
    <3>2. CASE e.by = u
      <4>1. own' = own /\ pc'[u] \in Holding \cup {"done", "dead"} /\ e = EntryOf(u)
        BY <2>1, <3>2, FileMoves DEF Holds, Removes, Commits
      <4> QED BY <3>2, <4>1, UploadAssumption DEF KnownEntry, EntryOf
    <3>3. CASE e.by # NoUpload /\ e.by # u
      <4>1. e.by \in Uploads
        BY <2>2, <3>3 DEF UploadTypes
      <4> QED BY <1>3, <2>2, <3>3, <4>1 DEF KnownEntry, Unmoved
    <3> QED BY <3>1, <3>2, <3>3
  <2>3. CASE Publishes(u)
    <3>1. EntryOf(u)' = EntryOf(u) /\ pc'[u] \in Holding /\ EntryOf(u).by = u
      BY <2>3 DEF Publishes, EntryOf, Holding
    <3>2. \A e : e = EntryOf(u) => KnownEntry(e)'
      BY <3>1, UploadAssumption DEF KnownEntry
    <3> QED BY <2>2, <2>3, <3>2 DEF Publishes
  <2> QED BY <1>4, <2>2, <2>3
<1> QED BY <1>1, <1>2, <1>5, <1>6, <1>7

----------------------------------------------------------------------------
(* What a step means for the rows, the open transactions and the answers.  *)

\* A commit, acknowledged or not, is all that writes a row.
Writes(u) ==
  /\ pc[u] = "commit" /\ pc'[u] \in {"done", "cleanup503"}
  /\ document' = [document EXCEPT ![own[u]] = u]
  /\ stored' = stored /\ own' = own

LEMMA DocumentMoves ==
  ASSUME UploadTypes, NEW u \in Uploads, Step(u) \/ Fault(u)
  PROVE  projects' = projects /\ (document' = document \/ Writes(u))
<1>1. CASE Commit(u) \/ CommitUnacknowledged(u)
  BY <1>1 DEF Commit, CommitUnacknowledged, Writes, files, Respond, Go, UploadTypes
<1>2. CASE ~(Commit(u) \/ CommitUnacknowledged(u))
  BY <1>2 DEF Step, Fault, CheckProject, DrawId, OpenTemp, Recheck, Publish, UnlinkTemp,
              RecheckProject, Insert, Lookup, CleanUp, DropCopy, StorageFails,
              DatabaseFails, Die, database
<1> QED BY <1>1, <1>2

LEMMA PendingMoves ==
  ASSUME UploadTypes, NEW u \in Uploads, Step(u) \/ Fault(u)
  PROVE  \/ Insert(u) /\ pc'[u] = "commit"
         \/ pc'[u] # "commit" /\ pending'[u] = NoId
         \/ pc[u] # "commit" /\ pc'[u] # "commit" /\ pending'[u] = pending[u]
<1> USE DEF UploadTypes, Go, Respond, database, files
<1>1. CASE CheckProject(u) \/ DrawId(u) \/ OpenTemp(u) \/ Recheck(u) \/ Publish(u)
  BY <1>1 DEF CheckProject, DrawId, OpenTemp, Recheck, Publish
<1>2. CASE UnlinkTemp(u) \/ RecheckProject(u) \/ Lookup(u) \/ CleanUp(u) \/ DropCopy(u)
  BY <1>2 DEF UnlinkTemp, RecheckProject, Lookup, CleanUp, DropCopy
<1>3. CASE Insert(u)
  BY <1>3 DEF Insert
<1>4. CASE Commit(u) \/ CommitUnacknowledged(u)
  BY <1>4 DEF Commit, CommitUnacknowledged
<1>5. CASE StorageFails(u)
  BY <1>5 DEF StorageFails
<1>6. CASE DatabaseFails(u) \/ Die(u)
  BY <1>6 DEF DatabaseFails, Die
<1> HIDE DEF UploadTypes, Go, Respond, database, files
<1> QED BY <1>1, <1>2, <1>3, <1>4, <1>5, <1>6 DEF Step, Fault

\* An upload learns of its document by looking it up or by committing it.
Learns(u) ==
  /\ pc'[u] = "dropCopy" /\ answer'[u].code = "" /\ document' = document
  /\ answer'[u].doc \in RowWith(Content(u))
Recalls(u) ==
  /\ Told(u) /\ answer'[u].doc = answer[u].doc
  /\ answer'[u].code = "CREATED" => answer[u].code = "CREATED"

LEMMA ToldMoves ==
  ASSUME UploadTypes, NEW u \in Uploads, Step(u) \/ Fault(u), Told(u)'
  PROVE  \/ Learns(u)
         \/ Recalls(u)
         \/ Writes(u) /\ answer'[u].doc = own[u]
<1> USE DEF UploadTypes, Go, Respond, Answer, database, files
<1>1. CASE answer'[u] = answer[u] /\ pc'[u] # "dropCopy"
  BY <1>1 DEF Told, Accepted, Recalls
<1>2. CASE pc'[u] = "done" /\ answer'[u].code \notin {"CREATED", "OK"}
  BY <1>2 DEF Told, Accepted
<1>3. CASE CheckProject(u) \/ DrawId(u)
  BY <1>1, <1>2, <1>3 DEF CheckProject, DrawId
<1>4. CASE OpenTemp(u) \/ Recheck(u) \/ Publish(u) \/ UnlinkTemp(u)
  BY <1>1, <1>4 DEF OpenTemp, Recheck, Publish, UnlinkTemp
<1>5. CASE RecheckProject(u) \/ Insert(u) \/ CommitUnacknowledged(u) \/ Die(u)
  BY <1>1, <1>5 DEF RecheckProject, Insert, CommitUnacknowledged, Die
<1>6. CASE StorageFails(u) \/ CleanUp(u) \/ DatabaseFails(u)
  BY <1>1, <1>2, <1>6 DEF StorageFails, CleanUp, DatabaseFails
<1>7. CASE Lookup(u)
  <2>1. CASE RowWith(Content(u)) = {}
    BY <1>1, <1>7, <2>1 DEF Lookup
  <2>2. CASE RowWith(Content(u)) # {}
    <3>1. PICK i \in RowWith(Content(u)) : answer' = [answer EXCEPT ![u] = Answer("", i)]
      BY <1>7, <2>2 DEF Lookup
    <3>2. answer'[u].code = "" /\ answer'[u].doc = i
      BY <3>1
    <3> QED BY <1>7, <2>2, <3>1, <3>2 DEF Lookup, Learns
  <2> QED BY <2>1, <2>2
<1>8. CASE Commit(u)
  BY <1>8 DEF Commit, Writes
<1>9. CASE DropCopy(u)
  BY <1>2, <1>9 DEF DropCopy, Told, Recalls
<1> HIDE DEF UploadTypes, Go, Respond, Answer, database, files
<1> QED BY <1>3, <1>4, <1>5, <1>6, <1>7, <1>8, <1>9 DEF Step, Fault

----------------------------------------------------------------------------
(* Rows, open transactions and answers from one step to the next.          *)

\* The files of the others are none of an upload's business.
LEMMA OthersFiles ==
  ASSUME FilesInv, NEW u \in Uploads, Step(u) \/ Fault(u), NEW v \in Uploads \ {u}
  PROVE  /\ EntryOf(v)' = EntryOf(v)
         /\ EntryOf(v)' \in stored' <=> EntryOf(v) \in stored
<1>1. EntryOf(v)' = EntryOf(v) /\ EntryOf(v) # EntryOf(u)
  BY OthersUnmoved DEF FilesInv, Unmoved, EntryOf
<1>2. stored' \in {stored, stored \cup {EntryOf(u)}, stored \ {EntryOf(u)}}
  BY FileMoves, RemovesOwn
     DEF FilesInv, Reserves, Publishes, Holds, Removes, Commits
<1> QED BY <1>1, <1>2

LEMMA RowsKept ==
  ASSUME UploadInv, NEW u \in Uploads, Step(u) \/ Fault(u), NEW i \in Ids
  PROVE  RowAt(i)'
<1> USE DEF UploadInv, FilesInv
<1>0. projects' = projects
  BY DocumentMoves
<1>1. ASSUME document'[i] = document[i], document[i] # NoUpload
      PROVE  RowAt(i)'
  <2>0. PICK w \in Uploads : w = document[i]
    BY <1>1 DEF UploadTypes
  <2>1. /\ own[w] = i /\ Asked[w].project \in projects
        /\ pc[w] \in {"cleanup503", "done", "dead"}
        /\ EntryOf(w) \in stored \/ answer[w].code = "DATABASE_FAILURE"
    BY <1>1, <2>0 DEF RowAt
  <2>2. CASE w # u
    <3>1. Unmoved(w) /\ (EntryOf(w)' \in stored' <=> EntryOf(w) \in stored)
      BY <2>2, OthersUnmoved, OthersFiles
    <3>2. document'[i] = w
      BY <1>1, <2>0
    <3> QED BY <1>0, <2>1, <3>1, <3>2 DEF RowAt, Unmoved
  <2>3. CASE w = u
    <3>1. pc[u] = "cleanup503" /\ (CleanUp(u) \/ Die(u))
      BY <2>1, <2>3
         DEF Step, Fault, CheckProject, DrawId, OpenTemp, Recheck, Publish,
             UnlinkTemp, RecheckProject, Insert, Lookup, Commit, CleanUp, DropCopy,
             StorageFails, CommitUnacknowledged, DatabaseFails, Die, Gone
    <3>2. own' = own
      BY <3>1 DEF CleanUp, Die
    <3>3. document'[i] = u
      BY <1>1, <2>0, <2>3
    <3>4. CASE CleanUp(u)
      <4>1. pc'[u] = "done" /\ answer'[u].code = "DATABASE_FAILURE"
        BY <3>1, <3>4 DEF CleanUp, Respond, Answer, Go, UploadTypes
      <4> QED BY <1>0, <2>1, <2>3, <3>2, <3>3, <4>1 DEF RowAt
    <3>5. CASE Die(u)
      <4>1. pc'[u] = "dead" /\ answer' = answer /\ stored' = stored
        BY <3>5 DEF Die, Go, UploadTypes, files
      <4> QED BY <1>0, <2>1, <2>3, <3>2, <3>3, <4>1 DEF RowAt, EntryOf
    <3> QED BY <3>1, <3>4, <3>5
  <2> QED BY <2>2, <2>3
<1>2. CASE document' = document
  BY <1>1, <1>2 DEF RowAt
<1>3. CASE Writes(u) /\ i # own[u]
  BY <1>1, <1>3 DEF Writes, UploadTypes, RowAt
<1>4. CASE Writes(u) /\ i = own[u]
  <2>1. document'[i] = u /\ own'[u] = i
    BY <1>4 DEF Writes, UploadTypes
  <2>2. Asked[u].project \in projects
    BY <1>4 DEF Writes, PendingAt
  <2>3. EntryOf(u)' \in stored'
    BY <1>4 DEF Writes, HeldAt, Holding, EntryOf
  <2>4. pc'[u] \in {"cleanup503", "done", "dead"}
    BY <1>4 DEF Writes
  <2> QED BY <1>0, <2>1, <2>2, <2>3, <2>4 DEF RowAt
<1> QED BY <1>2, <1>3, <1>4, DocumentMoves

\* The id and the content of a row that is written are new.
LEMMA WritesFirst ==
  ASSUME UploadInv, NEW u \in Uploads, Writes(u)
  PROVE  /\ pending[u] = own[u] /\ own[u] \in Ids
         /\ document[own[u]] = NoUpload /\ document'[own[u]] = u
         /\ RowWith(Content(u)) = {} /\ Asked[u].project \in projects
         /\ \A i \in Ids : i # own[u] => document'[i] = document[i]
BY DEF UploadInv, FilesInv, PendingAt, Writes, ReservedAt, Holding, UploadTypes

LEMMA OneRowKept ==
  ASSUME UploadInv, NEW u \in Uploads, Step(u) \/ Fault(u)
  PROVE  OneRow'
<1> USE DEF UploadInv, FilesInv
<1>1. CASE document' = document
  BY <1>1 DEF OneRow, Content
<1>2. CASE Writes(u)
  <2>1. \A i \in Ids : document[i] # NoUpload => Content(document[i]) # Content(u)
    BY <1>2, WritesFirst DEF RowWith
  <2>2. \A i \in Ids \ {own[u]} : document'[i] = document[i]
    BY <1>2, WritesFirst
  <2>3. document'[own[u]] = u
    BY <1>2, WritesFirst
  <2> SUFFICES ASSUME NEW i \in Ids, NEW j \in Ids, i # j,
                      document'[i] # NoUpload, document'[j] # NoUpload
               PROVE  Content(document'[i]) # Content(document'[j])
    BY DEF OneRow, Content
  <2>4. CASE i = own[u]
    BY <2>1, <2>2, <2>3, <2>4
  <2>5. CASE j = own[u]
    BY <2>1, <2>2, <2>3, <2>5
  <2>6. CASE i # own[u] /\ j # own[u]
    BY <2>2, <2>6 DEF OneRow
  <2> QED BY <2>4, <2>5, <2>6
<1> QED BY <1>1, <1>2, DocumentMoves

\* A row that is there stays what it is while no project is deleted.
LEMMA RowsStay ==
  ASSUME UploadInv, NEW u \in Uploads, Step(u) \/ Fault(u),
         NEW i \in Ids, document[i] # NoUpload
  PROVE  document'[i] = document[i]
BY DocumentMoves, WritesFirst DEF UploadInv, FilesInv

LEMMA PendingKept ==
  ASSUME UploadInv, NEW u \in Uploads, Step(u) \/ Fault(u)
  PROVE  OnePending' /\ \A v \in Uploads : PendingAt(v)'
<1> USE DEF UploadInv, FilesInv
<1>0. projects' = projects
  BY DocumentMoves
<1>1. \A v \in Uploads \ {u} : Unmoved(v)
  BY OthersUnmoved
<1>2. ASSUME NEW v \in Uploads \ {u}
      PROVE  PendingAt(v)'
  <2>1. CASE document' = document
    BY <1>0, <1>1, <1>2, <2>1 DEF PendingAt, Unmoved, RowWith, Content
  <2>2. CASE Writes(u)
    <3>1. pending[u] # NoId /\ own[u] \in Ids
      BY <2>2, WritesFirst, UploadAssumption
    <3>2. ASSUME pending[v] # NoId
          PROVE  /\ own[v] # own[u] /\ Content(v) # Content(u) /\ own[v] \in Ids
      BY <3>1, <3>2 DEF OnePending, PendingAt, UploadTypes
    <3>3. ASSUME pending[v] # NoId
          PROVE  document'[own[v]] = NoUpload /\ RowWith(Content(v))' = {}
      <4>1. document[own[v]] = NoUpload /\ RowWith(Content(v)) = {}
        BY <3>3 DEF PendingAt
      <4>2. document'[own[v]] = NoUpload
        BY <2>2, <3>2, <3>3, <4>1, WritesFirst
      <4>3. \A i \in Ids : document'[i] # NoUpload => Content(document'[i]) # Content(v)
        BY <2>2, <3>2, <3>3, <4>1, WritesFirst DEF RowWith
      <4> QED BY <4>2, <4>3 DEF RowWith, Content
    <3> QED BY <1>0, <1>1, <1>2, <3>3 DEF PendingAt, Unmoved
  <2> QED BY <2>1, <2>2, DocumentMoves
<1>3. PendingAt(u)'
  <2>1. CASE Insert(u) /\ pc'[u] = "commit"
    <3>1. own[u] \in Ids /\ own[u] # NoId
      BY <2>1, UploadAssumption DEF Insert, ReservedAt, Holding
    <3>2. /\ RowWith(Content(u)) = {} /\ Asked[u].project \in projects
          /\ document[own[u]] = NoUpload /\ pending'[u] = own[u]
      BY <2>1 DEF Insert, Go, UploadTypes
    <3>3. UNCHANGED <<document, own>>
      BY <2>1 DEF Insert
    <3> QED BY <1>0, <2>1, <3>1, <3>2, <3>3 DEF PendingAt, RowWith, Content
  <2>2. CASE pc'[u] # "commit" /\ pending'[u] = NoId
    BY <2>2 DEF PendingAt
  <2>3. CASE pc[u] # "commit" /\ pc'[u] # "commit" /\ pending'[u] = pending[u]
    BY <2>3 DEF PendingAt
  <2> QED BY <2>1, <2>2, <2>3, PendingMoves
<1>4. OnePending'
  <2>1. CASE Insert(u) /\ pc'[u] = "commit"
    <3>1. \A v \in Uploads \ {u} :
            pending[v] # NoId => own[v] # own[u] /\ Content(v) # Content(u)
      BY <2>1 DEF Insert, InsertMustWait, PendingAt
    <3>2. own' = own
      BY <2>1 DEF Insert
    <3> QED BY <1>1, <3>1, <3>2 DEF OnePending, Unmoved, Content
  <2>2. CASE pending'[u] = NoId
    BY <1>1, <2>2 DEF OnePending, Unmoved, Content
  <2>3. CASE pc[u] # "commit" /\ pc'[u] # "commit" /\ pending'[u] = pending[u]
    BY <2>2, <2>3 DEF PendingAt
  <2> QED BY <2>1, <2>2, <2>3, PendingMoves
<1> QED BY <1>2, <1>3, <1>4

\* Only an entry that cannot be unlinked survives its clean-up.
LEMMA RemovesUnlessStuck ==
  ASSUME FilesInv, NEW u \in Uploads, Removes(u), own[u] \notin Unremovable
  PROVE  EntryOf(u) \notin stored'
<1>1. EntryOf(u) \in stored
  BY DEF FilesInv, HeldAt, Removes
<1>2. Entries(own[u]) = {EntryOf(u)}
  BY <1>1 DEF FilesInv, OneEntry, Entries, EntryOf
<1>3. EntryOf(u).suffix # ".bin"
  BY UploadAssumption DEF EntryOf
<1>4. Available(own[u])
  BY <1>2, <1>3, FS_Singleton DEF Available
<1> QED BY <1>2, <1>4 DEF Removes, Delete, Deletable

LEMMA LeftKept ==
  ASSUME UploadInv, NEW u \in Uploads, Step(u) \/ Fault(u), NEW v \in Uploads
  PROVE  LeftAt(v)'
<1> USE DEF UploadInv, FilesInv
<1>0. projects' = projects
  BY DocumentMoves
<1>1. CASE v # u
  <2>1. Unmoved(v) /\ (EntryOf(v)' \in stored' => EntryOf(v) \in stored)
    BY <1>1, OthersUnmoved, OthersFiles
  <2>2. ASSUME document[own[v]] = v, EntryOf(v) \in stored
        PROVE  document'[own[v]] = v
    <3>1. own[v] \in Ids
      BY <2>2 DEF UploadTypes, EntryOf
    <3> QED BY <2>2, <3>1, RowsStay, UploadAssumption
  <2> QED BY <1>0, <2>1, <2>2 DEF LeftAt, Unmoved
<1>2. CASE v = u
  <2> SUFFICES ASSUME pc'[u] = "done", EntryOf(u)' \in stored'
               PROVE  \/ document'[own'[u]] = u \/ own'[u] \in Unremovable
    BY <1>2 DEF LeftAt
  <2>1. CASE Reserves(u)
    <3>1. EntryOf(u)' \in stored /\ (EntryOf(u)').by = u
      BY <2>1 DEF Reserves, EntryOf
    <3> QED BY <2>1, <3>1, UploadAssumption DEF Reserves, KnownEntry
  <2>2. CASE Publishes(u) \/ Holds(u)
    BY <2>2 DEF Publishes, Holds, Holding
  <2>3. CASE Removes(u)
    BY <2>3, RemovesUnlessStuck DEF Removes, EntryOf
  <2>4. CASE Commits(u)
    BY <2>4 DEF Commits, ReservedAt, Holding, UploadTypes
  <2> QED BY <2>1, <2>2, <2>3, <2>4, FileMoves
<1> QED BY <1>1, <1>2

----------------------------------------------------------------------------
(* What uploads are told.                                                  *)

LEMMA RowWithStays ==
  ASSUME UploadInv, NEW u \in Uploads, Step(u) \/ Fault(u), NEW v \in Uploads
  PROVE  RowWith(Content(v)) \subseteq RowWith(Content(v))'
BY RowsStay DEF RowWith, Content

LEMMA ToldKept ==
  ASSUME UploadInv, NEW u \in Uploads, Step(u) \/ Fault(u), NEW v \in Uploads
  PROVE  ToldAt(v)'
<1> USE DEF UploadInv, FilesInv
<1>0. projects' = projects
  BY DocumentMoves
<1>1. CASE v # u
  <2>1. Unmoved(v)
    BY <1>1, OthersUnmoved
  <2> QED BY <1>0, <2>1, RowWithStays DEF Unmoved, ToldAt, Told, Accepted
<1>2. CASE v = u
  <2> SUFFICES ASSUME Told(u)'
               PROVE  \/ Asked[u].project \notin projects
                      \/ answer'[u].doc \in RowWith(Content(u))'
    BY <1>0, <1>2 DEF ToldAt
  <2>1. CASE Learns(u)
    BY <2>1, RowWithStays DEF Learns
  <2>2. CASE Recalls(u)
    BY <2>2, RowWithStays DEF Recalls, ToldAt
  <2>3. CASE Writes(u) /\ answer'[u].doc = own[u]
    BY <2>3, WritesFirst, UploadAssumption DEF RowWith, Content
  <2> QED BY <2>1, <2>2, <2>3, ToldMoves
<1> QED BY <1>1, <1>2

\* A new answer agrees with an old one: both name the row of their content.
LEMMA ToldAsBefore ==
  ASSUME UploadInv, NEW u \in Uploads, Step(u) \/ Fault(u), Told(u)',
         NEW v \in Uploads \ {u}, Content(v) = Content(u), Told(v)
  PROVE  /\ answer'[u].doc = answer[v].doc
         /\ ~(answer'[u].code = "CREATED" /\ answer[v].code = "CREATED")
<1> USE DEF UploadInv, FilesInv
<1>1. Asked[v].project = Asked[u].project
  BY DEF Content
<1>2. CASE Learns(u)
  <2>1. PICK i \in Ids : /\ i = answer'[u].doc /\ document[i] # NoUpload
                         /\ Content(document[i]) = Content(u)
    BY <1>2 DEF Learns, RowWith
  <2>2. Asked[u].project \in projects
    BY <2>1 DEF RowAt, Content
  <2>3. answer[v].doc \in RowWith(Content(u))
    BY <1>1, <2>2 DEF ToldAt
  <2> QED BY <1>2, <2>1, <2>3 DEF Learns, RowWith, OneRow
<1>3. CASE Recalls(u)
  BY <1>3 DEF Recalls, ToldAlike
<1>4. CASE Writes(u)
  BY <1>1, <1>4, WritesFirst DEF ToldAt
<1> QED BY <1>2, <1>3, <1>4, ToldMoves

LEMMA ToldAlikeKept ==
  ASSUME UploadInv, NEW u \in Uploads, Step(u) \/ Fault(u)
  PROVE  ToldAlike'
<1>1. \A v \in Uploads \ {u} : answer'[v] = answer[v] /\ (Told(v)' <=> Told(v))
  BY OthersUnmoved DEF UploadInv, FilesInv, Unmoved, Told, Accepted
<1> SUFFICES ASSUME NEW v \in Uploads, NEW w \in Uploads, v # w,
                    Content(v) = Content(w), Told(v)', Told(w)'
             PROVE  /\ answer'[v].doc = answer'[w].doc
                    /\ ~(answer'[v].code = "CREATED" /\ answer'[w].code = "CREATED")
  BY DEF ToldAlike, Content
<1>2. CASE v = u
  BY <1>1, <1>2, ToldAsBefore
<1>3. CASE w = u
  BY <1>1, <1>3, ToldAsBefore
<1>4. CASE v # u /\ w # u
  BY <1>1, <1>4 DEF UploadInv, ToldAlike
<1> QED BY <1>2, <1>3, <1>4

----------------------------------------------------------------------------
(* A project that is deleted takes its rows, and only them, with it.       *)
LEMMA DeleteProjectKeeps ==
  ASSUME UploadInv, NEW p, DeleteProject(p)
  PROVE  UploadInv'
<1> USE DEF UploadInv, FilesInv
<1>1. /\ projects' = projects \ {p}
      /\ UNCHANGED <<pending, stored, temp, own, tries, pc, answer>>
  BY DEF DeleteProject, files
<1>2. \A i \in Ids : document[i] # NoUpload =>
        document'[i] = IF Asked[document[i]].project = p THEN NoUpload ELSE document[i]
  BY DEF DeleteProject, Content
<1>3. \A i \in Ids : document[i] = NoUpload => document'[i] = NoUpload
  BY DEF DeleteProject
<1>4. UploadTypes'
  BY DeleteProjectTypes
<1>5. FilesInv'
  <2>1. \A u \in Uploads : ReservedAt(u)' /\ HeldAt(u)'
    BY <1>1 DEF ReservedAt, HeldAt, Entries, EntryOf
  <2>2. OneEntry' /\ \A e \in stored' : KnownEntry(e)'
    BY <1>1 DEF OneEntry, KnownEntry, EntryOf
  <2> QED BY <1>4, <2>1, <2>2
<1>6. \A i \in Ids : RowAt(i)'
  <2> TAKE i \in Ids
  <2>1. CASE document'[i] = NoUpload
    BY <2>1 DEF RowAt
  <2>2. CASE document'[i] # NoUpload
    <3>1. document'[i] = document[i] /\ Asked[document[i]].project # p
      BY <1>2, <1>3, <2>2
    <3> QED BY <1>1, <2>2, <3>1 DEF RowAt, EntryOf
  <2> QED BY <2>1, <2>2
<1>7. OneRow'
  BY <1>2, <1>3 DEF OneRow, Content
<1>8. \A u \in Uploads : PendingAt(u)'
  <2> TAKE u \in Uploads
  <2>1. ASSUME pending[u] # NoId
        PROVE  /\ document'[own[u]] = NoUpload /\ RowWith(Content(u))' = {}
               /\ Asked[u].project \in projects'
    <3>1. /\ own[u] \in Ids /\ document[own[u]] = NoUpload
          /\ RowWith(Content(u)) = {} /\ Asked[u].project \in projects
      BY <2>1 DEF PendingAt, UploadTypes
    <3>2. Asked[u].project # p
      BY <2>1 DEF DeleteProject
    <3>3. RowWith(Content(u))' = {}
      BY <1>2, <1>3, <3>1 DEF RowWith, Content
    <3> QED BY <1>1, <1>3, <3>1, <3>2, <3>3
  <2> QED BY <1>1, <2>1 DEF PendingAt
<1>9. OnePending' /\ ToldAlike'
  BY <1>1 DEF OnePending, ToldAlike, Told, Accepted, Content
<1>10. \A u \in Uploads : LeftAt(u)'
  <2> TAKE u \in Uploads
  <2>1. ASSUME document[own[u]] = u, EntryOf(u) \in stored
        PROVE  document'[own[u]] = u \/ Asked[u].project \notin projects'
    <3>1. own[u] \in Ids
      BY <2>1 DEF UploadTypes, EntryOf
    <3> QED BY <1>1, <1>2, <2>1, <3>1, UploadAssumption
  <2> QED BY <1>1, <2>1 DEF LeftAt, EntryOf
<1>11. \A u \in Uploads : ToldAt(u)'
  <2> TAKE u \in Uploads
  <2>1. ASSUME NEW i \in RowWith(Content(u)), Asked[u].project # p
        PROVE  i \in RowWith(Content(u))'
    <3>1. /\ i \in Ids /\ document[i] # NoUpload /\ Content(document[i]) = Content(u)
      BY <2>1 DEF RowWith
    <3>2. Asked[document[i]].project # p
      BY <2>1, <3>1 DEF Content
    <3> QED BY <1>2, <3>1, <3>2 DEF RowWith, Content
  <2> QED BY <1>1, <2>1 DEF ToldAt, Told, Accepted
<1> QED BY <1>5, <1>6, <1>7, <1>8, <1>9, <1>10, <1>11

----------------------------------------------------------------------------
(* The invariant holds.                                                    *)
LEMMA InitUpload == Init => UploadInv
<1> SUFFICES ASSUME Init PROVE UploadInv
  OBVIOUS
<1>1. UploadTypes
  <2>1. NoAnswer \in [code : AnswerCodes, doc : Ids \cup {NoId}]
    BY DEF NoAnswer, Answer, AnswerCodes
  <2>2. "check" \in UploadLabels
    BY DEF UploadLabels
  <2>3. stored \subseteq [id : Ids, suffix : Suffixes, by : Uploads \cup {NoUpload}]
    BY UploadAssumption DEF Init, Suffixes
  <2> QED BY <2>1, <2>2, <2>3 DEF Init, UploadTypes
<1>2. \A u \in Uploads : /\ pc[u] = "check" /\ pending[u] = NoId
                         /\ ~Told(u) /\ ReservedAt(u) /\ HeldAt(u)
  BY DEF Init, Told, Accepted, NoAnswer, Answer, ReservedAt, HeldAt, Reserving, Holding
<1>3. OneEntry /\ \A e \in stored : KnownEntry(e)
  BY DEF Init, OneEntry, KnownEntry
<1>4. \A i \in Ids : document[i] = NoUpload
  BY DEF Init
<1> QED BY <1>1, <1>2, <1>3, <1>4
        DEF UploadInv, FilesInv, RowAt, OneRow, PendingAt, OnePending, LeftAt, ToldAt,
            ToldAlike

LEMMA NextUpload == UploadInv /\ [Next]_vars => UploadInv'
<1> SUFFICES ASSUME UploadInv, [Next]_vars PROVE UploadInv'
  OBVIOUS
<1>1. ASSUME NEW u \in Uploads, Step(u) \/ Fault(u)
      PROVE  UploadInv'
  <2>1. FilesInv'
    BY <1>1, FilesKept DEF UploadInv
  <2>2. \A i \in Ids : RowAt(i)'
    BY <1>1, RowsKept
  <2>3. OneRow' /\ OnePending' /\ ToldAlike'
    BY <1>1, OneRowKept, PendingKept, ToldAlikeKept
  <2>4. \A v \in Uploads : PendingAt(v)' /\ LeftAt(v)' /\ ToldAt(v)'
    BY <1>1, PendingKept, LeftKept, ToldKept
  <2> QED BY <2>1, <2>2, <2>3, <2>4 DEF UploadInv
<1>2. CASE UNCHANGED vars
  BY <1>2 DEF vars, UploadInv, FilesInv, UploadTypes, ReservedAt, HeldAt, OneEntry,
              KnownEntry, EntryOf, Entries, RowAt, OneRow, PendingAt, OnePending, LeftAt,
              ToldAt, ToldAlike, Told, Accepted, RowWith
<1> QED BY <1>1, <1>2, DeleteProjectKeeps DEF Next, Terminating

LEMMA UploadAlways == Spec => []UploadInv
BY InitUpload, NextUpload, PTL DEF Spec

----------------------------------------------------------------------------
(* However many uploads draw the same id, and whatever their suffixes,     *)
(* _reserve_upload and os.link publish one entry for it at most.           *)
THEOREM IdsAreUnique == Spec => []OneEntryPerId
<1>1. UploadInv => OneEntryPerId
  <2> SUFFICES ASSUME UploadInv, NEW i \in Ids PROVE Cardinality(Entries(i)) <= 1
    BY DEF OneEntryPerId
  <2>1. CASE Entries(i) = {}
    BY <2>1, FS_EmptySet
  <2>2. ASSUME NEW e \in Entries(i) PROVE Cardinality(Entries(i)) <= 1
    <3>1. Entries(i) = {e}
      BY <2>2 DEF UploadInv, FilesInv, OneEntry, Entries
    <3>2. Cardinality({e}) = 1
      BY FS_Singleton
    <3>3. Cardinality(Entries(i)) = 1
      BY <3>1, <3>2
    <3> QED BY <3>3
  <2> QED BY <2>1, <2>2
<1> QED BY <1>1, UploadAlways, PTL

(* A row of documents has its readable file, written by its own upload,    *)
(* except after a COMMIT whose acknowledgement was lost, when the API      *)
(* answers 503 and cleans up.                                              *)
THEOREM RowsHaveFiles == Spec => []RowHasItsFile
<1>1. UploadInv => RowHasItsFile
  <2> SUFFICES ASSUME UploadInv, NEW i \in Ids, document[i] # NoUpload,
                      answer[document[i]].code # "DATABASE_FAILURE"
               PROVE  Available(i) /\ \A e \in Entries(i) : e.by = document[i]
    BY DEF RowHasItsFile
  <2>1. PICK u \in Uploads : u = document[i]
    BY DEF UploadInv, FilesInv, UploadTypes
  <2>2. EntryOf(u) \in stored /\ own[u] = i
    BY <2>1 DEF UploadInv, RowAt
  <2>3. Entries(i) = {EntryOf(u)}
    BY <2>2 DEF UploadInv, FilesInv, OneEntry, Entries, EntryOf
  <2>4. EntryOf(u).suffix # ".bin" /\ EntryOf(u).by = u
    BY UploadAssumption DEF EntryOf
  <2> QED BY <2>1, <2>3, <2>4, FS_Singleton DEF Available
<1> QED BY <1>1, UploadAlways, PTL

(* No upload that was answered leaves a file that no row refers to, unless *)
(* its project was deleted or the file system refuses to unlink it.        *)
THEOREM NoFileIsOrphaned == Spec => []NoOrphanFiles
<1>1. UploadInv => NoOrphanFiles
  <2> SUFFICES ASSUME UploadInv, NEW e \in stored, e.by # NoUpload,
                      document[e.id] = NoUpload, pc[e.by] = "done"
               PROVE  Asked[e.by].project \notin projects \/ e.id \in Unremovable
    BY DEF NoOrphanFiles
  <2>1. PICK u \in Uploads : u = e.by
    BY DEF UploadInv, FilesInv, UploadTypes
  <2>2. e = EntryOf(u) /\ e.id = own[u]
    BY <2>1 DEF UploadInv, FilesInv, KnownEntry, EntryOf
  <2> QED BY <2>1, <2>2, UploadAssumption DEF UploadInv, LeftAt
<1> QED BY <1>1, UploadAlways, PTL

(* The same bytes in the same project are the same document to everyone    *)
(* who is answered, and one upload at most is told that it created it.     *)
THEOREM SameBytesAlike == Spec => []SameBytesSameDocument
<1>1. UploadInv => SameBytesSameDocument
  BY DEF UploadInv, ToldAlike, Told, SameBytesSameDocument
<1> QED BY <1>1, UploadAlways, PTL

=============================================================================
