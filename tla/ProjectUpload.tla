---------------------------- MODULE ProjectUpload ----------------------------
(***************************************************************************)
(* POST /projects/{id}/documents (apps/api/app/main.py) over the local     *)
(* document store (georeport3d/storage/local.py) and the documents table:  *)
(* concurrent uploads from any number of workers over one storage root.    *)
(*                                                                         *)
(* File-system calls are single steps, because other processes act between *)
(* them; so are the statements of the transaction that inserts the row.    *)
(* An upload the API refuses on its name or type reaches neither store nor *)
(* database and is left out.                                               *)
(***************************************************************************)
EXTENDS Integers, FiniteSets

CONSTANTS
  Uploads,       \* requests; each is handled once
  Asked,         \* [Uploads -> [project, sha, suffix]]: what each one sends
  Projects,      \* project ids that exist at the start
  Ids,           \* what uuid4 may return
  LegacyIds,     \* ids under which a ".bin" entry of an older release lies
  Unremovable,   \* ids whose entries the file system refuses to unlink
  MaxIdAttempts, \* _MAX_ID_ATTEMPTS
  NoUpload, NoId

ASSUME UploadAssumption ==
  /\ NoUpload \notin Uploads /\ NoId \notin Ids
  /\ LegacyIds \subseteq Ids /\ Unremovable \subseteq Ids
  /\ MaxIdAttempts \in Nat
  /\ \A u \in Uploads : Asked[u].suffix \in {".pdf", ".docx"}

VARIABLES
  projects,   \* committed rows of projects
  document,   \* committed rows of documents, by id: the upload that wrote it
  pending,    \* the id whose row an open transaction has inserted
  stored,     \* entries of the root: id, suffix, and the upload that wrote it
  temp,       \* owner of the temporary entry of each id
  own,        \* the id an upload has reserved, or is trying to
  tries,      \* rounds of _reserve_upload
  pc,         \* the step each upload is at
  answer      \* the response: a code, and the document it names

vars == <<projects, document, pending, stored, temp, own, tries, pc, answer>>
database == <<projects, document, pending>>
files == <<stored, temp>>

Content(u) == <<Asked[u].project, Asked[u].sha>>
Entries(i) == {e \in stored : e.id = i}

\* path_for finds a file: one canonical entry and nothing beside it.
Available(i) == Cardinality(Entries(i)) = 1
                /\ \A e \in Entries(i) : e.suffix # ".bin"

Answer(code, i) == [code |-> code, doc |-> i]
NoAnswer == Answer("", NoId)
Gone(u) == pc[u] \in {"done", "dead"}

Go(u, label) == pc' = [pc EXCEPT ![u] = label]
Respond(u, code, i) ==
  Go(u, "done") /\ answer' = [answer EXCEPT ![u] = Answer(code, i)]

----------------------------------------------------------------------------
\* The first transaction: the project must exist before bytes are accepted.
CheckProject(u) ==
  /\ pc[u] = "check"
  /\ IF Asked[u].project \in projects
     THEN Go(u, "reserve") /\ UNCHANGED answer
     ELSE Respond(u, "PROJECT_NOT_FOUND", NoId)
  /\ UNCHANGED <<database, files, own, tries>>

(* LocalDocumentStore._reserve_upload                                      *)

\* A fresh id, unless it is taken already; after the last round RuntimeError.
DrawId(u) ==
  /\ pc[u] = "reserve"
  /\ IF tries[u] = MaxIdAttempts
     THEN Respond(u, "INTERNAL_ERROR", NoId) /\ UNCHANGED <<own, tries>>
     ELSE \E i \in Ids :
            /\ tries' = [tries EXCEPT ![u] = @ + 1]
            /\ own' = [own EXCEPT ![u] = i]
            /\ IF Entries(i) = {} THEN Go(u, "open") ELSE UNCHANGED pc
            /\ UNCHANGED answer
  /\ UNCHANGED <<database, files>>

\* open(temporary_path, "xb") succeeds for one upload at a time.
OpenTemp(u) ==
  /\ pc[u] = "open"
  /\ IF temp[own[u]] = NoUpload
     THEN temp' = [temp EXCEPT ![own[u]] = u] /\ Go(u, "recheck")
     ELSE Go(u, "reserve") /\ UNCHANGED temp
  /\ UNCHANGED <<database, stored, own, tries, answer>>

\* _unlink_without_masking on the temporary entry.
DropTemp(i) ==
  temp' = IF i \in Unremovable THEN temp ELSE [temp EXCEPT ![i] = NoUpload]

\* mutant: whoever created the temporary entry believes the id is its own
RecheckTrusting(u) ==
  /\ pc[u] = "recheck"
  /\ Go(u, "publish")
  /\ UNCHANGED <<database, files, own, tries, answer>>

\* Another upload may have published the id between DrawId and OpenTemp.
Recheck(u) ==
  /\ pc[u] = "recheck"
  /\ IF Entries(own[u]) = {}
     THEN Go(u, "publish") /\ UNCHANGED temp
     ELSE Go(u, "reserve") /\ DropTemp(own[u])
  /\ UNCHANGED <<database, stored, own, tries, answer>>

(* LocalDocumentStore.save_stream after the reservation                    *)

\* Too many bytes, or an OSError on the way: the owned entry is dropped.
StorageFails(u) ==
  /\ pc[u] = "publish"
  /\ DropTemp(own[u])
  /\ \E code \in {"FILE_TOO_LARGE", "STORAGE_FAILURE"} : Respond(u, code, NoId)
  /\ UNCHANGED <<database, stored, own, tries>>

\* os.link of the written and synced file; it refuses an existing name.
Publish(u) ==
  /\ pc[u] = "publish"
  /\ LET entry == [id |-> own[u], suffix |-> Asked[u].suffix, by |-> u]
     IN  /\ \A e \in Entries(own[u]) : e.suffix # entry.suffix
         /\ stored' = stored \cup {entry}
  /\ Go(u, "unlink")
  /\ UNCHANGED <<database, temp, own, tries, answer>>

UnlinkTemp(u) ==
  /\ pc[u] = "unlink"
  /\ DropTemp(own[u])
  /\ Go(u, "recheckProject")
  /\ UNCHANGED <<database, stored, own, tries, answer>>

----------------------------------------------------------------------------
(* The second transaction: the project again, then DocumentRepository.add. *)

RecheckProject(u) ==
  /\ pc[u] = "recheckProject"
  /\ Go(u, IF Asked[u].project \in projects THEN "insert" ELSE "cleanup404")
  /\ UNCHANGED <<database, files, own, tries, answer>>

RowWith(content) ==
  {i \in Ids : document[i] # NoUpload /\ Content(document[i]) = content}

\* INSERT waits for an open transaction whose row would collide with it.
InsertMustWait(u) ==
  \E v \in Uploads \ {u} :
    pending[v] # NoId /\ (pending[v] = own[u] \/ Content(v) = Content(u))

\* mutant: the check for an existing row and the insert are two statements,
\* and no unique constraint stands behind them
InsertUnconstrained(u) ==
  /\ pc[u] = "insert"
  /\ IF RowWith(Content(u)) # {} THEN Go(u, "lookup") /\ UNCHANGED pending
     ELSE Go(u, "commit") /\ pending' = [pending EXCEPT ![u] = own[u]]
  /\ UNCHANGED <<projects, document, files, own, tries, answer>>

\* ON CONFLICT (project_id, sha256) DO NOTHING.  A primary key that is taken,
\* or a project that is gone, is an IntegrityError.
Insert(u) ==
  /\ pc[u] = "insert" /\ ~InsertMustWait(u)
  /\ IF RowWith(Content(u)) # {} THEN Go(u, "lookup") /\ UNCHANGED pending
     ELSE IF Asked[u].project \notin projects \/ document[own[u]] # NoUpload
     THEN Go(u, "cleanup503") /\ UNCHANGED pending
     ELSE Go(u, "commit") /\ pending' = [pending EXCEPT ![u] = own[u]]
  /\ UNCHANGED <<projects, document, files, own, tries, answer>>

\* mutant: the redundant copy is forgotten
LookupKeepingCopy(u) ==
  /\ pc[u] = "lookup"
  /\ IF RowWith(Content(u)) = {}
     THEN Go(u, "cleanup503") /\ UNCHANGED answer
     ELSE \E i \in RowWith(Content(u)) : Respond(u, "OK", i)
  /\ UNCHANGED <<database, files, own, tries>>

\* get_by_sha256; the response is built from the row it finds, and the copy
\* just stored is redundant.  LookupError when the row has gone.
Lookup(u) ==
  /\ pc[u] = "lookup"
  /\ IF RowWith(Content(u)) = {}
     THEN Go(u, "cleanup503") /\ UNCHANGED answer
     ELSE \E i \in RowWith(Content(u)) :
            /\ Go(u, "dropCopy")
            /\ answer' = [answer EXCEPT ![u] = Answer("", i)]
  /\ UNCHANGED <<database, files, own, tries>>

Commit(u) ==
  /\ pc[u] = "commit"
  /\ document' = [document EXCEPT ![own[u]] = u]
  /\ pending' = [pending EXCEPT ![u] = NoId]
  /\ Respond(u, "CREATED", own[u])
  /\ UNCHANGED <<projects, files, own, tries>>

\* The COMMIT takes effect and its acknowledgement is lost.
CommitUnacknowledged(u) ==
  /\ pc[u] = "commit"
  /\ document' = [document EXCEPT ![own[u]] = u]
  /\ pending' = [pending EXCEPT ![u] = NoId]
  /\ Go(u, "cleanup503")
  /\ UNCHANGED <<projects, files, own, tries, answer>>

\* The database refuses a statement or the connection breaks: rollback.
DatabaseFails(u) ==
  /\ pending' = [pending EXCEPT ![u] = NoId]
  /\ \/ pc[u] = "check" /\ Respond(u, "DATABASE_FAILURE", NoId)
     \/ /\ pc[u] \in {"recheckProject", "insert", "lookup", "commit"}
        /\ Go(u, "cleanup503") /\ UNCHANGED answer
  /\ UNCHANGED <<projects, document, files, own, tries>>

----------------------------------------------------------------------------
(* LocalDocumentStore.delete removes the one canonical entry of an id, and *)
(* refuses to choose when there is more than one or a legacy entry.        *)
Deletable(i) == i \notin Unremovable /\ Available(i)
Delete(i) == stored' = IF Deletable(i) THEN stored \ Entries(i) ELSE stored

\* cleanup_upload_without_masking: the refusal stands whatever it manages.
CleanUp(u) ==
  /\ \/ pc[u] = "cleanup404" /\ Respond(u, "PROJECT_NOT_FOUND", NoId)
     \/ pc[u] = "cleanup503" /\ Respond(u, "DATABASE_FAILURE", NoId)
  /\ Delete(own[u])
  /\ UNCHANGED <<database, temp, own, tries>>

\* mutant: the document named in the response is removed, not the receipt's
DropOriginal(u) ==
  /\ pc[u] = "dropCopy"
  /\ Delete(answer[u].doc)
  /\ IF Deletable(answer[u].doc) THEN Respond(u, "OK", answer[u].doc)
                                 ELSE Respond(u, "STORAGE_CLEANUP_FAILED", NoId)
  /\ UNCHANGED <<database, temp, own, tries>>

\* cleanup_upload of a copy whose content the project already has.
DropCopy(u) ==
  /\ pc[u] = "dropCopy"
  /\ Delete(own[u])
  /\ IF Deletable(own[u]) THEN Respond(u, "OK", answer[u].doc)
                          ELSE Respond(u, "STORAGE_CLEANUP_FAILED", NoId)
  /\ UNCHANGED <<database, temp, own, tries>>

\* mutant: the row of a dead connection is never rolled back
DieHoldingRow(u) ==
  /\ ~Gone(u)
  /\ Go(u, "dead")
  /\ UNCHANGED <<database, files, own, tries, answer>>

\* The worker dies; PostgreSQL rolls back what it had open, files stay.
Die(u) ==
  /\ ~Gone(u)
  /\ Go(u, "dead")
  /\ pending' = [pending EXCEPT ![u] = NoId]
  /\ UNCHANGED <<projects, document, files, own, tries, answer>>

\* No route deletes a project: an operator does, and its documents go with
\* it.  An uncommitted row of the project makes the DELETE wait.
DeleteProject(p) ==
  /\ p \in projects
  /\ \A u \in Uploads : pending[u] # NoId => Asked[u].project # p
  /\ projects' = projects \ {p}
  /\ document' = [i \in Ids |->
       IF document[i] # NoUpload /\ Content(document[i])[1] = p
       THEN NoUpload ELSE document[i]]
  /\ UNCHANGED <<pending, files, own, tries, pc, answer>>

----------------------------------------------------------------------------
Init ==
  /\ projects = Projects
  /\ document = [i \in Ids |-> NoUpload]
  /\ pending = [u \in Uploads |-> NoId]
  /\ stored = {[id |-> i, suffix |-> ".bin", by |-> NoUpload] : i \in LegacyIds}
  /\ temp = [i \in Ids |-> NoUpload]
  /\ own = [u \in Uploads |-> NoId]
  /\ tries = [u \in Uploads |-> 0]
  /\ pc = [u \in Uploads |-> "check"]
  /\ answer = [u \in Uploads |-> NoAnswer]

Step(u) ==
  \/ CheckProject(u) \/ DrawId(u) \/ OpenTemp(u) \/ Recheck(u)
  \/ Publish(u) \/ UnlinkTemp(u)
  \/ RecheckProject(u) \/ Insert(u) \/ Lookup(u) \/ Commit(u)
  \/ CleanUp(u) \/ DropCopy(u)

Fault(u) ==
  StorageFails(u) \/ CommitUnacknowledged(u) \/ DatabaseFails(u) \/ Die(u)

Terminating == (\A u \in Uploads : Gone(u)) /\ UNCHANGED vars

Next ==
  \/ \E u \in Uploads : Step(u) \/ Fault(u)
  \/ \E p \in Projects : DeleteProject(p)
  \/ Terminating

Spec == Init /\ [][Next]_vars

\* A worker that can take its next step does, PostgreSQL queues waiters, and
\* nobody relies on a fault.
FairSpec == Spec /\ \A u \in Uploads : WF_vars(Step(u))

----------------------------------------------------------------------------
Accepted(u) == answer[u].code \in {"CREATED", "OK"}

(* Concurrent uploads that draw the same id never publish two entries for  *)
(* it, whatever their suffixes: the exclusive temporary entry and the      *)
(* second look at the root decide, and os.link alone would not, since it   *)
(* only refuses the same name.  Two entries would make both unreadable.    *)
OneEntryPerId == \A i \in Ids : Cardinality(Entries(i)) <= 1

(* A row of documents has its file, written by the upload that wrote the   *)
(* row.  The one exception is an upload that was told 503 after a COMMIT   *)
(* whose acknowledgement was lost: its clean-up removes the file of a row  *)
(* that exists.                                                            *)
RowHasItsFile ==
  \A i \in Ids : document[i] # NoUpload =>
    LET u == document[i] IN
    \/ Available(i) /\ \A e \in Entries(i) : e.by = u
    \/ answer[u].code = "DATABASE_FAILURE"

(* A file without a row is one of an upload still on its way or dead, of a *)
(* project that was deleted, or one that could not be unlinked: refusals   *)
(* and repeated content leave nothing in the store.                        *)
NoOrphanFiles ==
  \A e \in stored : e.by # NoUpload /\ document[e.id] = NoUpload =>
    \/ pc[e.by] # "done"
    \/ Asked[e.by].project \notin projects
    \/ e.id \in Unremovable

(* The same bytes in the same project are the same document to everyone    *)
(* who is answered, in whatever order the uploads overlap, and one upload  *)
(* at most is told that it created it.                                     *)
SameBytesSameDocument ==
  \A u, v \in Uploads :
    u # v /\ Content(u) = Content(v) /\ Accepted(u) /\ Accepted(v) =>
      /\ answer[u].doc = answer[v].doc
      /\ ~(answer[u].code = "CREATED" /\ answer[v].code = "CREATED")

(* Every upload is answered: none draws ids for ever, and none waits for   *)
(* the row of a worker that died.                                          *)
EveryUploadAnswered == \A u \in Uploads : <>Gone(u)

=============================================================================
