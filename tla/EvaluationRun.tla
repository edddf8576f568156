----------------------------- MODULE EvaluationRun -----------------------------
(***************************************************************************)
(* The paid evaluations of deployment/: `modal run` of the vision probe or *)
(* of the OCR comparison, whose cloud functions keep what they read in a   *)
(* results Volume and give only counts to the caller.                      *)
(*                                                                         *)
(* Every `modal run` is an application of its own, so a function runs in a *)
(* container that mounts the Volume when it starts and sees nothing that   *)
(* others commit later; what it writes is its own until it commits, and a  *)
(* commit replaces a file that was committed meanwhile.                    *)
(***************************************************************************)
EXTENDS TokenMatching

CONSTANTS
  Calls,      \* invocations of an entry point,
  Tool,       \* the probe, "vision", or the comparison, "ocr", of each,
  RunId,      \* and the run id it is given
  Cases,      \* dataset cases: [annotation, allowed pages, stored object]
  Pages,      \* PAGES, the sheets that are read
  Expected,   \* the provisional tokens of each
  Readings,   \* what an engine may make of them: a page is [empty, tokens],
              \* empty without a character, as after an exception
  Listed      \* the prefixes that count as identifiers

\* A phrase without a token is a ValueError.
ASSUME EvaluationAssumption ==
  /\ Tool \in [Calls -> {"vision", "ocr"}]
  /\ Expected \in [Pages -> Seq(Seq(Token) \ {<<>>})]
  /\ Readings \subseteq [Pages -> [empty : BOOLEAN, tokens : Seq(Token)]]
  /\ \A r \in Readings : \A p \in Pages : r[p].empty => r[p].tokens = <<>>

VARIABLES
  phase,      \* new, waiting, succeeded, incomplete, refused or failed
  case,       \* the dataset case that was selected
  work,       \* the cloud function of each engine: its pc, whether its mount
              \* has the artifact already, and its reading
  volume,     \* the committed artifacts
  printed     \* the summaries the caller printed

vars == <<phase, case, work, volume, printed>>

Engines(c) == IF Tool[c] = "vision" THEN {"vision"} ELSE {"docling", "unlimited"}

Idle == [pc |-> "idle", sees |-> FALSE, reading |-> <<>>]

Artifact(c, e) == [id |-> RunId[c], engine |-> e, by |-> c,
                   reading |-> work[c][e].reading]
Present(c, e) == \E x \in volume : x.id = RunId[c] /\ x.engine = e

Become(c, e, pc) == work' = [work EXCEPT ![c][e].pc = pc]

\* What a container had in hand is gone with it.
Leave(c, e, pc) == work' = [work EXCEPT ![c][e] = [Idle EXCEPT !.pc = pc]]

----------------------------------------------------------------------------
(* main: the case is looked up again locally, and every engine is called.  *)
Begin(c, k) ==
  /\ phase[c] = "new"
  /\ case' = [case EXCEPT ![c] = k]
  /\ IF k.annotation # "provisional_tokens"
     THEN phase' = [phase EXCEPT ![c] = "refused"] /\ UNCHANGED work
     ELSE /\ phase' = [phase EXCEPT ![c] = "waiting"]
          /\ work' = [work EXCEPT ![c] =
                        [e \in Engines(c) |-> [Idle EXCEPT !.pc = "called"]]]
  /\ UNCHANGED <<volume, printed>>

\* The page selection and verify_dataset_hash, before anything is read.
Eligible(k) ==
  k.annotation = "provisional_tokens" /\ Pages \subseteq k.allowed /\ k.stored = "intact"

\* The container starts: it mounts the Volume and checks the dataset.
Mount(c, e) ==
  /\ work[c][e].pc = "called"
  /\ IF Eligible(case[c])
     THEN work' = [work EXCEPT ![c][e].pc = "mounted", ![c][e].sees = Present(c, e)]
     ELSE Leave(c, e, "raised")
  /\ UNCHANGED <<phase, case, volume, printed>>

\* One reading per page; the page that raises is left without text.
Read(c, e) ==
  /\ work[c][e].pc = "mounted"
  /\ \E r \in Readings :
       work' = [work EXCEPT ![c][e].pc = "read", ![c][e].reading = r]
  /\ UNCHANGED <<phase, case, volume, printed>>

\* mutant: the artifact is opened to write, not to create
WriteOver(c, e) ==
  /\ work[c][e].pc = "read"
  /\ Become(c, e, "wrote")
  /\ UNCHANGED <<phase, case, volume, printed>>

\* write_raw_cloud_result creates a file that its mount must not have.
Write(c, e) ==
  /\ work[c][e].pc = "read"
  /\ IF work[c][e].sees THEN Leave(c, e, "raised") ELSE Become(c, e, "wrote")
  /\ UNCHANGED <<phase, case, volume, printed>>

\* The container's files go to the Volume, over others of the same name.
Pushed(c, e) ==
  {x \in volume : x.id # RunId[c] \/ x.engine # e} \cup {Artifact(c, e)}

\* mutant: benchmark_results.commit() is left out
CommitNothing(c, e) ==
  /\ work[c][e].pc = "wrote"
  /\ Become(c, e, "returned")
  /\ UNCHANGED <<phase, case, volume, printed>>

Commit(c, e) ==
  /\ work[c][e].pc = "wrote"
  /\ volume' = Pushed(c, e)
  /\ Become(c, e, "returned")
  /\ UNCHANGED <<phase, case, printed>>

\* The container is preempted, and its input begins again in another: Modal
\* does so whatever `retries` says, and may have committed the files before.
Restart(c, e) ==
  /\ work[c][e].pc \in {"mounted", "read", "wrote"}
  /\ Leave(c, e, "called")
  /\ \/ UNCHANGED volume
     \/ work[c][e].pc = "wrote" /\ volume' = Pushed(c, e)
  /\ UNCHANGED <<phase, case, printed>>

\* An exception, a timeout, or an answer that is lost; a container that is
\* stopped may still have had its files committed.
Raise(c, e) ==
  /\ work[c][e].pc \in {"called", "mounted", "read", "wrote", "returned"}
  /\ phase[c] \in {"waiting", "failed"}
  /\ Leave(c, e, "raised")
  /\ \/ UNCHANGED volume
     \/ work[c][e].pc = "wrote" /\ volume' = Pushed(c, e)
  /\ UNCHANGED <<phase, case, printed>>

----------------------------------------------------------------------------
(* main again.                                                             *)

\* `complete` of a summary counts characters: punctuation will do.
Complete(reading) == \A p \in Pages : ~reading[p].empty

\* The counts of a summary: sums over the pages.
Summary(reading) ==
  [expected |-> SumFunction(
     [p \in Pages |-> Score(Expected[p], reading[p].tokens).expected]),
   found |-> SumFunction(
     [p \in Pages |-> Score(Expected[p], reading[p].tokens).found]),
   identifiers |-> SumFunction(
     [p \in Pages |-> Cardinality(ExtractIdentifiers(reading[p].tokens, Listed))]),
   pages |-> Cardinality({p \in Pages : ~reading[p].empty})]

\* Every engine answered.
Report(c) ==
  /\ phase[c] = "waiting"
  /\ \A e \in Engines(c) : work[c][e].pc = "returned"
  /\ printed' = [printed EXCEPT ![c] =
                   [e \in Engines(c) |-> Summary(work[c][e].reading)]]
  /\ phase' = [phase EXCEPT ![c] =
                 IF \A e \in Engines(c) : Complete(work[c][e].reading)
                 THEN "succeeded" ELSE "incomplete"]
  /\ UNCHANGED <<case, work, volume>>

\* The exception of the remote call, or that of the spawned one, for which
\* main waits only when the other has returned.
Abort(c) ==
  /\ phase[c] = "waiting"
  /\ \/ \E e \in Engines(c) \ {"docling"} : work[c][e].pc = "raised"
     \/ /\ Tool[c] = "ocr"
        /\ work[c]["unlimited"].pc = "returned" /\ work[c]["docling"].pc = "raised"
  /\ phase' = [phase EXCEPT ![c] = "failed"]
  /\ UNCHANGED <<case, work, volume, printed>>

----------------------------------------------------------------------------
Init ==
  /\ phase = [c \in Calls |-> "new"]
  /\ case = [c \in Calls |-> <<>>]
  /\ work = [c \in Calls |-> [e \in Engines(c) |-> Idle]]
  /\ volume = {}
  /\ printed = [c \in Calls |-> <<>>]

Over(c) == phase[c] \in {"succeeded", "incomplete", "refused", "failed"}

Terminating == (\A c \in Calls : Over(c)) /\ UNCHANGED vars

Next ==
  \/ \E c \in Calls, k \in Cases : Begin(c, k)
  \/ \E c \in Calls : Report(c) \/ Abort(c)
  \/ \E c \in Calls : \E e \in Engines(c) :
       \/ Mount(c, e) \/ Read(c, e) \/ Write(c, e) \/ Commit(c, e)
       \/ Restart(c, e) \/ Raise(c, e)
  \/ Terminating

Spec == Init /\ [][Next]_vars

----------------------------------------------------------------------------
\* No other call of this tool has the run id.
Alone(c) == \A d \in Calls \ {c} : Tool[d] # Tool[c] \/ RunId[d] # RunId[c]

(* cloud.py, qwen_vision_probe.py, ocr_comparison.py: the counts that are  *)
(* printed can be audited.  Whenever a summary was printed, the Volume has *)
(* the artifact of every engine; under a run id nobody else uses it is the *)
(* reading the counts are of, for good, and success means that it has text *)
(* for every page.                                                         *)
PrintedIsKept ==
  \A c \in Calls :
    phase[c] \in {"succeeded", "incomplete"} =>
      \A e \in Engines(c) :
        \E x \in volume :
          /\ x.id = RunId[c] /\ x.engine = e
          /\ Alone(c) =>
               /\ x.reading = work[c][e].reading
               /\ phase[c] = "succeeded" => \A p \in Pages : ~x.reading[p].empty

(* matching.py: the recall counts what the sheets say.  The printed counts *)
(* are those of the different things expected, and of those that occur in  *)
(* the readings in any spelling, however the list repeats or spells them.  *)
RecallRecounts ==
  \A c \in Calls :
    phase[c] \in {"succeeded", "incomplete"} =>
      \A e \in Engines(c) :
        LET reading == work[c][e].reading
        IN  /\ printed[c][e].expected
                 = SumFunction([p \in Pages |-> Asked(Expected[p])])
            /\ printed[c][e].found
                 = SumFunction([p \in Pages |-> Said(Expected[p], reading[p].tokens)])

(* write_raw_cloud_result, "one non-overwriting raw artifact": a committed *)
(* artifact is only ever lost to a container that was started before it    *)
(* was committed; a run that repeats an id later replaces nothing.         *)
OldArtifactsStay ==
  [][\A x \in volume :
       \/ x \in volume'
       \/ \E c \in Calls : \E e \in Engines(c) :
            /\ RunId[c] = x.id /\ e = x.engine
            /\ work[c][e].pc = "wrote" /\ ~work[c][e].sees]_vars

=============================================================================
