----------------------------- MODULE MC_Intake -----------------------------
(***************************************************************************)
(* The two ways in which audio comes in, in one run: uploads in chunks and *)
(* library imports. They share no state; a behaviour is one of the         *)
(* component that way names, the other stays as it began. In an import     *)
(* everybody chooses all the tracks; a third way is an import without      *)
(* faults, in which requests choose other tracks.                          *)
(***************************************************************************)
EXTENDS ChunkedUpload, ImportQueue

VARIABLE way

OneUser == [j \in Job |-> 1]

All == CHOOSE n \in Selections : \A m \in Selections : m <= n

IntakeInit == way \in {"upload", "import", "reimport"} /\ Init /\ ImportInit

IntakeNext ==
  \/ /\ way = "upload"
     /\ Next /\ UNCHANGED <<way, importVars>>
  \/ /\ way = "import"
     /\ ImportNext /\ UNCHANGED <<way, vars>>
     /\ \A j \in Job : job'[j].selected \in {0, All}
  \/ /\ way = "reimport"
     /\ ImportNext /\ UNCHANGED <<way, vars>>
     /\ budget'.faults = budget.faults

\* The fairness of a component that has not begun asks nothing; of an import with
\* other tracks, which need not end, only the safety is checked.
IntakeSpec == /\ IntakeInit /\ [][IntakeNext]_<<way, vars, importVars>>
              /\ Fairness /\ ImportFairness

----------------------------------------------------------------------------

\* The upload or the import that is under way.
Begun == \/ way = "upload" /\ \E u \in Upload : row[u].status = "active"
         \/ way = "import" /\ \E j \in Job : job[j].status \in {"queued", "importing"}

\* With one of each, SessionsEnd and EveryImportEnds.
IntakeEnds == Begun ~> ~Begun
=============================================================================
