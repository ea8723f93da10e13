------------------------------ MODULE MCUpkeep ------------------------------
(***************************************************************************)
(* What must go on for ever in the background, for TLC: the photo sweeps,  *)
(* the purging of exports, the steps of a retention run and the admission  *)
(* of CPU work.  They share no state, so a behaviour is one of them, named *)
(* by `part`, while the others rest in their first state.                  *)
(***************************************************************************)
EXTENDS Photos, Exports, Retention, Admission

VARIABLE part

upkeepVars == <<part, photoVars, exportVars, retentionVars, admissionVars>>

UpkeepInit ==
  /\ part \in {"photos", "exports", "retention", "admission"}
  /\ PhotosInit /\ ExportsInit /\ RetentionInit /\ AdmissionInit
  /\ healthy => part = "retention"

UpkeepNext ==
  \/ part = "photos" /\ PhotosNext
       /\ UNCHANGED <<part, exportVars, retentionVars, admissionVars>>
  \/ part = "exports" /\ ExportsNext
       /\ UNCHANGED <<part, photoVars, retentionVars, admissionVars>>
  \/ part = "retention" /\ RetentionNext
       /\ UNCHANGED <<part, photoVars, exportVars, admissionVars>>
  \/ part = "admission" /\ AdmissionNext
       /\ UNCHANGED <<part, photoVars, exportVars, retentionVars>>

\* The fairness of each component, of the one that runs.
Runs(p) == part = p

UpkeepFairness ==
  /\ \A p \in Uploads :
       /\ WF_photoVars(Runs("photos") /\ Running(p) /\ UploadStep(p))
       /\ WF_photoVars(Runs("photos") /\ GrowOld(p))
       /\ SF_photoVars(Runs("photos") /\ ReconcileChecks(p))
  /\ \A m \in Mods : WF_photoVars(Runs("photos") /\ modreq[m] # IdleMod /\ ModStep(m))
  /\ WF_photoVars(Runs("photos") /\ SweepLists) /\ WF_photoVars(Runs("photos") /\ SweepEnds)
  /\ SF_photoVars(Runs("photos") /\ SweepProbes)
  /\ \A o \in Objects : SF_photoVars(Runs("photos") /\ SweepDeletes(o))
  /\ SF_photoVars(Runs("photos") /\ ReconcileLists)
  /\ SF_photoVars(Runs("photos") /\ ReconcileDrops)
  /\ WF_photoVars(Runs("photos") /\ ReconcileEnds)
  /\ WF_exportVars(Runs("exports") /\ PurgeExports)
  /\ WF_exportVars(Runs("exports") /\ HourPasses)
  /\ WF_retentionVars(Runs("retention") /\ (StepWorks \/ StepFails \/ FinishRun))
  /\ WF_admissionVars(Runs("admission") /\ FinishOrphan)
  /\ \A c \in Callers :
       /\ WF_admissionVars(Runs("admission") /\ (FinishWork(c) \/ DropWorking(c)))
       /\ WF_admissionVars(Runs("admission") /\ (StartWork(c) \/ DropGranted(c)))

UpkeepSpec == UpkeepInit /\ [][UpkeepNext]_upkeepVars /\ UpkeepFairness

\* Nothing is left lying about for ever: objects of failed uploads are swept,
\* pending photos without their image leave the queue, exports are deleted.
LeftoversGo == OrphansAreSwept /\ BrokenRowsGo /\ ExportsGo

\* Every run of the retention job takes every step that can work, although
\* earlier steps fail, and the runs do not stop coming.
RetentionGoesOn == part = "retention" => EveryStepGetsItsTurn
=============================================================================
