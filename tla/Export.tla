------------------------------- MODULE Export -------------------------------
(***************************************************************************)
(* The controller of ArgoCDExport resources, src/controllers/argocdexport: *)
(* a volume claim, a Secret with the key that backups are encrypted with,  *)
(* and a Job, or a CronJob if there is a schedule. It reads through        *)
(* CachedClient, so what it knows may be old.                              *)
(***************************************************************************)
EXTENDS CachedClient

CONSTANTS
  Schedules,    \* schedules that a resource may have; None is none
  FirstSchedules, \* those that it may have when it is created
  GeneratedKeys,  \* keys that the controller may come up with
  MaxEdits,     \* bound: edits of the resource
  MaxMishaps    \* bound: failing calls, restarts, and what others do

ASSUME ExportAssumption ==
  /\ None \in Schedules /\ FirstSchedules \subseteq Schedules
  /\ GeneratedKeys # {} /\ {Nil, NoKey, "user"} \cap GeneratedKeys = {}
  /\ MaxEdits \in Nat /\ MaxMishaps \in Nat

VARIABLES
  queued,    \* the resource is in the work queue
  pass,      \* the step that the pass is at, the resource and the Secret as
             \* it has read them
  sole,      \* the namespace has exactly one ArgoCD resource
  exported,  \* a Job has succeeded
  edits, mishaps

vars == <<history, queued, pass, sole, exported, edits, mishaps>>

Objects == {"cr", "secret", "pvc", "job", "cron"}
Owned == {"pvc", "job", "cron"}
Keys == {"user"} \cup GeneratedKeys

Resources ==
  [storage : {"unset", "local", "other"}, named : BOOLEAN, schedule : Schedules,
   phase : {"", "Pending", "Completed"}]
Secrets == [data : {Nil, NoKey} \cup Keys, tracked : BOOLEAN, owned : BOOLEAN]
Manifests == [schedule : Schedules, claim : BOOLEAN, succeeded : BOOLEAN]

ASSUME NoneAssumption == None \notin Resources \cup Secrets \cup Manifests

VersionsOf(o) ==
  {None} \cup (IF o = "cr" THEN Resources
               ELSE IF o = "secret" THEN Secrets ELSE Manifests)

Steps == {"idle", "validate", "storage", "secret", "label", "create", "key", "job"}
Idle == [at |-> "idle", cr |-> None, secret |-> None]

HistoryOK ==
  /\ history \in [Objects -> Seq({None} \cup Resources \cup Secrets \cup Manifests)]
  /\ \A o \in Objects : history[o] # <<>>
  /\ \A o \in Objects : \A i \in DOMAIN history[o] : history[o][i] \in VersionsOf(o)

TypeOK ==
  /\ HistoryOK
  /\ queued \in BOOLEAN
  /\ pass \in [at : Steps, cr : Resources \cup {None}, secret : Secrets \cup {None}]
  /\ pass.at # "idle" => pass.cr \in Resources
  /\ pass.at \in {"label", "key"} => pass.secret \in Secrets
  /\ pass.at = "storage" => pass.cr.phase # ""
  /\ pass.at \notin {"idle", "validate", "storage"} => pass.cr.storage # "unset"
  /\ sole \in BOOLEAN /\ exported \in BOOLEAN
  /\ edits \in 0..MaxEdits /\ mishaps \in 0..MaxMishaps

(* The user may have made the Secret that the resource names. *)
UserSecrets == [data : {Nil, NoKey, "user"}, tracked : {FALSE}, owned : {FALSE}]

Init ==
  /\ \E cr \in Resources, secret \in UserSecrets \cup {None} :
       /\ cr.phase = "" /\ cr.schedule \in FirstSchedules
       /\ cr.named => cr.storage # "unset"
       /\ secret # None => cr.named
       /\ history = [o \in Objects |->
                       CASE o = "cr" -> <<cr>> [] o = "secret" -> <<secret>>
                         [] OTHER -> <<None>>]
  /\ queued = TRUE /\ pass = Idle
  /\ sole = TRUE /\ exported = FALSE
  /\ edits = 0 /\ mishaps = 0

others == <<sole, exported, edits, mishaps>>
-----------------------------------------------------------------------------
(* A step succeeds, or an error ends the pass, which is then tried again. *)
GoOn(step) == pass' = [pass EXCEPT !.at = step] /\ UNCHANGED queued
End == pass' = Idle /\ UNCHANGED queued
Fail == pass' = Idle /\ queued' = TRUE

(* The resource is written, if it is still what the pass has read. *)
UpdateCR(cr, step) ==
  IF MayUpdate("cr", pass.cr)
  THEN /\ Written("cr", cr)
       /\ pass' = [pass EXCEPT !.at = step, !.cr = cr]
       /\ UNCHANGED queued
  ELSE Fail /\ UNCHANGED history

Creating(o, v, step) ==
  IF MayCreate(o)
  THEN Written(o, v) /\ (IF step = "idle" THEN End ELSE GoOn(step))
  ELSE Fail /\ UNCHANGED history

Reconcile ==
  /\ pass.at = "idle" /\ queued
  /\ queued' = FALSE
  /\ IF Get("cr") = None THEN UNCHANGED pass
     ELSE pass' = [at |-> "validate", cr |-> Get("cr"), secret |-> None]
  /\ UNCHANGED <<history, others>>

validateExport ==
  /\ pass.at = "validate"
  /\ IF pass.cr.phase = ""
     THEN UpdateCR([pass.cr EXCEPT !.phase = "Pending"], "storage")
     ELSE GoOn("storage") /\ UNCHANGED history
  /\ UNCHANGED others

Claim == [schedule |-> None, claim |-> TRUE, succeeded |-> FALSE]

(* Bug variant: no claim is created once there is a Job. *)
reconcilePVCBeforeJob ==
  IF Get("job") # None \/ Get("pvc") # None
  THEN GoOn("secret") /\ UNCHANGED history
  ELSE Creating("pvc", Claim, "secret")

(* A completed export needs no claim. *)
reconcilePVC ==
  IF pass.cr.phase = "Completed" \/ Get("pvc") # None
  THEN GoOn("secret") /\ UNCHANGED history
  ELSE Creating("pvc", Claim, "secret")

(* Bug variant: nothing is done for a resource that says nothing of storage. *)
reconcileStorageIfSet ==
  /\ pass.at = "storage"
  /\ IF pass.cr.storage = "local" THEN reconcilePVC
     ELSE GoOn("secret") /\ UNCHANGED history
  /\ UNCHANGED others

(* A resource that says nothing of storage is changed to local storage; a  *)
(* storage that names no backend is not local.                             *)
reconcileStorage ==
  /\ pass.at = "storage"
  /\ CASE pass.cr.storage = "unset" ->
            UpdateCR([pass.cr EXCEPT !.storage = "local"], "secret")
       [] pass.cr.storage = "local" -> reconcilePVC
       [] OTHER -> GoOn("secret") /\ UNCHANGED history
  /\ UNCHANGED others
-----------------------------------------------------------------------------
(* The Secret is looked up, in the cache or else in the API server. *)
FindSecret ==
  /\ pass.at = "secret"
  /\ LET secret == Get("secret")
         step == IF secret = None THEN "create"
                 ELSE IF ReadsLive(Cached("secret")) /\ NeedsLabel(secret) THEN "label"
                 ELSE "key"
     IN pass' = [pass EXCEPT !.at = step, !.secret = secret]
  /\ UNCHANGED <<history, queued, others>>

(* Adding the label fails if the Secret is gone; that is only logged. *)
LabelSecret ==
  /\ pass.at = "label"
  /\ IF Live("secret") = None
     THEN GoOn("key") /\ UNCHANGED history
     ELSE /\ Written("secret", ensureTrackedLabel(Live("secret")))
          /\ pass' = [pass EXCEPT !.at = "key",
                                  !.secret = ensureTrackedLabel(Live("secret"))]
          /\ UNCHANGED queued
  /\ UNCHANGED others

(* A random key, another one with every call. *)
generateBackupKey == GeneratedKeys

CreateSecret ==
  /\ pass.at = "create"
  /\ \E key \in generateBackupKey :
       Creating("secret", [data |-> key, tracked |-> TRUE, owned |-> TRUE], "job")
  /\ UNCHANGED others

(* Bug variant: the key is written whatever has become of the Secret. *)
reconcileExportSecretByPatch ==
  /\ pass.at = "key"
  /\ IF pass.secret.data \in {Nil, NoKey} /\ Live("secret") # None
     THEN /\ \E key \in generateBackupKey :
               Written("secret", [Live("secret") EXCEPT !.data = key])
          /\ GoOn("job")
     ELSE GoOn("job") /\ UNCHANGED history
  /\ UNCHANGED others

(* A Secret without a key is given one, and with it the label, should      *)
(* adding that alone have failed. Writing to a Secret without any data     *)
(* panics, which ends the pass as an error does.                           *)
reconcileExportSecret ==
  /\ pass.at = "key"
  /\ CASE pass.secret.data = Nil -> Fail /\ UNCHANGED history
       [] pass.secret.data = NoKey ->
            IF MayUpdate("secret", pass.secret)
            THEN /\ \E key \in generateBackupKey :
                      Written("secret", [ensureTrackedLabel(pass.secret) EXCEPT
                                           !.data = key])
                 /\ GoOn("job")
            ELSE Fail /\ UNCHANGED history
       [] OTHER -> GoOn("job") /\ UNCHANGED history
  /\ UNCHANGED others
-----------------------------------------------------------------------------
NewJob(cr) ==
  [schedule |-> cr.schedule, claim |-> cr.storage = "local", succeeded |-> FALSE]

(* The Job runs with the service account of the one ArgoCD resource. *)
argocdName == sole

CreateJob(o) ==
  IF ~argocdName THEN Fail /\ UNCHANGED history
  ELSE Creating(o, NewJob(pass.cr), "idle")

(* Of a CronJob that exists, the schedule is kept up to date. *)
reconcileCronJob ==
  IF Get("cron") = None THEN CreateJob("cron")
  ELSE IF Get("cron").schedule = pass.cr.schedule THEN End /\ UNCHANGED history
  ELSE IF MayUpdate("cron", Get("cron"))
       THEN /\ Written("cron", [Get("cron") EXCEPT !.schedule = pass.cr.schedule])
            /\ End
       ELSE Fail /\ UNCHANGED history

(* Bug variant: a Job that exists is taken for one that has succeeded. *)
reconcileJobBeforeItEnds ==
  IF Get("job") = None THEN CreateJob("job")
  ELSE IF pass.cr.phase # "Completed"
       THEN UpdateCR([pass.cr EXCEPT !.phase = "Completed"], "idle")
  ELSE End /\ UNCHANGED history

reconcileJob ==
  IF Get("job") = None THEN CreateJob("job")
  ELSE IF Get("job").succeeded /\ pass.cr.phase # "Completed"
       THEN IF MayUpdate("cr", pass.cr)
            THEN Written("cr", [pass.cr EXCEPT !.phase = "Completed"]) /\ End
            ELSE Fail /\ UNCHANGED history
  ELSE End /\ UNCHANGED history

reconcileExport ==
  /\ pass.at = "job"
  /\ IF pass.cr.schedule # None THEN reconcileCronJob ELSE reconcileJob
  /\ UNCHANGED others

Worker ==
  \/ Reconcile \/ validateExport \/ reconcileStorage \/ FindSecret \/ LabelSecret
  \/ CreateSecret \/ reconcileExportSecret \/ reconcileExport
-----------------------------------------------------------------------------
(* An informer delivers a version. Changes of the resource, and of what it *)
(* owns, put the resource into the queue.                                  *)
setResourceWatches(o, versions) ==
  \/ o # "secret"
  \/ \E i \in {1, 2} : versions[i] # None /\ versions[i].owned

Deliver(o) ==
  /\ Lags(o) /\ Advance(o)
  /\ queued' = (queued \/ setResourceWatches(o, history[o]))
  /\ UNCHANGED <<pass, others>>

(* The pod of the Job starts when its volumes are there, and ends well. *)
JobSucceeds ==
  /\ Live("job") # None /\ ~Live("job").succeeded
  /\ Live("secret") # None
  /\ Live("job").claim => Live("pvc") # None
  /\ Written("job", [Live("job") EXCEPT !.succeeded = TRUE])
  /\ exported' = TRUE
  /\ UNCHANGED <<queued, pass, sole, edits, mishaps>>

(* The garbage collector is slower than the informer: otherwise a pass     *)
(* that does not know of the deletion could create objects again and again.*)
CollectGarbage ==
  /\ history["cr"] = <<None>>
  /\ \E o \in Owned \cup {"secret"} :
       /\ Live(o) # None
       /\ o = "secret" => Live(o).owned
       /\ Written(o, None)
  /\ UNCHANGED <<queued, pass, others>>
-----------------------------------------------------------------------------
EditCR ==
  /\ edits < MaxEdits /\ edits' = edits + 1
  /\ Live("cr") # None
  /\ \E s \in Schedules \ {Live("cr").schedule} :
       Written("cr", [Live("cr") EXCEPT !.schedule = s])
  /\ UNCHANGED <<queued, pass, sole, exported, mishaps>>

Mishap == mishaps < MaxMishaps /\ mishaps' = mishaps + 1 /\ UNCHANGED <<exported, edits>>

DeleteObject(o) ==
  /\ Mishap /\ Live(o) # None
  /\ Written(o, None)
  /\ UNCHANGED <<queued, pass, sole>>

(* The user writes the Secret: its data, or all of it, without the label. *)
WriteSecret ==
  /\ Mishap /\ Live("cr") # None /\ Live("cr").named
  /\ \E data \in {Nil, NoKey, "user"} :
       \/ Live("secret") = None
            /\ Written("secret", [data |-> data, tracked |-> FALSE, owned |-> FALSE])
       \/ Live("secret") # None
            /\ \E tracked \in {FALSE, Live("secret").tracked} :
                 Written("secret", [Live("secret") EXCEPT !.data = data,
                                                          !.tracked = tracked])
  /\ UNCHANGED <<queued, pass, sole>>

InstancesChange ==
  /\ Mishap /\ sole' = ~sole
  /\ UNCHANGED <<history, queued, pass>>

(* A call fails. The failure to add a label is only logged. A claim may be *)
(* created, and the event that tells of it not.                            *)
CallFails ==
  /\ Mishap /\ pass.at # "idle"
  /\ \/ pass.at = "label" /\ GoOn("key") /\ UNCHANGED history
     \/ Fail /\ UNCHANGED history
     \/ /\ pass.at = "storage" /\ pass.cr.storage = "local"
        /\ pass.cr.phase # "Completed" /\ Get("pvc") = None /\ MayCreate("pvc")
        /\ Written("pvc", Claim) /\ Fail
  /\ UNCHANGED sole

Restart ==
  /\ Mishap
  /\ Relist /\ pass' = Idle /\ queued' = TRUE
  /\ UNCHANGED sole

Environment ==
  \/ EditCR \/ WriteSecret \/ InstancesChange \/ CallFails \/ Restart
  \/ \E o \in Objects : DeleteObject(o)

Next ==
  \/ Worker \/ JobSucceeds \/ CollectGarbage \/ Environment
  \/ \E o \in Objects : Deliver(o)

Spec == Init /\ [][Next]_vars

(* The worker and the informers do not stop, nor do pods and the garbage   *)
(* collector.                                                              *)
Fairness ==
  /\ WF_vars(Worker) /\ WF_vars(JobSucceeds) /\ WF_vars(CollectGarbage)
  /\ \A o \in Objects : WF_vars(Deliver(o))

FairSpec == Spec /\ Fairness
-----------------------------------------------------------------------------
KeyOf(secret) == IF secret = None THEN Nil ELSE secret.data

(* The controller never replaces a key with which backups may have been    *)
(* encrypted, however old or stripped what it has read of the Secret is    *)
(* (reconcileExportSecret, ClientWrapper.Get).                             *)
BackupKeyKept ==
  [][Worker /\ KeyOf(Live("secret")) \in Keys
       => KeyOf(Live("secret")') = KeyOf(Live("secret"))]_vars

(* An export is said to be complete only if a Job has succeeded, and is    *)
(* not taken back by a pass that has read the resource before              *)
(* (validateExport, reconcileJob).                                         *)
CompletedIsExported ==
  \A i \in DOMAIN history["cr"] :
    LET cr == history["cr"][i]
    IN cr # None /\ cr.phase = "Completed" =>
         /\ exported
         /\ \A j \in i..Len(history["cr"]) :
              history["cr"][j] # None => history["cr"][j].phase = "Completed"

(* A resource that asks for one export, in a namespace with one ArgoCD     *)
(* resource, gets it in the end, whatever has been lost, edited or refused *)
(* before: every missing object is created again, and the result seen.     *)
(* A Secret of the user's that is empty is not written to, and the absence *)
(* of one goes unnoticed.                                                  *)
Possible ==
  /\ Live("cr") # None /\ Live("cr").schedule = None /\ sole
  /\ Live("cr").named => KeyOf(Live("secret")) # Nil

ExportCompletes == <>[]Possible => <>[](Live("cr") # None /\ Live("cr").phase = "Completed")
=============================================================================
