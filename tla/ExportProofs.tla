---------------------------- MODULE ExportProofs ----------------------------
(***************************************************************************)
(* Proofs about Export, for all schedules and bounds.                      *)
(***************************************************************************)
EXTENDS Export, TLAPS

(* Versions of an object, one by one. *)
LEMMA VersionKinds ==
  /\ VersionsOf("cr") = {None} \cup Resources
  /\ VersionsOf("secret") = {None} \cup Secrets
  /\ \A o \in Owned : VersionsOf(o) = {None} \cup Manifests
  BY DEF VersionsOf, Owned

LEMMA ReadFacts ==
  ASSUME HistoryOK, NEW o \in Objects
  PROVE  /\ Len(history[o]) \in Nat /\ Len(history[o]) >= 1
         /\ DOMAIN history[o] = 1..Len(history[o])
         /\ Live(o) \in VersionsOf(o) /\ Head(history[o]) \in VersionsOf(o)
         /\ Head(history[o]) = history[o][1]
  BY DEF HistoryOK, Live

(* A write adds a version to one object. *)
LEMMA WriteFacts ==
  ASSUME HistoryOK, NEW o \in Objects, NEW v \in VersionsOf(o), Written(o, v)
  PROVE  /\ HistoryOK'
         /\ Live(o)' = v
         /\ \A q \in Objects \ {o} : history'[q] = history[q]
         /\ history'[o] = Append(history[o], v)
<1> DEFINE all == {None} \cup Resources \cup Secrets \cup Manifests
<1>1. v \in all
  BY DEF VersionsOf
<1>2. history' = [history EXCEPT ![o] = Append(@, v)] /\ history \in [Objects -> Seq(all)]
  BY DEF Written, HistoryOK
<1> HIDE DEF all
<1>3. history' \in [Objects -> Seq(all)]
  BY <1>1, <1>2
<1>4. /\ history'[o] = Append(history[o], v)
      /\ \A q \in Objects \ {o} : history'[q] = history[q]
  BY <1>2
<1>5. \A q \in Objects : history'[q] # <<>>
  BY <1>1, <1>2, <1>4 DEF HistoryOK
<1>6. \A q \in Objects : \A i \in DOMAIN history'[q] : history'[q][i] \in VersionsOf(q)
  <2> SUFFICES ASSUME NEW q \in Objects, NEW i \in DOMAIN history'[q]
               PROVE  history'[q][i] \in VersionsOf(q)
    OBVIOUS
  <2>1. CASE q = o
    BY <1>1, <1>2, <1>4, <2>1 DEF HistoryOK
  <2>2. CASE q # o
    BY <1>4, <2>2 DEF HistoryOK
  <2> QED BY <2>1, <2>2
<1>7. Live(o)' = v
  BY <1>1, <1>2, <1>4 DEF Live
<1> QED BY <1>3, <1>4, <1>5, <1>6, <1>7 DEF HistoryOK, all

LEMMA AdvanceFacts ==
  ASSUME HistoryOK, NEW o \in Objects, Lags(o), Advance(o)
  PROVE  /\ HistoryOK'
         /\ Live(o)' = Live(o)
         /\ \A q \in Objects \ {o} : history'[q] = history[q]
         /\ history'[o] = Tail(history[o]) /\ Len(history[o]) > 1
<1> DEFINE all == {None} \cup Resources \cup Secrets \cup Manifests
<1>2. history' = [history EXCEPT ![o] = Tail(@)] /\ history \in [Objects -> Seq(all)]
  BY DEF Advance, HistoryOK
<1> HIDE DEF all
<1>3. history[o] \in Seq(all) /\ Len(history[o]) > 1
  BY <1>2 DEF Lags
<1>4. /\ history'[o] = Tail(history[o])
      /\ \A q \in Objects \ {o} : history'[q] = history[q]
  BY <1>2
<1>5. /\ Tail(history[o]) \in Seq(all) /\ Len(Tail(history[o])) = Len(history[o]) - 1
      /\ DOMAIN Tail(history[o]) = 1..(Len(history[o]) - 1)
      /\ \A i \in 1..(Len(history[o]) - 1) : Tail(history[o])[i] = history[o][i + 1]
  BY <1>3
<1>6. history' \in [Objects -> Seq(all)]
  BY <1>2, <1>5
<1>7. \A q \in Objects : history'[q] # <<>>
  BY <1>3, <1>4, <1>5 DEF HistoryOK
<1>8. \A q \in Objects : \A i \in DOMAIN history'[q] : history'[q][i] \in VersionsOf(q)
  <2> SUFFICES ASSUME NEW q \in Objects, NEW i \in DOMAIN history'[q]
               PROVE  history'[q][i] \in VersionsOf(q)
    OBVIOUS
  <2>1. CASE q = o
    <3>1. i \in 1..(Len(history[o]) - 1)
      BY <1>4, <1>5, <2>1
    <3> QED BY <1>3, <1>4, <1>5, <2>1, <3>1 DEF HistoryOK
  <2>2. CASE q # o
    BY <1>4, <2>2 DEF HistoryOK
  <2> QED BY <2>1, <2>2
<1>9. Live(o)' = Live(o)
  <2>1. Live(o)' = Tail(history[o])[Len(Tail(history[o]))]
    BY <1>4 DEF Live
  <2>2. Len(history[o]) \in Nat
    BY <1>3
  <2>3. Len(history[o]) - 1 \in 1..(Len(history[o]) - 1)
    BY <1>3, <2>2
  <2>4. Tail(history[o])[Len(history[o]) - 1] = history[o][Len(history[o]) - 1 + 1]
    BY <1>5, <2>3
  <2>5. Len(history[o]) - 1 + 1 = Len(history[o])
    BY <2>2
  <2>6. Live(o)' = history[o][Len(history[o])]
    BY <1>5, <2>1, <2>4, <2>5
  <2> QED BY <2>6 DEF Live
<1> QED BY <1>3, <1>4, <1>6, <1>7, <1>8, <1>9 DEF HistoryOK, all

LEMMA RelistFacts ==
  ASSUME HistoryOK, Relist
  PROVE  /\ HistoryOK'
         /\ \A o \in Objects : history'[o] = <<Live(o)>>
<1>1. \A o \in Objects : Live(o) \in VersionsOf(o)
  BY ReadFacts
<1>2. /\ DOMAIN history = Objects
      /\ history' = [o \in Objects |-> <<Live(o)>>]
  BY DEF HistoryOK, Relist
<1>3. \A o \in Objects : Live(o) \in {None} \cup Resources \cup Secrets \cup Manifests
  BY <1>1 DEF VersionsOf
<1> QED BY <1>1, <1>2, <1>3 DEF HistoryOK
-----------------------------------------------------------------------------
(* What the steps write.                                                   *)

(* What the pass may have read. *)
LEMMA GetFacts ==
  ASSUME HistoryOK
  PROVE  /\ Get("cr") \in {None} \cup Resources
         /\ Get("secret") \in {None} \cup Secrets
         /\ \A o \in Owned : Get(o) = Head(history[o]) /\ Get(o) \in {None} \cup Manifests
<1>1. /\ Head(history["cr"]) \in {None} \cup Resources
      /\ Head(history["secret"]) \in {None} \cup Secrets
      /\ Live("secret") \in {None} \cup Secrets
      /\ \A o \in Owned : Head(history[o]) \in {None} \cup Manifests
  BY ReadFacts, VersionKinds DEF Objects, Owned
<1>2. \A secret \in Secrets : [secret EXCEPT !.data = Nil] \in Secrets
  BY DEF Secrets
<1>3. Cached("secret") \in {None} \cup Secrets
  BY <1>1, <1>2 DEF Cached, StripDataFromSecretOrConfigMapTransform
<1> QED BY <1>1, <1>3 DEF Get, Cached, Owned

(* The versions that the steps write are of the right kind. *)
LEMMA ResourceFields ==
  ASSUME NEW cr \in Resources
  PROVE  /\ \A phase \in {"", "Pending", "Completed"} :
              /\ [cr EXCEPT !.phase = phase] \in Resources
              /\ [cr EXCEPT !.phase = phase].phase = phase
              /\ [cr EXCEPT !.phase = phase].storage = cr.storage
         /\ [cr EXCEPT !.storage = "local"] \in Resources
         /\ [cr EXCEPT !.storage = "local"].storage = "local"
         /\ [cr EXCEPT !.storage = "local"].phase = cr.phase
         /\ \A s \in Schedules : /\ [cr EXCEPT !.schedule = s] \in Resources
                                 /\ [cr EXCEPT !.schedule = s].phase = cr.phase
         /\ NewJob(cr) \in Manifests /\ ~NewJob(cr).succeeded
         /\ cr.schedule \in Schedules
  BY DEF Resources, Manifests, NewJob

LEMMA ManifestFields ==
  /\ Claim \in Manifests /\ ~Claim.succeeded
  /\ \A m \in Manifests :
       /\ [m EXCEPT !.succeeded = TRUE] \in Manifests
       /\ \A s \in Schedules : /\ [m EXCEPT !.schedule = s] \in Manifests
                               /\ [m EXCEPT !.schedule = s].succeeded = m.succeeded
  BY ExportAssumption DEF Claim, Manifests

LEMMA SecretFields ==
  /\ \A key \in generateBackupKey :
       /\ key \in Keys
       /\ [data |-> key, tracked |-> TRUE, owned |-> TRUE] \in Secrets
  /\ \A secret \in Secrets :
       /\ ensureTrackedLabel(secret) \in Secrets
       /\ ensureTrackedLabel(secret).data = secret.data
       /\ secret.tracked \in BOOLEAN
       /\ \A data \in {Nil, NoKey} \cup Keys :
            /\ [secret EXCEPT !.data = data] \in Secrets
            /\ \A tracked \in BOOLEAN :
                 [secret EXCEPT !.data = data, !.tracked = tracked] \in Secrets
  /\ \A data \in {Nil, NoKey} \cup Keys :
       [data |-> data, tracked |-> FALSE, owned |-> FALSE] \in Secrets
  BY DEF Secrets, ensureTrackedLabel, generateBackupKey, Keys

(* Which object a step of the pass writes, if any, and what. *)
CRWrites(v) ==
  /\ MayUpdate("cr", pass.cr) /\ pass.cr \in Resources /\ v \in Resources
  /\ \/ v.phase = pass.cr.phase
     \/ pass.cr.phase = "" /\ v.phase = "Pending"
     \/ Get("job") # None /\ Get("job").succeeded /\ v.phase = "Completed"

SecretWrites(v) ==
  /\ v \in Secrets
  /\ \/ MayCreate("secret")
     \/ Live("secret") # None /\ v = ensureTrackedLabel(Live("secret"))
     \/ MayUpdate("secret", pass.secret) /\ pass.secret.data = NoKey

JobWrites(o, v) ==
  /\ v \in Manifests
  /\ o # "cron" => ~v.succeeded

WorkerWrites ==
  \/ UNCHANGED history
  \/ \E v \in Resources : Written("cr", v) /\ CRWrites(v)
  \/ \E v \in Secrets : Written("secret", v) /\ SecretWrites(v)
  \/ \E o \in Owned, v \in Manifests : Written(o, v) /\ JobWrites(o, v)

LEMMA WorkerStep ==
  ASSUME TypeOK, Worker
  PROVE  WorkerWrites /\ exported' = exported
<1> USE DEF TypeOK
<1>1. CASE Reconcile
  BY <1>1 DEF Reconcile, WorkerWrites, others
<1>2. CASE validateExport
  <2> DEFINE v == [pass.cr EXCEPT !.phase = "Pending"]
  <2>1. pass.cr \in Resources
    BY <1>2 DEF validateExport
  <2>2. v \in Resources /\ v.phase = "Pending"
    BY <2>1, ResourceFields
  <2> HIDE DEF v
  <2>3. UNCHANGED history \/ (Written("cr", v) /\ MayUpdate("cr", pass.cr) /\ pass.cr.phase = "")
    BY <1>2 DEF validateExport, UpdateCR, v
  <2> QED BY <1>2, <2>1, <2>2, <2>3 DEF validateExport, others, WorkerWrites, CRWrites
<1>3. CASE reconcileStorage
  <2> DEFINE v == [pass.cr EXCEPT !.storage = "local"]
  <2>1. pass.cr \in Resources
    BY <1>3 DEF reconcileStorage
  <2>2. v \in Resources /\ v.phase = pass.cr.phase
    BY <2>1, ResourceFields
  <2> HIDE DEF v
  <2>3. CASE pass.cr.storage = "unset"
    <3>1. UpdateCR(v, "secret")
      BY <1>3, <2>3 DEF reconcileStorage, v
    <3>2. UNCHANGED history \/ (Written("cr", v) /\ MayUpdate("cr", pass.cr))
      BY <3>1 DEF UpdateCR
    <3> QED BY <1>3, <2>1, <2>2, <3>2 DEF reconcileStorage, others, WorkerWrites, CRWrites
  <2>4. CASE pass.cr.storage = "local"
    <3>1. reconcilePVC
      BY <1>3, <2>4 DEF reconcileStorage
    <3>2. UNCHANGED history \/ Written("pvc", Claim)
      BY <3>1 DEF reconcilePVC, Creating
    <3>3. Claim \in Manifests /\ ~Claim.succeeded
      BY ManifestFields
    <3> QED BY <1>3, <3>2, <3>3
            DEF reconcileStorage, others, WorkerWrites, JobWrites, Owned
  <2>5. CASE pass.cr.storage \notin {"unset", "local"}
    BY <1>3, <2>5 DEF reconcileStorage, others, WorkerWrites
  <2> QED BY <2>3, <2>4, <2>5
<1>4. CASE FindSecret
  BY <1>4 DEF FindSecret, WorkerWrites, others
<1>5. CASE LabelSecret
  <2> DEFINE v == ensureTrackedLabel(Live("secret"))
  <2>1. UNCHANGED history \/ (Live("secret") # None /\ Written("secret", v))
    BY <1>5 DEF LabelSecret
  <2>2. Live("secret") # None => v \in Secrets
    BY ReadFacts, VersionKinds, SecretFields DEF Objects
  <2> QED BY <1>5, <2>1, <2>2 DEF LabelSecret, others, WorkerWrites, SecretWrites
<1>6. CASE CreateSecret
  <2> DEFINE v(key) == [data |-> key, tracked |-> TRUE, owned |-> TRUE]
  <2>1. \A key \in generateBackupKey : v(key) \in Secrets
    BY SecretFields
  <2> HIDE DEF v
  <2>2. \/ UNCHANGED history
        \/ \E key \in generateBackupKey : MayCreate("secret") /\ Written("secret", v(key))
    BY <1>6 DEF CreateSecret, Creating, v
  <2> QED BY <1>6, <2>1, <2>2 DEF CreateSecret, others, WorkerWrites, SecretWrites
<1>7. CASE reconcileExportSecret
  <2> DEFINE v(key) == [ensureTrackedLabel(pass.secret) EXCEPT !.data = key]
  <2>1. pass.secret \in Secrets
    BY <1>7 DEF reconcileExportSecret
  <2>2. \A key \in generateBackupKey : v(key) \in Secrets
    BY <2>1, SecretFields
  <2> HIDE DEF v
  <2>3. CASE pass.secret.data = NoKey
    <3>1. \/ UNCHANGED history
          \/ /\ \E key \in generateBackupKey : Written("secret", v(key))
             /\ MayUpdate("secret", pass.secret)
      BY <1>7, <2>3 DEF reconcileExportSecret, v, Nil, NoKey
    <3> QED BY <1>7, <2>2, <2>3, <3>1
            DEF reconcileExportSecret, others, WorkerWrites, SecretWrites
  <2>4. CASE pass.secret.data # NoKey
    BY <1>7, <2>4 DEF reconcileExportSecret, others, WorkerWrites
  <2> QED BY <2>3, <2>4
<1>8. CASE reconcileExport
  <2>1. pass.cr \in Resources
    BY <1>8 DEF reconcileExport
  <2>2. CASE pass.cr.schedule # None
    <3>1. reconcileCronJob
      BY <1>8, <2>2 DEF reconcileExport
    <3> DEFINE v == [Get("cron") EXCEPT !.schedule = pass.cr.schedule]
    <3>2. NewJob(pass.cr) \in Manifests
      BY <2>1, ResourceFields
    <3>3. Get("cron") # None => v \in Manifests
      BY <2>1, GetFacts, ResourceFields, ManifestFields DEF Owned
    <3> HIDE DEF v
    <3>4. \/ UNCHANGED history
          \/ Written("cron", NewJob(pass.cr))
          \/ Get("cron") # None /\ Written("cron", v)
      BY <3>1 DEF reconcileCronJob, CreateJob, Creating, v
    <3> QED BY <1>8, <3>2, <3>3, <3>4
            DEF reconcileExport, others, WorkerWrites, JobWrites, Owned
  <2>3. CASE pass.cr.schedule = None
    <3>1. reconcileJob
      BY <1>8, <2>3 DEF reconcileExport
    <3> DEFINE v == [pass.cr EXCEPT !.phase = "Completed"]
    <3>2. NewJob(pass.cr) \in Manifests /\ ~NewJob(pass.cr).succeeded
      BY <2>1, ResourceFields
    <3>3. v \in Resources /\ v.phase = "Completed"
      BY <2>1, ResourceFields
    <3> HIDE DEF v
    <3>4. \/ UNCHANGED history
          \/ Written("job", NewJob(pass.cr))
          \/ /\ Get("job") # None /\ Get("job").succeeded
             /\ MayUpdate("cr", pass.cr) /\ Written("cr", v)
      BY <3>1 DEF reconcileJob, CreateJob, Creating, v
    <3> QED BY <1>8, <2>1, <3>2, <3>3, <3>4
            DEF reconcileExport, others, WorkerWrites, JobWrites, CRWrites, Owned
  <2> QED BY <2>2, <2>3
<1> QED
  BY <1>1, <1>2, <1>3, <1>4, <1>5, <1>6, <1>7, <1>8 DEF Worker

(* What the others write. *)
OtherWrites ==
  \/ UNCHANGED history
  \/ \E o \in Objects : Lags(o) /\ Advance(o)
  \/ Relist
  \/ \E o \in Objects : Written(o, None)
  \/ \E v \in Resources : /\ Written("cr", v)
                          /\ Live("cr") # None /\ v.phase = Live("cr").phase
  \/ \E v \in Secrets : Written("secret", v)
  \/ \E v \in Manifests : Written("job", v) /\ exported'
  \/ Written("pvc", Claim)

Others ==
  \/ JobSucceeds \/ CollectGarbage \/ Environment
  \/ \E o \in Objects : Deliver(o)

LEMMA OtherStep ==
  ASSUME TypeOK, Others
  PROVE  OtherWrites /\ (exported => exported')
<1> USE DEF TypeOK
<1>1. CASE JobSucceeds
  <2> DEFINE v == [Live("job") EXCEPT !.succeeded = TRUE]
  <2>1. v \in Manifests
    BY <1>1, ReadFacts, VersionKinds, ManifestFields DEF JobSucceeds, Objects, Owned
  <2> QED BY <1>1, <2>1 DEF JobSucceeds, OtherWrites
<1>2. CASE CollectGarbage
  BY <1>2 DEF CollectGarbage, OtherWrites, others, Owned, Objects
<1>3. CASE EditCR
  <2>1. PICK s \in Schedules : Written("cr", [Live("cr") EXCEPT !.schedule = s])
    BY <1>3 DEF EditCR
  <2> DEFINE v == [Live("cr") EXCEPT !.schedule = s]
  <2>2. Live("cr") \in Resources
    BY <1>3, ReadFacts, VersionKinds DEF EditCR, Objects
  <2>3. v \in Resources /\ v.phase = Live("cr").phase
    BY <2>2, ResourceFields
  <2> QED BY <1>3, <2>1, <2>3 DEF EditCR, OtherWrites
<1>4. CASE WriteSecret
  <2>1. PICK data \in {Nil, NoKey, "user"} :
          \/ Written("secret", [data |-> data, tracked |-> FALSE, owned |-> FALSE])
          \/ /\ Live("secret") # None
             /\ \E tracked \in {FALSE, Live("secret").tracked} :
                  Written("secret", [Live("secret") EXCEPT !.data = data,
                                                           !.tracked = tracked])
    BY <1>4 DEF WriteSecret
  <2>2. \E v \in Secrets : Written("secret", v)
    BY <2>1, ReadFacts, VersionKinds, SecretFields DEF Objects, Keys
  <2> QED BY <1>4, <2>2 DEF WriteSecret, Mishap, OtherWrites
<1>5. CASE InstancesChange
  BY <1>5 DEF InstancesChange, Mishap, OtherWrites
<1>6. CASE CallFails
  BY <1>6 DEF CallFails, Mishap, OtherWrites
<1>7. CASE Restart
  BY <1>7 DEF Restart, Mishap, OtherWrites
<1>8. CASE \E o \in Objects : DeleteObject(o)
  <2>1. PICK o \in Objects : DeleteObject(o)
    BY <1>8
  <2>2. Written(o, None) /\ exported' = exported
    BY <2>1 DEF DeleteObject, Mishap
  <2> QED BY <2>2 DEF OtherWrites
<1>9. CASE \E o \in Objects : Deliver(o)
  <2>1. PICK o \in Objects : Deliver(o)
    BY <1>9
  <2>2. Lags(o) /\ Advance(o) /\ exported' = exported
    BY <2>1 DEF Deliver, others
  <2> QED BY <2>2 DEF OtherWrites
<1> QED
  BY <1>1, <1>2, <1>3, <1>4, <1>5, <1>6, <1>7, <1>8, <1>9 DEF Others, Environment

LEMMA HistoryStep ==
  ASSUME TypeOK, [Next]_vars
  PROVE  HistoryOK'
<1>0. HistoryOK
  BY DEF TypeOK
<1>1. CASE Worker
  <2>1. WorkerWrites
    BY <1>1, WorkerStep
  <2>2. CASE UNCHANGED history
    BY <1>0, <2>2 DEF HistoryOK
  <2>3. CASE \E v \in Resources : Written("cr", v)
    BY <1>0, <2>3, WriteFacts, VersionKinds DEF Objects
  <2>4. CASE \E v \in Secrets : Written("secret", v)
    BY <1>0, <2>4, WriteFacts, VersionKinds DEF Objects
  <2>5. CASE \E o \in Owned, v \in Manifests : Written(o, v)
    BY <1>0, <2>5, WriteFacts, VersionKinds DEF Objects, Owned
  <2> QED BY <2>1, <2>2, <2>3, <2>4, <2>5 DEF WorkerWrites
<1>2. CASE Others
  <2>1. OtherWrites
    BY <1>2, OtherStep
  <2>2. CASE UNCHANGED history
    BY <1>0, <2>2 DEF HistoryOK
  <2>3. CASE \E o \in Objects : Lags(o) /\ Advance(o)
    BY <1>0, <2>3, AdvanceFacts
  <2>4. CASE Relist
    BY <1>0, <2>4, RelistFacts
  <2>5. CASE \E o \in Objects : Written(o, None)
    BY <1>0, <2>5, WriteFacts DEF VersionsOf
  <2>6. CASE \E v \in Resources : Written("cr", v)
    BY <1>0, <2>6, WriteFacts, VersionKinds DEF Objects
  <2>7. CASE \E v \in Secrets : Written("secret", v)
    BY <1>0, <2>7, WriteFacts, VersionKinds DEF Objects
  <2>8. CASE \E v \in Manifests : Written("job", v)
    BY <1>0, <2>8, WriteFacts, VersionKinds DEF Objects, Owned
  <2>9. CASE Written("pvc", Claim)
    BY <1>0, <2>9, WriteFacts, VersionKinds, ManifestFields DEF Objects, Owned
  <2> QED BY <2>1, <2>2, <2>3, <2>4, <2>5, <2>6, <2>7, <2>8, <2>9 DEF OtherWrites
<1>3. CASE UNCHANGED vars
  BY <1>0, <1>3 DEF HistoryOK, vars
<1> QED BY <1>1, <1>2, <1>3 DEF Next, Others
-----------------------------------------------------------------------------
(* The type invariant.                                                     *)

(* What a pass knows at each step. *)
PassOK ==
  /\ pass \in [at : Steps, cr : Resources \cup {None}, secret : Secrets \cup {None}]
  /\ pass.at # "idle" => pass.cr \in Resources
  /\ pass.at \in {"label", "key"} => pass.secret \in Secrets
  /\ pass.at = "storage" => pass.cr.phase # ""
  /\ pass.at \notin {"idle", "validate", "storage"} => pass.cr.storage # "unset"

LEMMA IdleOK ==
  ASSUME pass' = Idle
  PROVE  PassOK'
  BY DEF PassOK, Idle, Steps

(* A pass goes on without having learned anything new. *)
LEMMA GoOnOK ==
  ASSUME PassOK, pass.at # "idle", NEW step \in Steps, GoOn(step),
         step \notin {"label", "key"} \/ pass.secret \in Secrets,
         step = "storage" => pass.cr.phase # "",
         step \notin {"idle", "validate", "storage"} => pass.cr.storage # "unset"
  PROVE  PassOK'
  BY DEF PassOK, GoOn, Steps

LEMMA PassStep ==
  ASSUME TypeOK, Worker
  PROVE  PassOK'
<1>0. PassOK /\ HistoryOK
  BY DEF TypeOK, PassOK
<1>1. CASE Reconcile
  <2>1. CASE Get("cr") = None
    BY <1>0, <1>1, <2>1 DEF Reconcile, PassOK
  <2>2. CASE Get("cr") # None
    <3>1. Get("cr") \in Resources
      BY <1>0, <2>2, GetFacts
    <3>2. pass' = [at |-> "validate", cr |-> Get("cr"), secret |-> None]
      BY <1>1, <2>2 DEF Reconcile
    <3>3. /\ pass'.at = "validate" /\ pass'.cr \in Resources
          /\ pass' \in [at : Steps, cr : Resources \cup {None}, secret : Secrets \cup {None}]
      BY <3>1, <3>2 DEF Steps
    <3> QED BY <3>3 DEF PassOK
  <2> QED BY <2>1, <2>2
<1>2. CASE validateExport
  <2>1. pass.cr \in Resources /\ pass.at = "validate"
    BY <1>0, <1>2 DEF validateExport, PassOK
  <2>2. CASE pass.cr.phase = ""
    <3> DEFINE v == [pass.cr EXCEPT !.phase = "Pending"]
    <3>1. v \in Resources /\ v.phase = "Pending"
      BY <2>1, ResourceFields
    <3> HIDE DEF v
    <3>2. pass' = Idle \/ pass' = [pass EXCEPT !.at = "storage", !.cr = v]
      BY <1>2, <2>2 DEF validateExport, UpdateCR, Fail, v
    <3> QED BY <1>0, <3>1, <3>2, IdleOK DEF PassOK, Steps
  <2>3. CASE pass.cr.phase # ""
    BY <1>0, <1>2, <2>1, <2>3, GoOnOK DEF validateExport, Steps
  <2> QED BY <2>2, <2>3
<1>3. CASE reconcileStorage
  <2>1. pass.cr \in Resources /\ pass.at = "storage" /\ pass.cr.phase # ""
    BY <1>0, <1>3 DEF reconcileStorage, PassOK
  <2>2. CASE pass.cr.storage = "unset"
    <3> DEFINE v == [pass.cr EXCEPT !.storage = "local"]
    <3>1. v \in Resources /\ v.storage = "local"
      BY <2>1, ResourceFields
    <3> HIDE DEF v
    <3>2. pass' = Idle \/ pass' = [pass EXCEPT !.at = "secret", !.cr = v]
      BY <1>3, <2>2 DEF reconcileStorage, UpdateCR, Fail, v
    <3> QED BY <1>0, <3>1, <3>2, IdleOK DEF PassOK, Steps
  <2>3. CASE pass.cr.storage # "unset"
    <3>1. GoOn("secret") \/ pass' = Idle
      BY <1>3, <2>3 DEF reconcileStorage, reconcilePVC, Creating, Fail
    <3> QED BY <1>0, <2>1, <2>3, <3>1, GoOnOK, IdleOK DEF Steps
  <2> QED BY <2>2, <2>3
<1>4. CASE FindSecret
  <2>1. PICK step \in {"create", "label", "key"} :
          /\ pass' = [pass EXCEPT !.at = step, !.secret = Get("secret")]
          /\ step # "create" => Get("secret") # None
    BY <1>4 DEF FindSecret, NeedsLabel
  <2>2. Get("secret") \in {None} \cup Secrets
    BY <1>0, GetFacts
  <2>3. pass.at = "secret"
    BY <1>4 DEF FindSecret
  <2> HIDE DEF Get
  <2> QED BY <1>0, <2>1, <2>2, <2>3 DEF PassOK, Steps
<1>5. CASE LabelSecret
  <2> DEFINE v == ensureTrackedLabel(Live("secret"))
  <2>1. pass.at = "label" /\ pass.secret \in Secrets
    BY <1>0, <1>5 DEF LabelSecret, PassOK
  <2>2. CASE Live("secret") = None
    BY <1>0, <1>5, <2>1, <2>2, GoOnOK DEF LabelSecret, Steps, PassOK
  <2>3. CASE Live("secret") # None
    <3>1. v \in Secrets
      BY <1>0, <2>3, ReadFacts, VersionKinds, SecretFields DEF Objects
    <3>2. pass' = [pass EXCEPT !.at = "key", !.secret = v]
      BY <1>5, <2>3 DEF LabelSecret
    <3> HIDE DEF v
    <3> QED BY <1>0, <2>1, <3>1, <3>2 DEF PassOK, Steps
  <2> QED BY <2>2, <2>3
<1>6. CASE CreateSecret
  <2>1. pass.at = "create" /\ (GoOn("job") \/ pass' = Idle)
    BY <1>6 DEF CreateSecret, Creating, Fail
  <2> QED BY <1>0, <2>1, GoOnOK, IdleOK DEF Steps, PassOK
<1>7. CASE reconcileExportSecret
  <2>1. pass.at = "key" /\ (GoOn("job") \/ pass' = Idle)
    BY <1>7 DEF reconcileExportSecret, Fail
  <2> QED BY <1>0, <2>1, GoOnOK, IdleOK DEF Steps, PassOK
<1>8. CASE reconcileExport
  <2>1. pass' = Idle
    BY <1>8 DEF reconcileExport, reconcileCronJob, reconcileJob, CreateJob, Creating,
                End, Fail
  <2> QED BY <2>1, IdleOK
<1> QED
  BY <1>1, <1>2, <1>3, <1>4, <1>5, <1>6, <1>7, <1>8 DEF Worker

(* The bounds and flags. *)
CountersOK ==
  /\ queued \in BOOLEAN /\ sole \in BOOLEAN /\ exported \in BOOLEAN
  /\ edits \in 0..MaxEdits /\ mishaps \in 0..MaxMishaps

LEMMA InitOK == Init => TypeOK
<1> SUFFICES ASSUME Init
             PROVE  TypeOK
  OBVIOUS
<1>1. PICK cr \in Resources, secret \in UserSecrets \cup {None} :
        history = [o \in Objects |-> CASE o = "cr" -> <<cr>> [] o = "secret" -> <<secret>>
                                       [] OTHER -> <<None>>]
  BY DEF Init
<1>2. secret \in {None} \cup Secrets
  BY DEF UserSecrets, Secrets, Keys
<1>3. /\ history["cr"] = <<cr>> /\ history["secret"] = <<secret>>
      /\ history["pvc"] = <<None>> /\ history["job"] = <<None>> /\ history["cron"] = <<None>>
  BY <1>1 DEF Objects
<1> DEFINE all == {None} \cup Resources \cup Secrets \cup Manifests
<1>4. <<cr>> \in Seq(all) /\ <<secret>> \in Seq(all) /\ <<None>> \in Seq(all)
  <2> cr \in all /\ secret \in all /\ None \in all
    BY <1>2
  <2> HIDE DEF all
  <2> QED OBVIOUS
<1> HIDE DEF all
<1>5. \A o \in Objects : history[o] \in Seq(all)
  BY <1>3, <1>4 DEF Objects
<1>6. history \in [Objects -> Seq(all)]
  BY <1>1, <1>5
<1>7. \A o \in Objects : history[o] # <<>>
  BY <1>3 DEF Objects
<1>8. \A o \in Objects : \A i \in DOMAIN history[o] : history[o][i] \in VersionsOf(o)
  BY <1>2, <1>3 DEF Objects, VersionsOf
<1>9. HistoryOK
  BY <1>6, <1>7, <1>8 DEF HistoryOK, all
<1>10. /\ pass = Idle /\ queued = TRUE /\ sole = TRUE /\ exported = FALSE
       /\ edits = 0 /\ mishaps = 0
  BY DEF Init
<1>11. PassOK
  BY <1>10 DEF PassOK, Idle, Steps
<1>12. edits \in 0..MaxEdits /\ mishaps \in 0..MaxMishaps
  BY <1>10, ExportAssumption
<1>13. queued \in BOOLEAN /\ sole \in BOOLEAN /\ exported \in BOOLEAN
  BY <1>10, Zenon
<1> QED BY <1>9, <1>11, <1>12, <1>13 DEF TypeOK, PassOK

LEMMA CountersStep ==
  ASSUME TypeOK, [Next]_vars
  PROVE  CountersOK'
<1>0. CountersOK
  BY DEF TypeOK, CountersOK
<1>1. CASE Worker
  <2>1. UNCHANGED others
    BY <1>1 DEF Worker, Reconcile, validateExport, reconcileStorage, FindSecret, LabelSecret,
                CreateSecret, reconcileExportSecret, reconcileExport
  <2>2. queued' \in BOOLEAN
    BY <1>0, <1>1 DEF CountersOK, Worker, Reconcile, validateExport, reconcileStorage,
         FindSecret, LabelSecret, CreateSecret, reconcileExportSecret, reconcileExport,
         reconcilePVC, reconcileCronJob, reconcileJob, CreateJob, Creating, UpdateCR,
         GoOn, End, Fail
  <2> QED BY <1>0, <2>1, <2>2 DEF CountersOK, others
<1>2. CASE JobSucceeds
  BY <1>0, <1>2 DEF CountersOK, JobSucceeds
<1>3. CASE CollectGarbage
  BY <1>0, <1>3 DEF CountersOK, CollectGarbage, others
<1>4. CASE EditCR
  BY <1>0, <1>4, ExportAssumption DEF CountersOK, EditCR
<1>5. CASE Mishap /\ (sole' \in BOOLEAN) /\ (queued' \in BOOLEAN)
  BY <1>0, <1>5, ExportAssumption DEF CountersOK, Mishap
<1>6. CASE WriteSecret \/ InstancesChange \/ CallFails \/ Restart
  BY <1>0, <1>5, <1>6
     DEF CountersOK, WriteSecret, InstancesChange, CallFails, Restart, GoOn, Fail
<1>7. CASE \E o \in Objects : DeleteObject(o)
  <2>1. PICK o \in Objects : DeleteObject(o)
    BY <1>7
  <2> QED BY <1>0, <1>5, <2>1 DEF CountersOK, DeleteObject
<1>8. CASE \E o \in Objects : Deliver(o)
  <2>1. PICK o \in Objects : Deliver(o)
    BY <1>8
  <2>2. queued' \in BOOLEAN
    BY <1>0, <2>1 DEF CountersOK, Deliver
  <2> QED BY <1>0, <2>1, <2>2 DEF CountersOK, Deliver, others
<1>9. CASE UNCHANGED vars
  BY <1>0, <1>9 DEF CountersOK, vars
<1> QED
  BY <1>1, <1>2, <1>3, <1>4, <1>6, <1>7, <1>8, <1>9 DEF Next, Environment

LEMMA TypeStep ==
  ASSUME TypeOK, [Next]_vars
  PROVE  TypeOK'
<1>1. HistoryOK' /\ CountersOK'
  BY HistoryStep, CountersStep
<1>2. PassOK /\ HistoryOK
  BY DEF TypeOK, PassOK
<1>3. CASE Worker
  BY <1>1, <1>3, PassStep DEF TypeOK, PassOK, CountersOK
<1>4. CASE UNCHANGED pass
  BY <1>1, <1>2, <1>4 DEF TypeOK, PassOK, CountersOK
<1>5. CASE CallFails
  <2>1. pass' = Idle \/ (pass.at = "label" /\ GoOn("key"))
    BY <1>5 DEF CallFails, Fail
  <2>2. PassOK'
    BY <1>2, <2>1, IdleOK, GoOnOK DEF PassOK, Steps
  <2> QED BY <1>1, <2>2 DEF TypeOK, PassOK, CountersOK
<1>6. CASE Restart
  BY <1>1, <1>6, IdleOK DEF Restart, TypeOK, PassOK, CountersOK
<1> QED
  BY <1>3, <1>4, <1>5, <1>6
     DEF Next, Environment, JobSucceeds, CollectGarbage, EditCR, WriteSecret,
         InstancesChange, DeleteObject, Deliver, vars

(* Type correctness of Export, with what a pass knows at each of its       *)
(* steps: it never goes on to the Secret and the Job of a resource whose   *)
(* storage is not decided (reconcileArgoCDExportResources).                *)
THEOREM ExportTypeCorrect == Spec => []TypeOK
<1>1. Init => TypeOK
  BY InitOK
<1>2. TypeOK /\ [Next]_vars => TypeOK'
  BY TypeStep
<1> QED BY <1>1, <1>2, PTL DEF Spec
-----------------------------------------------------------------------------
(* Backup keys.                                                            *)

LEMMA KeyKeptStep ==
  ASSUME TypeOK, Worker, KeyOf(Live("secret")) \in Keys
  PROVE  KeyOf(Live("secret")') = KeyOf(Live("secret"))
<1>0. HistoryOK /\ WorkerWrites
  BY WorkerStep DEF TypeOK
<1>1. CASE UNCHANGED history
  BY <1>1 DEF Live
<1>2. CASE \E v \in Resources : Written("cr", v)
  <2>1. history'["secret"] = history["secret"]
    BY <1>0, <1>2, WriteFacts, VersionKinds DEF Objects
  <2> QED BY <2>1 DEF Live
<1>3. CASE \E v \in Secrets : Written("secret", v) /\ SecretWrites(v)
  <2>1. PICK v \in Secrets : Written("secret", v) /\ SecretWrites(v)
    BY <1>3
  <2>2. Live("secret")' = v
    BY <1>0, <2>1, WriteFacts, VersionKinds DEF Objects
  <2>3. Live("secret") # None
    BY ExportAssumption DEF KeyOf, Keys, Nil
  <2>4. Live("secret") \in Secrets
    BY <1>0, <2>3, ReadFacts, VersionKinds DEF Objects
  <2>5. CASE MayCreate("secret")
    BY <2>3, <2>5 DEF MayCreate
  <2>6. CASE v = ensureTrackedLabel(Live("secret"))
    <3>1. v.data = Live("secret").data
      BY <2>4, <2>6, SecretFields
    <3>2. v # None
      BY <2>1, NoneAssumption
    <3> QED BY <2>2, <2>3, <3>1, <3>2 DEF KeyOf
  <2>7. CASE MayUpdate("secret", pass.secret) /\ pass.secret.data = NoKey
    BY <2>3, <2>7, ExportAssumption DEF MayUpdate, KeyOf, Keys, NoKey
  <2> QED BY <2>1, <2>5, <2>6, <2>7 DEF SecretWrites
<1>4. CASE \E o \in Owned, v \in Manifests : Written(o, v)
  <2>1. history'["secret"] = history["secret"]
    BY <1>0, <1>4, WriteFacts, VersionKinds DEF Objects, Owned
  <2> QED BY <2>1 DEF Live
<1> QED BY <1>0, <1>1, <1>2, <1>3, <1>4 DEF WorkerWrites

(* The controller never replaces a backup key, for all schedules and       *)
(* however many writes and failures of others come between the steps of a  *)
(* pass (reconcileExportSecret, ClientWrapper.Get).                        *)
THEOREM BackupKeySafe == Spec => BackupKeyKept
<1>1. TypeOK /\ [Next]_vars =>
        [Worker /\ KeyOf(Live("secret")) \in Keys
           => KeyOf(Live("secret")') = KeyOf(Live("secret"))]_vars
  BY KeyKeptStep
<1> QED BY <1>1, ExportTypeCorrect, PTL DEF Spec, BackupKeyKept
-----------------------------------------------------------------------------
(* Completed exports. What is inductive is that, besides, only versions of *)
(* the Job from after its success say that it has succeeded.               *)

JobsSeen ==
  \A i \in DOMAIN history["job"] :
    history["job"][i] # None /\ history["job"][i].succeeded => exported

(* A new version of the resource keeps to what the last one says of the    *)
(* export, or says that it is complete after it was.                       *)
PhaseGoesOn(v) ==
  \/ v = None
  \/ /\ Live("cr") # None
     /\ \/ v.phase = Live("cr").phase
        \/ Live("cr").phase # "Completed" /\ v.phase = "Pending"
        \/ v.phase = "Completed" /\ exported

LEMMA PhaseWritten ==
  ASSUME TypeOK, CompletedIsExported, exported => exported',
         NEW v \in VersionsOf("cr"), Written("cr", v), PhaseGoesOn(v)
  PROVE  CompletedIsExported'
<1> DEFINE h == history["cr"]
           n == Len(history["cr"])
<1>1. /\ n \in Nat /\ n >= 1 /\ DOMAIN h = 1..n /\ Live("cr") = h[n]
  BY ReadFacts DEF TypeOK, Objects, Live
<1>2. /\ history'["cr"] = Append(h, v) /\ HistoryOK'
  BY WriteFacts DEF TypeOK, Objects
<1>3. /\ Len(history'["cr"]) = n + 1 /\ DOMAIN history'["cr"] = 1..(n + 1)
      /\ history'["cr"][n + 1] = v
      /\ \A i \in 1..n : history'["cr"][i] = h[i]
  <2> DEFINE all == {None} \cup Resources \cup Secrets \cup Manifests
  <2>1. v \in all /\ h \in Seq(all)
    BY DEF TypeOK, HistoryOK, Objects, VersionsOf
  <2> HIDE DEF all
  <2> QED BY <1>1, <1>2, <2>1
<1>4. \A i \in 1..n : h[i] # None /\ h[i].phase = "Completed" =>
        /\ exported
        /\ \A j \in i..n : h[j] # None => h[j].phase = "Completed"
  BY <1>1 DEF CompletedIsExported
<1> HIDE DEF h, n
<1>5. ASSUME NEW i \in 1..(n + 1), history'["cr"][i] # None,
             history'["cr"][i].phase = "Completed"
      PROVE  /\ exported'
             /\ \A j \in i..(n + 1) : history'["cr"][j] # None
                                        => history'["cr"][j].phase = "Completed"
  <2>1. CASE i = n + 1
    <3>1. exported'
      <4>1. v # None /\ v.phase = "Completed"
        BY <1>3, <1>5, <2>1
      <4>2. CASE v.phase = Live("cr").phase /\ Live("cr") # None
        BY <1>1, <1>4, <4>1, <4>2
      <4>3. CASE exported
        BY <4>3
      <4> QED BY <4>1, <4>2, <4>3 DEF PhaseGoesOn
    <3> QED BY <1>1, <1>5, <2>1, <3>1
  <2>2. CASE i # n + 1
    <3>1. i \in 1..n /\ h[i] # None /\ h[i].phase = "Completed"
      BY <1>1, <1>3, <1>5, <2>2
    <3>2. exported /\ \A j \in i..n : h[j] # None => h[j].phase = "Completed"
      BY <1>4, <3>1
    <3>3. v # None => v.phase = "Completed"
      BY <1>1, <3>1, <3>2 DEF PhaseGoesOn
    <3>4. ASSUME NEW j \in i..(n + 1), history'["cr"][j] # None
          PROVE  history'["cr"][j].phase = "Completed"
      <4>1. CASE j = n + 1
        BY <1>3, <3>3, <3>4, <4>1
      <4>2. CASE j # n + 1
        <5>1. j \in i..n /\ j \in 1..n
          BY <1>1, <3>1, <4>2
        <5> QED BY <1>3, <3>2, <3>4, <5>1
      <4> QED BY <4>1, <4>2
    <3> QED BY <3>2, <3>4
  <2> QED BY <2>1, <2>2
<1> QED BY <1>3, <1>5 DEF CompletedIsExported

(* A delivery or a restart only forgets old versions. *)
LEMMA PhaseForgotten ==
  ASSUME TypeOK, CompletedIsExported, exported => exported',
         \/ history'["cr"] = history["cr"]
         \/ history'["cr"] = <<Live("cr")>>
         \/ Len(history["cr"]) > 1 /\ history'["cr"] = Tail(history["cr"])
  PROVE  CompletedIsExported'
<1> DEFINE h == history["cr"]
           n == Len(history["cr"])
<1>1. /\ n \in Nat /\ n >= 1 /\ DOMAIN h = 1..n /\ Live("cr") = h[n]
      /\ h \in Seq({None} \cup Resources \cup Secrets \cup Manifests)
  BY ReadFacts DEF TypeOK, Objects, Live, HistoryOK
<1>2. \A i \in 1..n : h[i] # None /\ h[i].phase = "Completed" =>
        /\ exported
        /\ \A j \in i..n : h[j] # None => h[j].phase = "Completed"
  BY <1>1 DEF CompletedIsExported
<1>3. CASE history'["cr"] = history["cr"]
  BY <1>3 DEF CompletedIsExported
<1>4. CASE history'["cr"] = <<Live("cr")>>
  <2>1. /\ Len(history'["cr"]) = 1 /\ DOMAIN history'["cr"] = {1}
        /\ history'["cr"][1] = h[n]
    BY <1>1, <1>4
  <2>2. h[n] # None /\ h[n].phase = "Completed" => exported
    BY <1>1, <1>2
  <2> HIDE DEF h, n
  <2> QED BY <2>1, <2>2 DEF CompletedIsExported
<1>5. CASE n > 1 /\ history'["cr"] = Tail(h)
  <2>1. /\ Len(history'["cr"]) = n - 1 /\ DOMAIN history'["cr"] = 1..(n - 1)
        /\ \A i \in 1..(n - 1) : history'["cr"][i] = h[i + 1]
    BY <1>1, <1>5
  <2> HIDE DEF h, n
  <2>2. ASSUME NEW i \in 1..(n - 1), history'["cr"][i] # None,
               history'["cr"][i].phase = "Completed"
        PROVE  /\ exported'
               /\ \A j \in i..(n - 1) : history'["cr"][j] # None
                                          => history'["cr"][j].phase = "Completed"
    <3>1. i + 1 \in 1..n /\ h[i + 1] # None /\ h[i + 1].phase = "Completed"
      BY <1>1, <2>1, <2>2
    <3>2. exported /\ \A j \in (i + 1)..n : h[j] # None => h[j].phase = "Completed"
      BY <1>2, <3>1
    <3>3. \A j \in i..(n - 1) : j + 1 \in (i + 1)..n /\ j \in 1..(n - 1)
      BY <1>1
    <3> QED BY <2>1, <3>2, <3>3
  <2> QED BY <2>1, <2>2 DEF CompletedIsExported
<1> QED BY <1>3, <1>4, <1>5

(* Writes to other objects leave the versions of one alone. *)
LEMMA OneWritten ==
  ASSUME TypeOK, NEW o \in Objects, NEW v \in VersionsOf(o), Written(o, v),
         NEW q \in Objects, q # o
  PROVE  history'[q] = history[q]
  BY WriteFacts DEF TypeOK

LEMMA CompletedStep ==
  ASSUME TypeOK, CompletedIsExported, JobsSeen, [Next]_vars
  PROVE  CompletedIsExported'
<1>0. HistoryOK /\ Live("cr") \in {None} \cup Resources
  BY ReadFacts, VersionKinds DEF TypeOK, Objects
<1>1. CASE Worker
  <2>1. WorkerWrites /\ (exported => exported')
    BY <1>1, WorkerStep
  <2>2. CASE UNCHANGED history
    BY <2>1, <2>2, PhaseForgotten
  <2>3. CASE \E v \in Resources : Written("cr", v) /\ CRWrites(v)
    <3>1. PICK v \in Resources : Written("cr", v) /\ CRWrites(v)
      BY <2>3
    <3>2. Get("job") # None /\ Get("job").succeeded => exported
      <4>1. Get("job") = history["job"][1] /\ 1 \in DOMAIN history["job"]
        BY <1>0, GetFacts, ReadFacts DEF Owned, Objects
      <4> QED BY <4>1 DEF JobsSeen
    <3>3. PhaseGoesOn(v)
      BY <3>1, <3>2 DEF CRWrites, PhaseGoesOn, MayUpdate
    <3> QED BY <2>1, <3>1, <3>3, PhaseWritten, VersionKinds
  <2>4. CASE \E v \in Secrets : Written("secret", v)
    <3>1. history'["cr"] = history["cr"]
      BY <2>4, OneWritten, VersionKinds DEF Objects
    <3> QED BY <2>1, <3>1, PhaseForgotten
  <2>5. CASE \E o \in Owned, v \in Manifests : Written(o, v)
    <3>1. history'["cr"] = history["cr"]
      BY <2>5, OneWritten, VersionKinds DEF Objects, Owned
    <3> QED BY <2>1, <3>1, PhaseForgotten
  <2> QED BY <2>1, <2>2, <2>3, <2>4, <2>5 DEF WorkerWrites
<1>2. CASE Others
  <2>1. OtherWrites /\ (exported => exported')
    BY <1>2, OtherStep
  <2>2. CASE UNCHANGED history
    BY <2>1, <2>2, PhaseForgotten
  <2>3. CASE \E o \in Objects : Lags(o) /\ Advance(o)
    <3>1. PICK o \in Objects : Lags(o) /\ Advance(o)
      BY <2>3
    <3>2. \/ history'["cr"] = history["cr"]
          \/ Len(history["cr"]) > 1 /\ history'["cr"] = Tail(history["cr"])
      BY <1>0, <3>1, AdvanceFacts DEF Objects
    <3> QED BY <2>1, <3>2, PhaseForgotten
  <2>4. CASE Relist
    BY <1>0, <2>1, <2>4, RelistFacts, PhaseForgotten DEF Objects
  <2>5. CASE \E o \in Objects : Written(o, None)
    <3>1. PICK o \in Objects : Written(o, None)
      BY <2>5
    <3>2. None \in VersionsOf(o)
      BY DEF VersionsOf
    <3>3. CASE o = "cr"
      BY <2>1, <3>1, <3>2, <3>3, PhaseWritten DEF PhaseGoesOn
    <3>4. CASE o # "cr"
      <4>1. history'["cr"] = history["cr"]
        BY <3>1, <3>2, <3>4, OneWritten DEF Objects
      <4> QED BY <2>1, <4>1, PhaseForgotten
    <3> QED BY <3>3, <3>4
  <2>6. CASE \E v \in Resources : /\ Written("cr", v)
                                  /\ Live("cr") # None /\ v.phase = Live("cr").phase
    BY <2>1, <2>6, PhaseWritten, VersionKinds DEF PhaseGoesOn
  <2>7. CASE \/ \E v \in Secrets : Written("secret", v)
             \/ \E v \in Manifests : Written("job", v)
             \/ Written("pvc", Claim)
    <3>1. history'["cr"] = history["cr"]
      BY <2>7, OneWritten, VersionKinds, ManifestFields DEF Objects, Owned
    <3> QED BY <2>1, <3>1, PhaseForgotten
  <2> QED BY <2>1, <2>2, <2>3, <2>4, <2>5, <2>6, <2>7 DEF OtherWrites
<1>3. CASE UNCHANGED vars
  BY <1>3 DEF vars, CompletedIsExported
<1> QED BY <1>1, <1>2, <1>3 DEF Next, Others

LEMMA JobWritten ==
  ASSUME TypeOK, JobsSeen, exported => exported', NEW v \in VersionsOf("job"),
         Written("job", v), v # None /\ v.succeeded => exported'
  PROVE  JobsSeen'
<1> DEFINE h == history["job"]
           n == Len(history["job"])
           all == {None} \cup Resources \cup Secrets \cup Manifests
<1>1. v \in all /\ h \in Seq(all)
  BY DEF TypeOK, HistoryOK, Objects, VersionsOf
<1>2. history'["job"] = Append(h, v)
  BY WriteFacts DEF TypeOK, Objects
<1> HIDE DEF all
<1>3. /\ DOMAIN history'["job"] = 1..(n + 1) /\ DOMAIN h = 1..n /\ n \in Nat
      /\ history'["job"][n + 1] = v
      /\ \A i \in 1..n : history'["job"][i] = h[i]
  BY <1>1, <1>2
<1>4. \A i \in 1..n : h[i] # None /\ h[i].succeeded => exported
  BY <1>3 DEF JobsSeen
<1> HIDE DEF h, n
<1> QED BY <1>3, <1>4 DEF JobsSeen

LEMMA JobForgotten ==
  ASSUME TypeOK, JobsSeen, exported => exported',
         \/ history'["job"] = history["job"]
         \/ history'["job"] = <<Live("job")>>
         \/ Len(history["job"]) > 1 /\ history'["job"] = Tail(history["job"])
  PROVE  JobsSeen'
<1> DEFINE h == history["job"]
           n == Len(history["job"])
<1>1. /\ n \in Nat /\ n >= 1 /\ DOMAIN h = 1..n /\ Live("job") = h[n]
      /\ h \in Seq({None} \cup Resources \cup Secrets \cup Manifests)
  BY ReadFacts DEF TypeOK, Objects, Live, HistoryOK
<1>2. \A i \in 1..n : h[i] # None /\ h[i].succeeded => exported
  BY <1>1 DEF JobsSeen
<1>3. \A i \in DOMAIN history'["job"] : \E j \in 1..n : history'["job"][i] = h[j]
  <2>1. CASE history'["job"] = h
    BY <1>1, <2>1
  <2>2. CASE history'["job"] = <<h[n]>>
    BY <1>1, <2>2
  <2>3. CASE n > 1 /\ history'["job"] = Tail(h)
    <3>1. /\ DOMAIN history'["job"] = 1..(n - 1)
          /\ \A i \in 1..(n - 1) : history'["job"][i] = h[i + 1]
      BY <1>1, <2>3
    <3> HIDE DEF h, n
    <3>2. \A i \in 1..(n - 1) : i + 1 \in 1..n
      BY <1>1
    <3> QED BY <3>1, <3>2
  <2> QED BY <1>1, <2>1, <2>2, <2>3
<1> HIDE DEF h, n
<1> QED BY <1>2, <1>3 DEF JobsSeen

LEMMA JobsStep ==
  ASSUME TypeOK, JobsSeen, [Next]_vars
  PROVE  JobsSeen'
<1>0. HistoryOK
  BY DEF TypeOK
<1>1. CASE Worker
  <2>1. WorkerWrites /\ (exported => exported')
    BY <1>1, WorkerStep
  <2>2. CASE UNCHANGED history
    BY <2>1, <2>2, JobForgotten
  <2>3. CASE \/ \E v \in Resources : Written("cr", v)
             \/ \E v \in Secrets : Written("secret", v)
    <3>1. history'["job"] = history["job"]
      BY <2>3, OneWritten, VersionKinds DEF Objects
    <3> QED BY <2>1, <3>1, JobForgotten
  <2>4. CASE \E o \in Owned, v \in Manifests : Written(o, v) /\ JobWrites(o, v)
    <3>1. PICK o \in Owned, v \in Manifests : Written(o, v) /\ JobWrites(o, v)
      BY <2>4
    <3>2. CASE o = "job"
      BY <2>1, <3>1, <3>2, JobWritten, VersionKinds DEF JobWrites, Owned
    <3>3. CASE o # "job"
      <4>1. history'["job"] = history["job"]
        BY <3>1, <3>3, OneWritten, VersionKinds DEF Objects, Owned
      <4> QED BY <2>1, <4>1, JobForgotten
    <3> QED BY <3>2, <3>3
  <2> QED BY <2>1, <2>2, <2>3, <2>4 DEF WorkerWrites
<1>2. CASE Others
  <2>1. OtherWrites /\ (exported => exported')
    BY <1>2, OtherStep
  <2>2. CASE UNCHANGED history
    BY <2>1, <2>2, JobForgotten
  <2>3. CASE \E o \in Objects : Lags(o) /\ Advance(o)
    <3>1. PICK o \in Objects : Lags(o) /\ Advance(o)
      BY <2>3
    <3>2. \/ history'["job"] = history["job"]
          \/ Len(history["job"]) > 1 /\ history'["job"] = Tail(history["job"])
      BY <1>0, <3>1, AdvanceFacts DEF Objects
    <3> QED BY <2>1, <3>2, JobForgotten
  <2>4. CASE Relist
    BY <1>0, <2>1, <2>4, RelistFacts, JobForgotten DEF Objects
  <2>5. CASE \E o \in Objects : Written(o, None)
    <3>1. PICK o \in Objects : Written(o, None)
      BY <2>5
    <3>2. None \in VersionsOf(o)
      BY DEF VersionsOf
    <3>3. CASE o = "job"
      BY <2>1, <3>1, <3>2, <3>3, JobWritten
    <3>4. CASE o # "job"
      <4>1. history'["job"] = history["job"]
        BY <3>1, <3>2, <3>4, OneWritten DEF Objects
      <4> QED BY <2>1, <4>1, JobForgotten
    <3> QED BY <3>3, <3>4
  <2>6. CASE \E v \in Manifests : Written("job", v) /\ exported'
    BY <2>1, <2>6, JobWritten, VersionKinds DEF Owned
  <2>7. CASE \/ \E v \in Resources : Written("cr", v)
             \/ \E v \in Secrets : Written("secret", v)
             \/ Written("pvc", Claim)
    <3>1. history'["job"] = history["job"]
      BY <2>7, OneWritten, VersionKinds, ManifestFields DEF Objects, Owned
    <3> QED BY <2>1, <3>1, JobForgotten
  <2> QED BY <2>1, <2>2, <2>3, <2>4, <2>5, <2>6, <2>7 DEF OtherWrites
<1>3. CASE UNCHANGED vars
  BY <1>3 DEF vars, JobsSeen
<1> QED BY <1>1, <1>2, <1>3 DEF Next, Others

LEMMA CompletedInit == Init => CompletedIsExported /\ JobsSeen
<1> SUFFICES ASSUME Init
             PROVE  CompletedIsExported /\ JobsSeen
  OBVIOUS
<1>1. PICK cr \in Resources, secret \in UserSecrets \cup {None} :
        /\ cr.phase = ""
        /\ history = [o \in Objects |-> CASE o = "cr" -> <<cr>> [] o = "secret" -> <<secret>>
                                          [] OTHER -> <<None>>]
  BY DEF Init
<1>2. history["cr"] = <<cr>> /\ history["job"] = <<None>>
  BY <1>1 DEF Objects
<1>3. /\ DOMAIN history["cr"] = 1..1 /\ history["cr"][1] = cr
      /\ DOMAIN history["job"] = 1..1 /\ history["job"][1] = None
  BY <1>2
<1>4. cr.phase = ""
  BY <1>1
<1>5. \A i \in DOMAIN history["cr"] : history["cr"][i].phase # "Completed"
  <2>1. \A i \in DOMAIN history["cr"] : history["cr"][i] = cr
    BY <1>3
  <2> QED BY <1>4, <2>1
<1>6. \A i \in DOMAIN history["job"] : history["job"][i] = None
  BY <1>3
<1> QED BY <1>5, <1>6, Zenon DEF CompletedIsExported, JobsSeen

(* An export is complete only if a Job has succeeded, and stays complete,  *)
(* for all schedules and however late the informers are (validateExport,   *)
(* reconcileJob).                                                          *)
THEOREM CompletedSafe == Spec => []CompletedIsExported
<1>1. TypeOK /\ CompletedIsExported /\ JobsSeen /\ [Next]_vars
        => CompletedIsExported' /\ JobsSeen'
  BY CompletedStep, JobsStep
<1> QED BY <1>1, CompletedInit, ExportTypeCorrect, PTL DEF Spec
=============================================================================
