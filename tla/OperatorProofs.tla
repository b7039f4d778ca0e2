--------------------------- MODULE OperatorProofs ---------------------------
(***************************************************************************)
(* What the plan of the operator promises, for every scene. An object that *)
(* the operator looks after has the settings of the ArgoCD resource as     *)
(* they are, and exists if and only if they ask for it; a workload is not  *)
(* created before what it mounts; and nothing is left of a resource that   *)
(* is gone but five objects without an owner. All of it rests on the calls *)
(* that reconcileResources consists of: what one of them must be like, and *)
(* which may come after which, is said once, in Fit and Obeys, and shown   *)
(* of every reconcileX of every component.                                 *)
(***************************************************************************)
EXTENDS Operator, ReconcilerProofs, SequenceTheorems
-----------------------------------------------------------------------------
(* The fields of a call. *)
CallFields ==
  {"obj", "wanted", "doomed", "late", "created", "updated", "sparing", "follows",
   "defers", "unless", "awaits", "demands", "reached", "fails", "logged", "owned",
   "needs", "immutable"}

(* What the function says of the fields of its object. *)
Manifest(r) == With(r.created, r.updated)

(* A field that is computed from the settings is set again whenever it     *)
(* differs: it is compared, and nothing keeps the function from looking,   *)
(* save that the object itself is missing, or Secrets which are never      *)
(* missing for long.                                                       *)
Compares(r, on) ==
  \A f \in DOMAIN Manifest(r) :
    Manifest(r)[f] = Current /\ <<r.obj, f>> \notin OnlyAtCreation(on) =>
      /\ f \in DOMAIN r.updated /\ r.updated[f] = Current /\ f \notin r.sparing
      /\ r.follows = <<>> /\ r.unless = {}
      /\ r.awaits \subseteq {Sec("cluster"), Sec("tls"), r.obj}

(* An object goes when the resource goes: by owner reference, with the     *)
(* cluster-wide ones, or not at all.                                       *)
Accounted(r) ==
  \/ r.owned
  \/ r.obj[1] \in MappedKinds
  \/ r.obj \in LeftBehind

(* Whether another object exists, or has just changed, keeps the operator  *)
(* from looking at three objects only, save for amendments, which await    *)
(* the object that they amend.                                             *)
Hindered ==
  {Depl("application-controller"), AnnounceService(1), AnnounceService(2)}

(* What is asked of a call. Only the calls about Dex have their errors     *)
(* logged.                                                                 *)
Fit(r, on) ==
  /\ DOMAIN r = CallFields
  /\ r.logged => r.obj[2] = "dex-server"
  /\ (r.unless = {} /\ r.follows = <<>>) \/ r.obj \in Hindered \/ r.obj \in r.awaits
  /\ Accounted(r)
  /\ Compares(r, on)

(* A sequence of such calls. *)
Fits(calls, on) == \E S : calls \in Seq(S) /\ \A r \in S : Fit(r, on)

(* The compared fields are among those of the manifest, and only those     *)
(* that are known to be left alone are missing.                            *)
Compared(obj, manifest, compared, on) ==
  /\ compared \subseteq DOMAIN manifest
  /\ \A f \in DOMAIN manifest \ compared :
       manifest[f] = Current => <<obj, f>> \in OnlyAtCreation(on)

(* The comparison is all that matters for such a call. *)
LEMMA ResourceFits ==
  ASSUME NEW obj, NEW wanted, NEW manifest, NEW compared, NEW on,
         Compared(obj, manifest, compared, on)
  PROVE  Fit(Resource(obj, wanted, manifest, compared), on)
<1> DEFINE r == Resource(obj, wanted, manifest, compared)
<1>1. /\ DOMAIN r = CallFields
      /\ r.obj = obj /\ r.created = manifest
      /\ r.updated = [f \in compared |-> manifest[f]]
      /\ r.sparing = {} /\ r.follows = <<>> /\ r.unless = {} /\ r.awaits = {}
      /\ r.logged = FALSE /\ r.owned = TRUE
  BY DEF Resource, CallFields
<1> HIDE DEF r
<1>2. /\ DOMAIN Manifest(r) = DOMAIN manifest
      /\ \A f \in DOMAIN manifest : Manifest(r)[f] = manifest[f]
  BY <1>1 DEF Manifest, With, Compared
<1>3. Compares(r, on)
  BY <1>1, <1>2 DEF Compares, Compared
<1>4. Fit(r, on)
  BY <1>1, <1>3 DEF Fit, Accounted
<1> QED BY <1>4 DEF r

(* What Fit does not speak of may be changed. *)
LEMMA Modified ==
  ASSUME NEW r, NEW s, NEW on, Fit(r, on), DOMAIN s = CallFields,
         s.obj = r.obj, s.created = r.created, s.updated = r.updated,
         s.sparing = r.sparing, s.follows = r.follows, s.unless = r.unless,
         s.awaits = r.awaits, s.logged = r.logged, s.owned = r.owned
  PROVE  Fit(s, on)
BY DEF Fit, Accounted, Compares, Manifest

(* So the conditions under which an object is deleted, a call is reached   *)
(* or fails, and what its pods need, do not matter.                        *)
LEMMA ModifiersFit ==
  ASSUME NEW r, NEW on, Fit(r, on)
  PROVE  /\ \A c : Fit(DoomedIf(r, c), on)
         /\ Fit(Kept(r), on)
         /\ \A c : Fit(DeletedLateIf(r, c), on)
         /\ \A c : Fit(OnlyIf(r, c), on)
         /\ \A c : Fit(FailingIf(r, c), on)
         /\ \A objs : Fit(Needing(r, objs), on)
         /\ \A fields : Fit(Immutable(r, fields), on)
         /\ \A old, new : Fit(NotAfterDeleting(r, old, new), on)
         /\ \A objs : Fit(Demanding(r, objs), on)
<1>1. DOMAIN r = CallFields
  BY DEF Fit
<1>2. \A c : Fit(DoomedIf(r, c), on)
  BY <1>1, Modified DEF DoomedIf, CallFields
<1>3. Fit(Kept(r), on)
  BY <1>2 DEF Kept
<1>4. \A c : Fit(DeletedLateIf(r, c), on)
  BY <1>1, Modified DEF DeletedLateIf, CallFields
<1>5. \A c : Fit(OnlyIf(r, c), on)
  BY <1>1, Modified DEF OnlyIf, CallFields
<1>6. \A c : Fit(FailingIf(r, c), on)
  BY <1>1, Modified DEF FailingIf, CallFields
<1>7. \A objs : Fit(Needing(r, objs), on)
  BY <1>1, Modified DEF Needing, CallFields
<1>8. \A fields : Fit(Immutable(r, fields), on)
  BY <1>1, Modified DEF Immutable, CallFields
<1>9. \A old, new : Fit(NotAfterDeleting(r, old, new), on)
  BY <1>1, Modified DEF NotAfterDeleting, CallFields
<1>10. \A objs : Fit(Demanding(r, objs), on)
  BY <1>1, Modified DEF Demanding, CallFields
<1> QED BY <1>2, <1>3, <1>4, <1>5, <1>6, <1>7, <1>8, <1>9, <1>10

(* Without an owner reference the object must be accounted for otherwise. *)
LEMMA UnownedFits ==
  ASSUME NEW r, NEW on, Fit(r, on),
         r.obj[1] \in MappedKinds \/ r.obj \in LeftBehind
  PROVE  Fit(Unowned(r), on)
<1> DEFINE s == Unowned(r)
<1>1. DOMAIN s = CallFields /\ s.obj = r.obj /\ s.created = r.created
      /\ s.updated = r.updated /\ s.sparing = r.sparing /\ s.follows = r.follows
      /\ s.unless = r.unless /\ s.awaits = r.awaits /\ s.logged = r.logged
  BY DEF Unowned, Fit, CallFields
<1> HIDE DEF s
<1>2. Fit(s, on)
  BY <1>1 DEF Fit, Accounted, Compares, Manifest
<1> QED BY <1>2 DEF s

(* Errors are logged of the objects of Dex only. *)
LEMMA LoggedFits ==
  ASSUME NEW r, NEW on, Fit(r, on), r.obj[2] = "dex-server"
  PROVE  Fit(Logged(r), on)
<1> DEFINE s == Logged(r)
<1>1. DOMAIN s = CallFields /\ s.obj = r.obj /\ s.created = r.created
      /\ s.updated = r.updated /\ s.sparing = r.sparing /\ s.follows = r.follows
      /\ s.unless = r.unless /\ s.awaits = r.awaits /\ s.owned = r.owned
  BY DEF Logged, Fit, CallFields
<1> HIDE DEF s
<1>2. Fit(s, on)
  BY <1>1 DEF Fit, Accounted, Compares, Manifest
<1> QED BY <1>2 DEF s

(* A function that returns early depending on other objects computes no    *)
(* field from the settings.                                                *)
LEMMA ConditionsFit ==
  ASSUME NEW r, NEW on, Fit(r, on),
         \A f \in DOMAIN Manifest(r) : Manifest(r)[f] # Current
  PROVE  /\ \A change : change = <<>> \/ r.obj \in Hindered \/ r.obj \in r.awaits
              => Fit(After(r, change), on)
         /\ r.awaits = {} => \A objs : Fit(Awaiting(r, objs), on)
         /\ \A obj : r.obj \in Hindered => Fit(Unless(r, obj), on)
<1> USE DEF CallFields
<1>1. ASSUME NEW change, change = <<>> \/ r.obj \in Hindered \/ r.obj \in r.awaits
      PROVE  Fit(After(r, change), on)
  <2> DEFINE s == After(r, change)
  <2>1. DOMAIN s = CallFields /\ s.obj = r.obj /\ s.created = r.created
        /\ s.updated = r.updated /\ s.owned = r.owned /\ s.logged = r.logged
        /\ s.unless = r.unless /\ s.follows = change /\ s.awaits = r.awaits
    BY DEF After, Fit
  <2> HIDE DEF s
  <2>2. Fit(s, on)
    BY <1>1, <2>1 DEF Fit, Accounted, Compares, Manifest
  <2> QED BY <2>2 DEF s
<1>2. ASSUME NEW objs, r.awaits = {} PROVE Fit(Awaiting(r, objs), on)
  <2> DEFINE s == Awaiting(r, objs)
  <2>1. DOMAIN s = CallFields /\ s.obj = r.obj /\ s.created = r.created
        /\ s.updated = r.updated /\ s.owned = r.owned /\ s.logged = r.logged
        /\ s.unless = r.unless /\ s.follows = r.follows
    BY DEF Awaiting, Fit
  <2> HIDE DEF s
  <2>2. Fit(s, on)
    BY <1>2, <2>1 DEF Fit, Accounted, Compares, Manifest
  <2> QED BY <2>2 DEF s
<1>3. ASSUME NEW obj, r.obj \in Hindered PROVE Fit(Unless(r, obj), on)
  <2> DEFINE s == Unless(r, obj)
  <2>1. DOMAIN s = CallFields /\ s.obj = r.obj /\ s.created = r.created
        /\ s.updated = r.updated /\ s.owned = r.owned /\ s.logged = r.logged
    BY DEF Unless, Fit
  <2> HIDE DEF s
  <2>2. Fit(s, on)
    BY <1>3, <2>1 DEF Fit, Accounted, Compares, Manifest
  <2> QED BY <2>2 DEF s
<1> QED BY <1>1, <1>2, <1>3

(* An object of an earlier version is never written. *)
LEMMA LegacyFits ==
  ASSUME NEW obj, NEW doomed, NEW on
  PROVE  /\ Fit(Legacy(obj, doomed), on)
         /\ DOMAIN Manifest(Legacy(obj, doomed)) = {}
         /\ Legacy(obj, doomed).obj = obj
<1> DEFINE l == Legacy(obj, doomed)
           r == Resource(obj, FALSE, <<>>, {})
<1>1. DOMAIN r = CallFields /\ r.obj = obj /\ r.created = <<>>
      /\ DOMAIN r.updated = {} /\ r.owned /\ r.logged = FALSE
      /\ r.unless = {} /\ r.follows = <<>>
  BY DEF Resource, CallFields
<1>2. l = [r EXCEPT !.doomed = doomed]
  BY DEF Legacy
<1> HIDE DEF r, l
<1>3. DOMAIN l = CallFields /\ l.obj = obj /\ l.created = <<>>
      /\ DOMAIN l.updated = {} /\ l.owned /\ l.logged = FALSE
      /\ l.unless = {} /\ l.follows = <<>>
  BY <1>1, <1>2 DEF CallFields
<1>4. DOMAIN Manifest(l) = {}
  BY <1>3 DEF Manifest, With
<1>5. Fit(l, on)
  BY <1>3, <1>4 DEF Fit, Accounted, Compares
<1> QED BY <1>3, <1>4, <1>5 DEF l

(* A check writes nothing. *)
LEMMA RefusedFits ==
  ASSUME NEW name, NEW condition, NEW on
  PROVE  Fit(Refused(name, condition), on)
<1> DEFINE l == Refused(name, condition)
           r == Resource(<<"check", name>>, TRUE, <<>>, {})
<1>1. DOMAIN r = CallFields /\ r.obj = <<"check", name>> /\ r.created = <<>>
      /\ DOMAIN r.updated = {} /\ r.owned /\ r.logged = FALSE
      /\ r.unless = {} /\ r.follows = <<>>
  BY DEF Resource, CallFields
<1>2. l = [r EXCEPT !.reached = condition, !.fails = TRUE]
  BY DEF Refused
<1> HIDE DEF r, l
<1>3. DOMAIN l = CallFields /\ l.created = <<>>
      /\ DOMAIN l.updated = {} /\ l.owned /\ l.logged = FALSE
      /\ l.unless = {} /\ l.follows = <<>>
  BY <1>1, <1>2 DEF CallFields
<1>4. DOMAIN Manifest(l) = {}
  BY <1>3 DEF Manifest, With
<1>5. Fit(l, on)
  BY <1>3, <1>4 DEF Fit, Accounted, Compares
<1> QED BY <1>5 DEF l

(* A function that sets other fields than it creates. *)
LEMMA UpdatingFits ==
  ASSUME NEW r, NEW manifest, NEW on, Fit(r, on), r.sparing = {}, r.follows = <<>>,
         r.unless = {}, r.awaits = {},
         \A f \in DOMAIN r.created \ DOMAIN manifest :
           r.created[f] = Current => <<r.obj, f>> \in OnlyAtCreation(on)
  PROVE  Fit(Updating(r, manifest), on)
<1> DEFINE s == Updating(r, manifest)
<1>1. DOMAIN s = CallFields /\ s.obj = r.obj /\ s.created = r.created
      /\ s.updated = manifest /\ s.sparing = r.sparing /\ s.follows = r.follows
      /\ s.unless = r.unless /\ s.awaits = r.awaits /\ s.logged = r.logged
      /\ s.owned = r.owned
  BY DEF Updating, Fit, CallFields
<1> HIDE DEF s
<1>2. Compares(s, on)
  BY <1>1 DEF Compares, Manifest, With
<1>3. Fit(s, on)
  BY <1>1, <1>2 DEF Fit, Accounted
<1> QED BY <1>3 DEF s

(* An amendment compares all that it sets, and awaits nothing but the      *)
(* object; one that sets no setting may follow a change.                   *)
LEMMA AmendmentFits ==
  ASSUME NEW obj, NEW manifest, NEW on
  PROVE  /\ Fit(Amendment(obj, manifest), on)
         /\ (\A f \in DOMAIN manifest : manifest[f] # Current) =>
              \A change : Fit(After(Amendment(obj, manifest), change), on)
<1> DEFINE r == Amendment(obj, manifest)
<1>1. /\ DOMAIN r = CallFields
      /\ r.obj = obj /\ r.created = manifest
      /\ r.updated = [f \in DOMAIN manifest |-> manifest[f]]
      /\ r.sparing = {} /\ r.follows = <<>> /\ r.unless = {} /\ r.awaits = {obj}
      /\ r.logged = FALSE /\ r.owned = TRUE
  BY DEF Amendment, Resource, CallFields
<1> HIDE DEF r
<1>2. /\ DOMAIN Manifest(r) = DOMAIN manifest
      /\ \A f \in DOMAIN manifest : Manifest(r)[f] = manifest[f]
  BY <1>1 DEF Manifest, With
<1>3. Fit(r, on)
  BY <1>1, <1>2 DEF Fit, Accounted, Compares
<1>4. ASSUME \A f \in DOMAIN manifest : manifest[f] # Current
      PROVE  \A change : Fit(After(r, change), on)
  BY <1>1, <1>2, <1>3, <1>4, ConditionsFit
<1> QED BY <1>3, <1>4 DEF r
-----------------------------------------------------------------------------
(* Sequences of fitting calls fit, whether joined, guarded by a condition, *)
(* or computed.                                                            *)
LEMMA JoinedFit ==
  ASSUME NEW on, NEW s, NEW t, Fits(s, on), Fits(t, on)
  PROVE  Fits(s \o t, on)
<1>1. PICK S : s \in Seq(S) /\ \A r \in S : Fit(r, on)
  BY DEF Fits
<1>2. PICK T : t \in Seq(T) /\ \A r \in T : Fit(r, on)
  BY DEF Fits
<1>3. s \in Seq(S \cup T) /\ t \in Seq(S \cup T)
  BY <1>1, <1>2, SeqMonotonic
<1>4. s \o t \in Seq(S \cup T)
  BY <1>3, ConcatProperties
<1>5. \A r \in S \cup T : Fit(r, on)
  BY <1>1, <1>2
<1> QED BY <1>4, <1>5, Zenon DEF Fits

(* Two sequences of calls joined, call by call.                            *)
LEMMA Concatenated ==
  ASSUME NEW on, NEW s, NEW t, Fits(s, on), Fits(t, on)
  PROVE  /\ Len(s) \in Nat /\ DOMAIN s = 1..Len(s) /\ DOMAIN t = 1..Len(t) /\ Len(t) \in Nat
         /\ DOMAIN (s \o t) = 1..(Len(s) + Len(t))
         /\ \A i \in 1..Len(s) : (s \o t)[i] = s[i]
         /\ \A i \in 1..Len(t) : (s \o t)[Len(s) + i] = t[i]
<1>1. PICK S : s \in Seq(S)
  BY DEF Fits
<1>2. PICK T : t \in Seq(T)
  BY DEF Fits
<1> QED BY <1>1, <1>2

(* The first call of a sequence. *)
Starts(r, calls, on) == Fits(calls, on) /\ 1 \in DOMAIN calls /\ calls[1] = r

(* What a sequence starts with, it starts with if more follows.            *)
LEMMA StartsJoined ==
  ASSUME NEW on, NEW r, NEW s, NEW t, Starts(r, s, on), Fits(t, on)
  PROVE  Starts(r, s \o t, on)
<1>1. /\ Len(s) \in Nat /\ DOMAIN s = 1..Len(s) /\ DOMAIN t = 1..Len(t) /\ Len(t) \in Nat
      /\ DOMAIN (s \o t) = 1..(Len(s) + Len(t))
      /\ \A i \in 1..Len(s) : (s \o t)[i] = s[i]
  BY Concatenated DEF Starts
<1>2. Fits(s \o t, on)
  BY JoinedFit DEF Starts
<1> QED BY <1>1, <1>2 DEF Starts

(* Calls that are guarded by a condition fit.                              *)
LEMMA GuardedFit ==
  ASSUME NEW on, NEW s, Fits(s, on), NEW condition
  PROVE  Fits(Guarded(s, condition), on)
<1>1. PICK S : s \in Seq(S) /\ \A r \in S : Fit(r, on)
  BY DEF Fits
<1> DEFINE T == {OnlyIf(s[i], s[i].reached /\ condition) : i \in DOMAIN s}
<1>2. DOMAIN s = 1..Len(s) /\ Len(s) \in Nat /\ \A i \in DOMAIN s : s[i] \in S
  BY <1>1
<1>3. \A r \in T : Fit(r, on)
  BY <1>1, <1>2, ModifiersFit
<1> HIDE DEF T
<1>4. Guarded(s, condition) \in [1..Len(s) -> T]
  BY <1>2 DEF Guarded, T
<1>5. Guarded(s, condition) \in Seq(T)
  BY <1>2, <1>4
<1> QED BY <1>3, <1>5, Zenon DEF Fits
(* A call for each member of a set, in some order, fits if each does.      *)
LEMMA FunctionFits ==
  ASSUME NEW on, NEW n \in Nat, NEW s, s = [i \in 1..n |-> s[i]],
         \A i \in 1..n : Fit(s[i], on)
  PROVE  Fits(s, on)
<1> DEFINE S == {s[i] : i \in 1..n}
<1>1. s \in [1..n -> S]
  OBVIOUS
<1>2. \A r \in S : Fit(r, on)
  OBVIOUS
<1> HIDE DEF S
<1>3. s \in Seq(S)
  BY <1>1
<1> QED BY <1>2, <1>3, Zenon DEF Fits
-----------------------------------------------------------------------------
(* Manifests with settings and constants: the settings must be compared. *)
LEMMA MixedFits ==
  ASSUME NEW obj, NEW wanted, NEW a, NEW b, NEW compared, NEW on,
         compared \subseteq a \cup b, a \ b \subseteq compared
  PROVE  Fit(Resource(obj, wanted, With(Settings(a), Constants(b)), compared), on)
<1> DEFINE m == With(Settings(a), Constants(b))
<1>1. DOMAIN m = a \cup b /\ \A f \in b : m[f] # Current
  BY DEF With, Settings, Constants, Fixed, Current
<1> HIDE DEF m
<1>2. Compared(obj, m, compared, on)
  BY <1>1 DEF Compared
<1>3. Fit(Resource(obj, wanted, m, compared), on)
  BY <1>2, ResourceFits
<1> QED BY <1>3 DEF m

(* A call that sets constants only has no setting to compare.              *)
LEMMA ConstantsFit ==
  ASSUME NEW obj, NEW wanted, NEW fields, NEW compared, NEW on,
         compared \subseteq fields
  PROVE  Fit(Resource(obj, wanted, Constants(fields), compared), on)
<1>1. Compared(obj, Constants(fields), compared, on)
  BY DEF Compared, Constants, Fixed, Current
<1> QED BY <1>1, ResourceFits

(* A call that compares all the settings of its manifest fits.             *)
LEMMA SettingsFit ==
  ASSUME NEW obj, NEW wanted, NEW fields, NEW on
  PROVE  Fit(Resource(obj, wanted, Settings(fields), fields), on)
<1>1. Compared(obj, Settings(fields), fields, on)
  BY DEF Compared, Settings
<1> QED BY <1>1, ResourceFits

(* The fields of a manifest of settings and constants.                     *)
LEMMA MixedDomain ==
  \A a, b : DOMAIN With(Settings(a), Constants(b)) = a \cup b
BY DEF With, Settings, Constants

(* The same, when the fields that are not compared are given. *)
LEMMA SkippingFits ==
  ASSUME NEW obj, NEW a, NEW b, NEW skipped, NEW on, skipped \cap a \subseteq b
  PROVE  \A wanted :
           Fit(Resource(obj, wanted, With(Settings(a), Constants(b)),
                        DOMAIN With(Settings(a), Constants(b)) \ skipped), on)
<1> TAKE wanted
<1>1. DOMAIN With(Settings(a), Constants(b)) = a \cup b
  BY MixedDomain
<1>2. (a \cup b) \ skipped \subseteq a \cup b /\ a \ b \subseteq (a \cup b) \ skipped
  OBVIOUS
<1> QED BY <1>1, <1>2, MixedFits

(* One call is a sequence of calls.                                        *)
LEMMA SingleFits ==
  ASSUME NEW r, NEW on, Fit(r, on)
  PROVE  Fits(<<r>>, on)
<1> DEFINE calls == <<r>>
<1>1. calls \in Seq({r})
  OBVIOUS
<1> HIDE DEF calls
<1>2. Fits(calls, on)
  BY <1>1 DEF Fits
<1> QED BY <1>2 DEF calls

(* Nothing is asked of a function that compares every field. *)
LEMMA AllFit ==
  ASSUME NEW obj, NEW wanted, NEW manifest, NEW on
  PROVE  Fit(Resource(obj, wanted, manifest, DOMAIN manifest), on)
<1>1. Compared(obj, manifest, DOMAIN manifest, on)
  BY DEF Compared
<1> QED BY <1>1, ResourceFits

(* An object without an owner, of those that are known.                    *)
LEMMA UnownedResourceFits ==
  ASSUME NEW obj, NEW wanted, NEW manifest, NEW compared, NEW on,
         Fit(Resource(obj, wanted, manifest, compared), on),
         obj[1] \in MappedKinds \/ obj \in LeftBehind
  PROVE  Fit(Unowned(Resource(obj, wanted, manifest, compared)), on)
<1> DEFINE r == Resource(obj, wanted, manifest, compared)
<1>1. r.obj = obj
  BY DEF Resource
<1> HIDE DEF r
<1>2. Fit(Unowned(r), on)
  BY <1>1, UnownedFits DEF r
<1> QED BY <1>2 DEF r

(* Nothing is asked of the comparison if no field is computed from the     *)
(* settings.                                                               *)
LEMMA NoSettingsFit ==
  ASSUME NEW obj, NEW wanted, NEW manifest, NEW compared, NEW on,
         compared \subseteq DOMAIN manifest,
         \A f \in DOMAIN manifest : manifest[f] # Current
  PROVE  Fit(Resource(obj, wanted, manifest, compared), on)
<1>1. Compared(obj, manifest, compared, on)
  BY DEF Compared
<1> QED BY <1>1, ResourceFits

(* Two calls are a sequence of calls.                                      *)
LEMMA TwoFit ==
  ASSUME NEW r, NEW s, NEW on, Fit(r, on), Fit(s, on)
  PROVE  Fits(<<r, s>>, on)
<1> DEFINE calls == <<r, s>>
<1>1. calls \in Seq({r, s})
  OBVIOUS
<1> HIDE DEF calls
<1>2. Fits(calls, on)
  BY <1>1 DEF Fits
<1> QED BY <1>2 DEF calls
-----------------------------------------------------------------------------
(* The ConfigMaps that have neither Dex's nor Redis' settings.             *)
OtherConfigMaps(on) ==
  <<reconcileRBACConfigMap(on), reconcileSSHKnownHosts(on), reconcileTLSCerts(on),
    reconcileArgoCmdParamsConfigMap(on), reconcileGPGKeysConfigMap(on)>>

(* The components. Of the ConfigMaps, those for SSH hosts and TLS          *)
(* certificates are not compared (configmap.go).                           *)
LEMMA ConfigMapsFit ==
  ASSUME NEW on
  PROVE  /\ Fits(reconcileArgoConfigMap(on), on) /\ Fits(reconcileConfigMaps(on), on)
         /\ Fits(reconcileRedisConfiguration(on), on) /\ Fits(OtherConfigMaps(on), on)
<1>1. Fits(reconcileArgoConfigMap(on), on)
  <2> DEFINE m == modifyOwnerReferenceIfNeeded(ArgoData(on))
             rollout == [labels |-> "rollout"]
  <2>1. Fit(Resource(ArgoCM, TRUE, m, DOMAIN m), on)
    BY AllFit
  <2>2. Fit(Amendment(ArgoCM, Settings({"dex.config"})), on)
    BY AmendmentFits
  <2>3. \A f \in DOMAIN rollout : rollout[f] # Current
    BY DEF Current
  <2>4. Fit(After(Amendment(<<"Deployment", "dex-server">>, rollout),
                  <<"update", ArgoCM>>), on)
    BY <2>3, AmendmentFits
  <2>5. Fits(reconcileDexConfiguration(on), on)
    BY <2>2, <2>4, TwoFit DEF reconcileDexConfiguration
  <2>6. Fits(<<Resource(ArgoCM, TRUE, m, DOMAIN m)>>, on)
    BY <2>1, SingleFits
  <2> QED BY <2>5, <2>6, GuardedFit, JoinedFit DEF reconcileArgoConfigMap
<1>2. Fits(reconcileRedisConfiguration(on), on)
  <2>1. /\ Fit(reconcileRedisHAConfigMap(on), on)
        /\ Fit(reconcileRedisHAHealthConfigMap(on), on)
    BY AllFit DEF reconcileRedisHAConfigMap, reconcileRedisHAHealthConfigMap
  <2>2. reconcileRedisConfiguration(on)
          \in Seq({reconcileRedisHAConfigMap(on), reconcileRedisHAHealthConfigMap(on)})
    BY DEF reconcileRedisConfiguration
  <2> QED BY <2>1, <2>2 DEF Fits
<1>3. Fit(reconcileRBACConfigMap(on), on)
  <2> DEFINE m == modifyOwnerReferenceIfNeeded(RBACData(on))
  <2>1. CASE "rbac" \in on
    BY <2>1, AllFit DEF reconcileRBACConfigMap
  <2>2. CASE "rbac" \notin on
    <3>1. DOMAIN m = {"policy", "scopes", "owner"} /\ \A f \in DOMAIN m : m[f] # Current
      BY <2>2 DEF modifyOwnerReferenceIfNeeded, RBACData, With, Constants, Fixed, Current
    <3>2. Compared(CfgMap("argocd-rbac-cm"), m, {"owner"}, on)
      BY <3>1 DEF Compared
    <3> HIDE DEF m
    <3>3. Fit(Resource(CfgMap("argocd-rbac-cm"), TRUE, m, {"owner"}), on)
      BY <3>2, ResourceFits
    <3> QED BY <2>2, <3>3 DEF reconcileRBACConfigMap, m
  <2> QED BY <2>1, <2>2
<1>4. ASSUME NEW name, <<CfgMap(name), "data">> \in OnlyAtCreation(on)
      PROVE  Fit(InitialData(name), on)
  <2> DEFINE m == modifyOwnerReferenceIfNeeded(Settings({"data"}))
  <2>1. DOMAIN m = {"data", "owner"}
    BY DEF modifyOwnerReferenceIfNeeded, With, Settings, Constants
  <2> HIDE DEF m
  <2>2. Compared(CfgMap(name), m, {"owner"}, on)
    BY <1>4, <2>1 DEF Compared
  <2>3. Fit(Resource(CfgMap(name), TRUE, m, {"owner"}), on)
    BY <2>2, ResourceFits
  <2> QED BY <2>3 DEF InitialData, m
<1>5. Fit(reconcileSSHKnownHosts(on), on) /\ Fit(reconcileTLSCerts(on), on)
  <2>1. /\ <<CfgMap("argocd-ssh-known-hosts-cm"), "data">> \in OnlyAtCreation(on)
        /\ <<CfgMap("argocd-tls-certs-cm"), "data">> \in OnlyAtCreation(on)
    BY DEF OnlyAtCreation
  <2> QED BY <1>4, <2>1 DEF reconcileSSHKnownHosts, reconcileTLSCerts
<1>6. Fit(reconcileArgoCmdParamsConfigMap(on), on)
  BY AllFit DEF reconcileArgoCmdParamsConfigMap
<1>7. Fit(reconcileGPGKeysConfigMap(on), on)
  BY ConstantsFit DEF reconcileGPGKeysConfigMap
<1>9. Fits(OtherConfigMaps(on), on)
  <2>1. OtherConfigMaps(on)
          \in Seq({reconcileRBACConfigMap(on), reconcileSSHKnownHosts(on),
                   reconcileTLSCerts(on), reconcileArgoCmdParamsConfigMap(on),
                   reconcileGPGKeysConfigMap(on)})
    BY DEF OtherConfigMaps
  <2> QED BY <1>3, <1>5, <1>6, <1>7, <2>1 DEF Fits
<1>10. Fits(reconcileArgoConfigMap(on) \o reconcileRedisConfiguration(on), on)
  BY <1>1, <1>2, JoinedFit
<1>11. Fits(reconcileConfigMaps(on), on)
  BY <1>9, <1>10, JoinedFit DEF reconcileConfigMaps, OtherConfigMaps
<1> QED BY <1>1, <1>2, <1>9, <1>11

(* Dex: its Service and Deployment are created early in the pass, and      *)
(* looked after again, with errors logged (sso.go, dex.go).                *)
LEMMA DexFits ==
  ASSUME NEW on, NEW argoConfigMap, Fits(argoConfigMap, on)
  PROVE  /\ Fits(reconcileSSO(argoConfigMap, on), on)
         /\ Fits(reconcileDexResources(argoConfigMap, on), on)
         /\ Fits(DexPermissions(on) \o <<reconcileDexServiceAccount(on)>>, on)
         /\ Fits(<<reconcileDexService(on), reconcileDexDeployment(on)>>, on)
         /\ Fit(Logged(reconcileDexService(on)), on)
         /\ Fit(Logged(reconcileDexDeployment(on)), on)
<1>1. Fit(DexRole(on), on) /\ Fit(DexRoleBinding(on), on)
  BY ConstantsFit DEF DexRole, DexRoleBinding
<1>2. /\ DexRole(on).obj[2] = "dex-server" /\ DexRoleBinding(on).obj[2] = "dex-server"
      /\ DexServiceAccount(on).obj[2] = "dex-server"
  BY DEF DexRole, DexRoleBinding, DexServiceAccount, Resource
<1>3. Fit(DexServiceAccount(on), on)
  BY ConstantsFit DEF DexServiceAccount
<1>4. Fit(reconcileDexServiceAccount(on), on)
  <2> DEFINE r == DexServiceAccount(on)
             k == Kept(r)
             u == Updating(k, Settings({"redirect"}))
  <2>1. Fit(k, on)
    BY <1>3, ModifiersFit
  <2>2. /\ k.sparing = {} /\ k.follows = <<>> /\ k.unless = {} /\ k.awaits = {}
        /\ k.created = Constants({"owner"})
    BY DEF Kept, DoomedIf, DexServiceAccount, Resource
  <2> HIDE DEF k
  <2>3. Fit(u, on)
    BY <2>1, <2>2, UpdatingFits DEF Constants, Fixed, Current
  <2> HIDE DEF u
  <2>4. \A c : Fit(OnlyIf(u, c), on)
    BY <2>3, ModifiersFit
  <2> QED BY <2>4 DEF reconcileDexServiceAccount, u, k
<1>5. Fit(reconcileDexService(on), on) /\ reconcileDexService(on).obj[2] = "dex-server"
  <2>1. Fit(reconcileDexService(on), on)
    BY ConstantsFit DEF reconcileDexService
  <2>2. reconcileDexService(on).obj[2] = "dex-server"
    BY DEF reconcileDexService, Resource
  <2> QED BY <2>1, <2>2
<1>6. Fit(Logged(reconcileDexService(on)), on)
  BY <1>5, LoggedFits
<1>7. Fit(reconcileDexDeployment(on), on)
  <2>1. \A w : Fit(Resource(<<"Deployment", "dex-server">>, w, DexManifest,
                            DOMAIN DexManifest \ {"command", "probe", "ports"}), on)
    BY SkippingFits DEF DexManifest
  <2> QED BY <2>1, ModifiersFit DEF reconcileDexDeployment
<1>8. reconcileDexDeployment(on).obj[2] = "dex-server"
  BY DEF reconcileDexDeployment, Needing, Resource
<1>9. Fit(Logged(reconcileDexDeployment(on)), on)
  BY <1>7, <1>8, LoggedFits
<1>10. Fits(reconcileDexResources(argoConfigMap, on), on)
       /\ Fits(DexPermissions(on) \o <<reconcileDexServiceAccount(on)>>, on)
       /\ Fits(<<reconcileDexService(on), reconcileDexDeployment(on)>>, on)
  <2>1. DexPermissions(on)
          \in Seq({DexRole(on), Logged(DexServiceAccount(on)), Logged(DexRole(on)),
                   Logged(DexRoleBinding(on)), DexServiceAccount(on), DexRoleBinding(on)})
    BY DEF DexPermissions, reconcileServiceAccountPermissions
  <2>2. /\ Fit(Logged(DexServiceAccount(on)), on) /\ Fit(Logged(DexRole(on)), on)
        /\ Fit(Logged(DexRoleBinding(on)), on)
    BY <1>1, <1>2, <1>3, LoggedFits
  <2>3. Fits(DexPermissions(on), on)
    BY <1>1, <1>3, <2>1, <2>2 DEF Fits
  <2>4. Fits(<<reconcileDexServiceAccount(on)>>, on)
    BY <1>4, SingleFits
  <2>5. Fits(<<reconcileDexService(on), reconcileDexDeployment(on)>>, on)
    BY <1>5, <1>7, TwoFit
  <2> QED BY <2>3, <2>4, <2>5, JoinedFit DEF reconcileDexResources
<1>11. Fits(Guarded(reconcileDexResources(argoConfigMap, on), UseDex(on)), on)
  BY <1>10, GuardedFit
<1>12. Fits(<<Refused("sso", IllegalSSO(on))>>, on)
  BY RefusedFits, SingleFits
<1>13. Fits(reconcileSSO(argoConfigMap, on), on)
  BY <1>11, <1>12, JoinedFit DEF reconcileSSO
<1> QED BY <1>6, <1>9, <1>10, <1>13

(* Roles, bindings and service accounts: the cluster-wide ones have no     *)
(* owner (role.go, rolebinding.go, service_account.go).                    *)
LEMMA AccessFits ==
  ASSUME NEW on
  PROVE  /\ Fits(reconcileRoles(on), on)
         /\ Fits(reconcileRoleBindings(on), on)
         /\ Fits(reconcileServiceAccounts(on), on)
         /\ \A name : Fits(reconcileRoleBinding(name, on), on)
<1>1. \A name : Fit(reconcileServiceAccount(name, on), on)
  BY ConstantsFit DEF reconcileServiceAccount
<1>2. \A name : Fit(reconcileRole(name, on), on)
  BY ConstantsFit DEF reconcileRole
<1>3. \A name : Fit(RoleBindingFor(name, on), on)
  BY ConstantsFit DEF RoleBindingFor
<1>4. Fit(ModeCheck(on), on)
  BY RefusedFits DEF ModeCheck
<1>5. ASSUME NEW name PROVE Fit(reconcileClusterRole(name, on), on)
  <2> DEFINE default == matchDefaultClusterRoleFields(name)
             match == IF Aggregated(on) THEN matchAggregatedClusterRoleFields(name)
                      ELSE default
             m == With(default, match)
             r == Resource(<<"ClusterRole", name>>, DefaultRole(on), m, {})
             u == Unowned(r)
  <2>1. \A f \in DOMAIN default : default[f] # Current
    BY DEF matchDefaultClusterRoleFields, With, Constants, Absent, Fixed, NoValue, Current
  <2>2. \A f \in DOMAIN match : match[f] # Current
    BY <2>1 DEF matchAggregatedClusterRoleFields, Current
  <2>3. \A f \in DOMAIN m : m[f] # Current
    BY <2>1, <2>2 DEF With
  <2> HIDE DEF m
  <2>4. Fit(r, on)
    BY <2>3, NoSettingsFit
  <2>5. <<"ClusterRole", name>>[1] \in MappedKinds
    BY DEF MappedKinds
  <2>6. Fit(u, on)
    BY <2>4, <2>5, UnownedResourceFits
  <2>7. /\ u.sparing = {} /\ u.follows = <<>> /\ u.unless = {} /\ u.awaits = {}
        /\ u.created = m
    BY DEF Unowned, Resource
  <2> HIDE DEF u, match
  <2>8. Fit(Updating(u, match), on)
    BY <2>3, <2>6, <2>7, UpdatingFits
  <2> QED BY <2>8 DEF reconcileClusterRole, u, match, m
<1>6. ASSUME NEW name PROVE Fit(aggregatedPart(name, on), on)
  <2>1. \A w : Fit(Resource(<<"ClusterRole", name>>, w, Constants({"labels"}), {"labels"}), on)
    BY ConstantsFit
  <2>2. <<"ClusterRole", name>>[1] \in MappedKinds
    BY DEF MappedKinds
  <2> QED BY <2>1, <2>2, UnownedResourceFits DEF aggregatedPart
<1>7. ASSUME NEW name PROVE Fit(reconcileClusterRoleBinding(name, on), on)
  <2>1. \A w : Fit(Resource(<<"ClusterRoleBinding", name>>, w,
                            Constants({"subjects"}), {"subjects"}), on)
    BY ConstantsFit
  <2>2. <<"ClusterRoleBinding", name>>[1] \in MappedKinds
    BY DEF MappedKinds
  <2>3. \A w : Fit(Unowned(Resource(<<"ClusterRoleBinding", name>>, w,
                            Constants({"subjects"}), {"subjects"})), on)
    BY <2>1, <2>2, UnownedResourceFits
  <2> QED BY <2>3, ModifiersFit DEF reconcileClusterRoleBinding
<1>8. Fits(reconcileRoles(on), on)
  <2> DEFINE roles == [i \in DOMAIN Components |-> reconcileRole(Components[i], on)]
             wide == <<ModeCheck(on), reconcileClusterRole("application-controller", on),
                       reconcileClusterRole("server", on),
                       aggregatedPart("application-controller-view", on),
                       aggregatedPart("application-controller-admin", on)>>
  <2>1. DOMAIN Components = 1..5
    BY DEF Components
  <2>2. roles = [i \in 1..5 |-> roles[i]]
    BY <2>1
  <2>3. \A i \in 1..5 : Fit(roles[i], on)
    BY <1>2, <2>1
  <2> HIDE DEF roles
  <2>4. Fits(roles, on)
    BY <2>2, <2>3, FunctionFits
  <2>5. wide \in Seq({ModeCheck(on), reconcileClusterRole("application-controller", on),
                      reconcileClusterRole("server", on),
                      aggregatedPart("application-controller-view", on),
                      aggregatedPart("application-controller-admin", on)})
    OBVIOUS
  <2> HIDE DEF wide
  <2>6. Fits(wide, on)
    BY <1>4, <1>5, <1>6, <2>5 DEF Fits
  <2>7. Fits(roles \o wide, on)
    BY <2>4, <2>6, JoinedFit
  <2> QED BY <2>7 DEF reconcileRoles, roles, wide
<1>9. ASSUME NEW name PROVE Fits(reconcileRoleBinding(name, on), on)
  <2>1. reconcileRoleBinding(name, on)
          \in Seq({reconcileServiceAccount(name, on), reconcileRole(name, on),
                   RoleBindingFor(name, on)})
    BY DEF reconcileRoleBinding
  <2> QED BY <1>1, <1>2, <1>3, <2>1 DEF Fits
<1>10. Fits(reconcileRoleBindings(on), on)
  BY <1>9, JoinedFit DEF reconcileRoleBindings
<1>11. ASSUME NEW name PROVE Fits(reconcileServiceAccountClusterPermissions(name, on), on)
  <2>1. reconcileServiceAccountClusterPermissions(name, on)
          \in Seq({reconcileServiceAccount(name, on), ModeCheck(on),
                   reconcileClusterRole(name, on), reconcileClusterRoleBinding(name, on)})
    BY DEF reconcileServiceAccountClusterPermissions
  <2> QED BY <1>1, <1>4, <1>5, <1>7, <2>1 DEF Fits
<1>12. Fits(reconcileServiceAccounts(on), on)
  BY <1>10, <1>11, JoinedFit DEF reconcileServiceAccounts
<1> QED BY <1>8, <1>9, <1>10, <1>12

(* Secrets: argocd-secret awaits those of the password and of the          *)
(* certificate, and is the only call with a setting that awaits any        *)
(* (secret.go).                                                            *)
LEMMA SecretsFit ==
  ASSUME NEW on
  PROVE  /\ Fits(reconcileCertificateAuthority(on), on)
         /\ Fits(reconcileSecrets(on), on)
         /\ Fits(reconcileClusterSecrets(on), on)
         /\ Fits(<<reconcileArgoSecret(on)>>, on)
<1>1. ASSUME NEW name PROVE Fit(Generated(name), on)
  <2>1. \A w : Fit(Resource(Sec(name), w, Constants({"owner"}), {}), on)
    BY ConstantsFit
  <2> QED BY <2>1 DEF Generated
<1>2. Fit(reconcileClusterTLSSecret(on), on)
  BY <1>1, ModifiersFit DEF reconcileClusterTLSSecret
<1>3. Fit(reconcileCAConfigMap(on), on)
  <2> DEFINE r == Resource(<<"ConfigMap", "argocd-ca">>, TRUE, Constants({"data"}), {})
  <2>1. \A w : Fit(Resource(<<"ConfigMap", "argocd-ca">>, w, Constants({"data"}), {}), on)
    BY ConstantsFit
  <2>2. \A f \in DOMAIN Manifest(r) : Manifest(r)[f] # Current
    BY DEF Manifest, Resource, With, Constants, Fixed, Current
  <2>3. Fit(r, on) /\ r.awaits = {}
    BY <2>1 DEF Resource
  <2> HIDE DEF r
  <2>4. \A objs : Fit(Awaiting(r, objs), on)
    BY <2>2, <2>3, ConditionsFit
  <2> QED BY <2>4 DEF reconcileCAConfigMap, r
<1>4. Fits(reconcileCertificateAuthority(on), on)
  <2>1. reconcileCertificateAuthority(on)
          \in Seq({Generated("ca"), reconcileCAConfigMap(on)})
    BY DEF reconcileCertificateAuthority, reconcileClusterCASecret
  <2> QED BY <1>1, <1>3, <2>1 DEF Fits
<1>5. Fit(reconcileClusterPermissionsSecret(on), on)
  <2> DEFINE everywhere == "cluster-scoped" \in on
             k == Kept(Resource(Sec("default-cluster-config"), ~everywhere,
                                Constants({"server", "namespaces"}), {}))
             m == IF everywhere THEN Absent({"namespaces"}) ELSE <<>>
  <2>1. \A w : Fit(Resource(Sec("default-cluster-config"), w,
                            Constants({"server", "namespaces"}), {}), on)
    BY ConstantsFit
  <2>2. Fit(k, on)
    BY <2>1, ModifiersFit
  <2>3. /\ k.sparing = {} /\ k.follows = <<>> /\ k.unless = {} /\ k.awaits = {}
        /\ k.created = Constants({"server", "namespaces"})
    BY DEF Kept, DoomedIf, Resource
  <2> HIDE DEF k, m
  <2>4. Fit(Updating(k, m), on)
    BY <2>2, <2>3, UpdatingFits DEF Constants, Fixed, Current
  <2> QED BY <2>4 DEF reconcileClusterPermissionsSecret, k, m
<1>6. Fit(reconcileArgoSecret(on), on)
  <2> DEFINE again == reconcileExistingArgoSecret(on)
             m == With(Constants({"password", "session"}), again)
             r == Resource(Sec("argocd-secret"), TRUE, m, DOMAIN again)
             f == FailingIf(r, "dex" \in on /\ "dex.token" \notin on)
             a == Awaiting(f, {Sec("cluster"), Sec("tls")})
  <2>1. Compared(Sec("argocd-secret"), m, DOMAIN again, on)
    BY DEF Compared, With, Constants, Fixed, Current
  <2> HIDE DEF again
  <2>2. Fit(r, on)
    BY <2>1, ResourceFits
  <2>3. Fit(f, on) /\ f.follows = <<>> /\ f.unless = {}
    BY <2>2, ModifiersFit DEF FailingIf, Resource
  <2>4. /\ DOMAIN a = CallFields /\ a.obj = f.obj /\ a.created = f.created
        /\ a.updated = f.updated /\ a.sparing = f.sparing /\ a.follows = f.follows
        /\ a.unless = f.unless /\ a.logged = f.logged /\ a.owned = f.owned
        /\ a.awaits = {Sec("cluster"), Sec("tls")}
    BY <2>3 DEF Awaiting, Fit, CallFields
  <2> HIDE DEF a, f
  <2>5. Fit(a, on)
    BY <2>3, <2>4 DEF Fit, Accounted, Compares, Manifest
  <2> QED BY <2>5 DEF reconcileArgoSecret, a, f, again
<1>7. Fits(reconcileClusterSecrets(on), on)
  <2>1. reconcileClusterSecrets(on)
          \in Seq({Generated("cluster"), Generated("redis-initial-password"),
                   Generated("ca"), reconcileClusterTLSSecret(on),
                   reconcileClusterPermissionsSecret(on)})
    BY DEF reconcileClusterSecrets, reconcileClusterMainSecret,
           reconcileRedisInitialPasswordSecret, reconcileClusterCASecret
  <2> QED BY <1>1, <1>2, <1>5, <2>1 DEF Fits
<1>8. Fits(<<reconcileArgoSecret(on)>>, on)
  BY <1>6, SingleFits
<1>9. Fits(reconcileSecrets(on), on)
  BY <1>7, <1>8, JoinedFit DEF reconcileSecrets
<1> QED BY <1>4, <1>7, <1>8, <1>9

(* Deployments: an autoscaled server keeps its replicas (deployment.go,    *)
(* repo_server.go).                                                        *)
LEMMA DeploymentsFit ==
  ASSUME NEW on, NEW dex, Fit(dex, on)
  PROVE  Fits(reconcileDeployments(dex, on), on)
<1>1. \A w : Fit(Resource(Depl("redis"), w, RedisManifest,
                          DOMAIN RedisManifest \ {"ports"}), on)
  BY SkippingFits DEF RedisManifest
<1>2. Fit(reconcileRedisDeployment(on), on)
  BY <1>1, ModifiersFit DEF reconcileRedisDeployment
<1>3. \A w : Fit(Resource(Depl("redis-ha-haproxy"), w, HAProxyManifest,
                          DOMAIN HAProxyManifest \ {"affinity", "probe", "ports"}), on)
  BY SkippingFits DEF HAProxyManifest
<1>4. Fit(reconcileRedisHAProxyDeployment(on), on)
  BY <1>3, ModifiersFit DEF reconcileRedisHAProxyDeployment
<1>5. \A w : Fit(Resource(Depl("repo-server"), w, RepoManifest,
                          DOMAIN RepoManifest \ {"ports", "probe"}), on)
  BY SkippingFits DEF RepoManifest
<1>6. \A w, c : Fit(DoomedIf(Resource(Depl("repo-server"), w, RepoManifest,
                          DOMAIN RepoManifest \ {"ports", "probe"}), c), on)
  BY <1>5, ModifiersFit
<1>7. Fit(reconcileRepoDeployment(on), on)
  BY <1>6, ModifiersFit DEF reconcileRepoDeployment
<1>8. Fit(reconcileServerDeployment(on), on)
  <2> DEFINE all == DOMAIN ServerManifest \ {"ports", "probe"}
             compared == IF "server.autoscale" \in on THEN all \ {"replicas"} ELSE all
  <2>1. Compared(Depl("server"), ServerManifest, compared, on)
    <3>1. /\ compared \subseteq DOMAIN ServerManifest
          /\ \A f \in DOMAIN ServerManifest \ compared :
               f \in {"ports", "probe"} \/ (f = "replicas" /\ "server.autoscale" \in on)
      OBVIOUS
    <3>2. \A f \in {"ports", "probe"} : ServerManifest[f] # Current
      BY DEF ServerManifest, With, Constants, Settings, Fixed, Current
    <3>3. "server.autoscale" \in on => <<Depl("server"), "replicas">> \in OnlyAtCreation(on)
      BY DEF OnlyAtCreation
    <3> QED BY <3>1, <3>2, <3>3 DEF Compared
  <2>2. \A w : Fit(Resource(Depl("server"), w, ServerManifest, compared), on)
    BY <2>1, ResourceFits
  <2> QED BY <2>2, ModifiersFit DEF reconcileServerDeployment
<1>9. reconcileDeployments(dex, on)
        \in Seq({dex, reconcileRedisDeployment(on), reconcileRedisHAProxyDeployment(on),
                 reconcileRepoDeployment(on), reconcileServerDeployment(on)})
  BY DEF reconcileDeployments
<1> QED BY <1>2, <1>4, <1>7, <1>8, <1>9 DEF Fits

(* StatefulSets, those under their old names too (statefulset.go). *)
LEMMA StatefulSetsFit ==
  ASSUME NEW on
  PROVE  Fits(reconcileStatefulSets(on), on)
<1>1. ASSUME NEW sts, Fit(sts, on)
      PROVE  Fit(OldName(sts, on)[1], on) /\ Fit(OldName(sts, on)[2], on)
  BY <1>1, LegacyFits, ModifiersFit DEF OldName
<1>2. \A w : Fit(Resource(Sts("redis-ha-server"), w, RedisHAManifest,
                          PodFields \cup {"init", "annotations", "labels"}), on)
  BY MixedFits DEF RedisHAManifest
<1>3. \A w, c : Fit(DoomedIf(Resource(Sts("redis-ha-server"), w, RedisHAManifest,
                          PodFields \cup {"init", "annotations", "labels"}), c), on)
  BY <1>2, ModifiersFit
<1>4. \A w, c, objs :
        Fit(Needing(DoomedIf(Resource(Sts("redis-ha-server"), w, RedisHAManifest,
                    PodFields \cup {"init", "annotations", "labels"}), c), objs), on)
  BY <1>3, ModifiersFit
<1>5. Fits(reconcileRedisStatefulSet(on), on)
  <2>1. /\ Fit(reconcileRedisStatefulSet(on)[1], on)
        /\ Fit(reconcileRedisStatefulSet(on)[2], on)
    BY <1>1, <1>4 DEF reconcileRedisStatefulSet
  <2>2. reconcileRedisStatefulSet(on)
          \in Seq({reconcileRedisStatefulSet(on)[1], reconcileRedisStatefulSet(on)[2]})
    BY DEF reconcileRedisStatefulSet, OldName
  <2> QED BY <2>1, <2>2 DEF Fits
<1>6. \A w : Fit(Resource(Sts("application-controller"), w, ControllerManifest,
                          DOMAIN ControllerManifest
                            \ {"ports", "probe", "affinity", "serviceAccount"}), on)
  BY SkippingFits DEF ControllerManifest
<1>7. \A w, objs :
        Fit(Needing(Resource(Sts("application-controller"), w, ControllerManifest,
                             DOMAIN ControllerManifest
                               \ {"ports", "probe", "affinity", "serviceAccount"}), objs), on)
  BY <1>6, ModifiersFit
<1>8. Fit(containsInvalidImage(on), on)
  <2> DEFINE l == Legacy(Sts("application-controller"), TRUE)
             r == [l EXCEPT !.wanted = TRUE, !.fails = TRUE]
  <2>1. Fit(l, on)
    BY LegacyFits
  <2> HIDE DEF l
  <2>2. Fit(r, on)
    BY <2>1, Modified DEF Fit, CallFields
  <2> HIDE DEF r
  <2>3. Fit(OnlyIf(r, "invalid-image" \in on), on)
    BY <2>2, ModifiersFit
  <2> QED BY <2>3 DEF containsInvalidImage, r, l
<1>9. \A doomed, sts : Fit(Unless(Legacy(Depl("application-controller"), doomed), sts), on)
  <2>1. Depl("application-controller") \in Hindered
    BY DEF Hindered
  <2> QED BY <2>1, LegacyFits, ConditionsFit
<1>10. Fits(reconcileApplicationControllerStatefulSet(on), on)
  <2> DEFINE sts == OldName(
               Needing(Resource(Sts("application-controller"), ControllerEnabled(on),
                                ControllerManifest,
                                DOMAIN ControllerManifest
                                  \ {"ports", "probe", "affinity", "serviceAccount"}),
                       {SA("application-controller"), RedisAuth}),
               on)
             depl == Unless(Legacy(Depl("application-controller"), ControllerEnabled(on)),
                            Sts("application-controller"))
  <2>1. Fit(sts[1], on) /\ Fit(sts[2], on)
    BY <1>1, <1>7
  <2>2. Fit(depl, on)
    BY <1>9
  <2>3. reconcileApplicationControllerStatefulSet(on)
          = <<containsInvalidImage(on), sts[1],
              NotAfterDeleting(depl, sts[1].obj, sts[2].obj), sts[2]>>
    BY DEF reconcileApplicationControllerStatefulSet
  <2> HIDE DEF sts, depl
  <2>4. Fit(NotAfterDeleting(depl, sts[1].obj, sts[2].obj), on)
    BY <2>2, ModifiersFit
  <2>5. reconcileApplicationControllerStatefulSet(on)
          \in Seq({containsInvalidImage(on), sts[1],
                   NotAfterDeleting(depl, sts[1].obj, sts[2].obj), sts[2]})
    BY <2>3
  <2> QED BY <1>8, <2>1, <2>4, <2>5 DEF Fits
<1> QED BY <1>5, <1>10, JoinedFit DEF reconcileStatefulSets

(* The annotation for a serving certificate is not computed from the       *)
(* settings (service.go).                                                  *)
LEMMA AutoTLSFits ==
  ASSUME NEW r, NEW wanted, NEW userSecret, NEW on, Fit(r, on),
         "autotls" \notin DOMAIN r.updated
  PROVE  Fit(ensureAutoTLSAnnotation(r, wanted, userSecret, on), on)
<1> DEFINE annotation(set) == [f \in {"autotls"} |-> IF set THEN Fixed ELSE NoValue]
           api == RouteAPI(on)
           s == ensureAutoTLSAnnotation(r, wanted, userSecret, on)
<1> HIDE DEF api
<1>1. /\ DOMAIN s = CallFields /\ s.obj = r.obj /\ s.follows = r.follows
      /\ s.unless = r.unless /\ s.awaits = r.awaits /\ s.logged = r.logged
      /\ s.owned = r.owned /\ s.sparing \subseteq r.sparing \cup {"autotls"}
    BY DEF ensureAutoTLSAnnotation, Fit, CallFields
<1>2. /\ s.created = With(r.created, annotation(api /\ wanted /\ ~userSecret))
      /\ s.updated = IF api THEN With(r.updated, annotation(wanted)) ELSE r.updated
  BY DEF ensureAutoTLSAnnotation, Fit, CallFields, api
<1> HIDE DEF s
<1>3. /\ DOMAIN s.created = DOMAIN r.created \cup {"autotls"}
      /\ \A f \in DOMAIN r.created \ {"autotls"} : s.created[f] = r.created[f]
      /\ s.created["autotls"] # Current
  BY <1>2 DEF With, Fixed, NoValue, Current
<1>4. /\ DOMAIN r.updated \subseteq DOMAIN s.updated
      /\ DOMAIN s.updated \subseteq DOMAIN r.updated \cup {"autotls"}
      /\ \A f \in DOMAIN r.updated : s.updated[f] = r.updated[f]
      /\ "autotls" \in DOMAIN s.updated => s.updated["autotls"] # Current
  BY <1>2 DEF With, Fixed, NoValue, Current
<1>5. ASSUME NEW f \in DOMAIN Manifest(s), Manifest(s)[f] = Current
      PROVE  f \in DOMAIN Manifest(r) /\ Manifest(r)[f] = Current /\ f # "autotls"
  <2>1. f # "autotls"
    BY <1>3, <1>4, <1>5 DEF Manifest, With
  <2> QED BY <1>3, <1>4, <1>5, <2>1 DEF Manifest, With
<1>6. Compares(s, on)
  BY <1>1, <1>4, <1>5 DEF Compares, Fit
<1>7. Fit(s, on)
  BY <1>1, <1>6 DEF Fit, Accounted
<1> QED BY <1>7 DEF s

(* Services (service.go). *)
LEMMA ServicesFit ==
  ASSUME NEW on, NEW dexService, Fit(dexService, on)
  PROVE  Fits(reconcileServices(dexService, on), on)
<1>1. \A name, w : Fit(Endpoint(name, w), on)
  BY ConstantsFit DEF Endpoint
<1>2. \A name, w : DOMAIN Endpoint(name, w).updated = {}
  BY DEF Endpoint, Resource
<1>3. \A name, w : /\ Fit(RedisAutoTLS(Endpoint(name, w), on), on)
                   /\ Fit(RepoAutoTLS(Endpoint(name, w), on), on)
  BY <1>1, <1>2, AutoTLSFits DEF RedisAutoTLS, RepoAutoTLS
<1>4. Fit(reconcileGrafanaService(on), on)
  BY LegacyFits DEF reconcileGrafanaService
<1>5. Fit(reconcileMetricsService(on), on) /\ Fit(reconcileServerMetricsService(on), on)
  BY <1>1 DEF reconcileMetricsService, reconcileServerMetricsService
<1>6. Fits(reconcileRedisHAAnnounceServices(on), on)
  <2> DEFINE wanted == HA(on) /\ RedisEnabled(on)
             fields == {"selector", "ports", "publish", "annotations"}
             r(i) == Resource(AnnounceService(i - 1), wanted, Constants(fields), {})
             s == reconcileRedisHAAnnounceServices(on)
  <2>1. \A o, w : Fit(Resource(o, w, Constants(fields), {}), on)
    BY ConstantsFit
  <2>2. \A o, w : \A f \in DOMAIN Manifest(Resource(o, w, Constants(fields), {})) :
                    Manifest(Resource(o, w, Constants(fields), {}))[f] # Current
    BY DEF Manifest, Resource, With, Constants, Fixed, Current
  <2>3. \A o, w, p : p = <<>> \/ o \in Hindered
                      => Fit(After(Resource(o, w, Constants(fields), {}), p), on)
    <3>1. \A o, w : Resource(o, w, Constants(fields), {}).obj = o
      BY DEF Resource
    <3> QED BY <2>1, <2>2, <3>1, ConditionsFit
  <2>4. \A i \in 1..3 : Fit(s[i], on)
    <3>1. \A i \in 1..3 : i = 1 \/ AnnounceService(i - 1) \in Hindered
      BY DEF Hindered
    <3> QED BY <2>3, <3>1 DEF reconcileRedisHAAnnounceServices
  <2>5. s = [i \in 1..3 |-> s[i]]
    BY DEF reconcileRedisHAAnnounceServices
  <2> HIDE DEF s
  <2>6. Fits(s, on)
    BY <2>4, <2>5, FunctionFits
  <2> QED BY <2>6 DEF s
<1>7. Fit(reconcileRedisHAMasterService(on), on)
  BY <1>1 DEF reconcileRedisHAMasterService
<1>8. Fit(reconcileRedisHAProxyService(on), on)
  BY <1>3 DEF reconcileRedisHAProxyService
<1>9. Fits(reconcileRedisHAServices(on), on)
  <2> DEFINE calls == <<reconcileRedisHAMasterService(on), reconcileRedisHAProxyService(on)>>
  <2>1. calls \in Seq({reconcileRedisHAMasterService(on), reconcileRedisHAProxyService(on)})
    OBVIOUS
  <2> HIDE DEF calls
  <2>2. Fits(calls, on)
    BY <1>7, <1>8, <2>1 DEF Fits
  <2>3. Fits(reconcileRedisHAAnnounceServices(on) \o calls, on)
    BY <1>6, <2>2, JoinedFit
  <2> QED BY <2>3 DEF reconcileRedisHAServices, calls
<1>10. \A name, w, c : /\ Fit(DoomedIf(RedisAutoTLS(Endpoint(name, w), on), c), on)
                       /\ Fit(DoomedIf(RepoAutoTLS(Endpoint(name, w), on), c), on)
  BY <1>3, ModifiersFit
<1>11. \A name, w, c, d :
         /\ Fit(DeletedLateIf(DoomedIf(RedisAutoTLS(Endpoint(name, w), on), c), d), on)
         /\ Fit(DeletedLateIf(DoomedIf(RepoAutoTLS(Endpoint(name, w), on), c), d), on)
  BY <1>10, ModifiersFit
<1>12. Fit(reconcileRedisService(on), on) /\ Fit(reconcileRepoService(on), on)
  BY <1>11 DEF reconcileRedisService, reconcileRepoService
<1>13. Fit(reconcileServerService(on), on)
  <2> DEFINE m == With(Constants({"selector", "ports"}), Settings({"type"}))
             r == Resource(Svc("server"), ServerEnabled(on), m, {"type"})
  <2>1. Compared(Svc("server"), m, {"type"}, on)
    BY DEF Compared, With, Constants, Settings, Fixed, Current
  <2>2. Fit(r, on)
    BY <2>1, ResourceFits
  <2>3. "autotls" \notin DOMAIN r.updated
    BY DEF Resource
  <2> HIDE DEF r
  <2>4. Fit(ServerAutoTLS(r, on), on)
    BY <2>2, <2>3, AutoTLSFits DEF ServerAutoTLS
  <2> QED BY <2>4 DEF reconcileServerService, r
<1> DEFINE first == <<dexService, reconcileGrafanaService(on), reconcileMetricsService(on)>>
           last == <<reconcileRedisService(on), reconcileRepoService(on),
                     reconcileServerMetricsService(on), reconcileServerService(on)>>
<1>14. first \in Seq({dexService, reconcileGrafanaService(on), reconcileMetricsService(on)})
  OBVIOUS
<1>15. last \in Seq({reconcileRedisService(on), reconcileRepoService(on),
                     reconcileServerMetricsService(on), reconcileServerService(on)})
  OBVIOUS
<1> HIDE DEF first, last
<1>16. Fits(first, on)
  BY <1>4, <1>5, <1>14 DEF Fits
<1>17. Fits(last, on)
  BY <1>5, <1>12, <1>13, <1>15 DEF Fits
<1>18. Fits(first \o reconcileRedisHAServices(on), on)
  BY <1>9, <1>16, JoinedFit
<1>19. Fits((first \o reconcileRedisHAServices(on)) \o last, on)
  BY <1>17, <1>18, JoinedFit
<1> QED BY <1>19 DEF reconcileServices, first, last

(* The autoscaler stays behind (hpa.go). *)
LEMMA AutoscalersFit ==
  ASSUME NEW on
  PROVE  Fits(reconcileAutoscalers(on), on)
<1> DEFINE given == "server.hpa" \in on
           o == <<"HorizontalPodAutoscaler", "server">>
           m == IF given THEN Settings({"spec"}) ELSE Constants({"spec"})
           compared == IF given THEN {"spec"} ELSE {}
<1>1. Compared(o, m, compared, on)
  BY DEF Compared, Settings, Constants, Fixed, Current
<1>2. o \in LeftBehind
  BY DEF LeftBehind
<1> HIDE DEF m, compared, o
<1>3. \A w : Fit(Resource(o, w, m, compared), on)
  BY <1>1, ResourceFits
<1>4. \A w : Fit(Unowned(Resource(o, w, m, compared)), on)
  BY <1>2, <1>3, UnownedResourceFits
<1>5. Fit(reconcileServerHPA(on), on)
  BY <1>4 DEF reconcileServerHPA, m, compared, o
<1> QED BY <1>5, SingleFits DEF reconcileAutoscalers

(* Ingresses: two of them are never compared (ingress.go). *)
LEMMA IngressesFit ==
  ASSUME NEW on
  PROVE  Fits(reconcileIngresses(on), on)
<1>1. Fit(reconcileArgoServerIngress(on), on)
  <2> DEFINE given == "server.ingress.annotations" \in on
             others == Settings({"class", "rules", "tls"})
             annotated(values) ==
               With(others, IF given THEN Settings({"annotations"}) ELSE values)
             m == annotated(Constants({"annotations"}))
             again == annotated(Absent({"annotations"}))
             r == Resource(Ing("server"), "server.ingress" \in on, m, {})
             s == Updating(r, again)
             fields == {"class", "rules", "tls", "annotations"}
  <2>1. /\ DOMAIN m = fields /\ DOMAIN again = fields
        /\ \A f \in {"class", "rules", "tls"} : again[f] = Current
        /\ given => again["annotations"] = Current
        /\ ~given => again["annotations"] # Current
    BY DEF With, Settings, Constants, Absent, NoValue, Current
  <2>2. /\ DOMAIN s = CallFields /\ s.obj = Ing("server") /\ s.created = m
        /\ s.updated = again /\ s.sparing = {} /\ s.follows = <<>>
        /\ s.unless = {} /\ s.awaits = {} /\ s.logged = FALSE /\ s.owned = TRUE
    BY DEF Updating, Resource, CallFields
  <2> HIDE DEF s, m, again
  <2>3. Compares(s, on)
    BY <2>1, <2>2 DEF Compares, Manifest, With
  <2>4. Fit(s, on)
    BY <2>2, <2>3 DEF Fit, Accounted
  <2> QED BY <2>4 DEF reconcileArgoServerIngress, s, m, again
<1>2. ASSUME NEW name \in {"grpc", "applicationset"}, NEW fields,
             fields \subseteq {"annotations", "rules", "class", "tls"}
      PROVE  \A w : Fit(Resource(Ing(name), w, Settings(fields), {}), on)
  <2>1. \A f \in fields : <<Ing(name), f>> \in OnlyAtCreation(on)
    BY <1>2 DEF OnlyAtCreation
  <2>2. Compared(Ing(name), Settings(fields), {}, on)
    BY <2>1 DEF Compared, Settings
  <2> QED BY <2>2, ResourceFits
<1>3. Fit(reconcileArgoServerGRPCIngress(on), on)
  BY <1>2 DEF reconcileArgoServerGRPCIngress
<1>4. Fit(reconcileApplicationSetControllerIngress(on), on)
  BY <1>2 DEF reconcileApplicationSetControllerIngress
<1>5. Fit(reconcileGrafanaIngress(on), on) /\ Fit(reconcilePrometheusIngress(on), on)
  BY LegacyFits DEF reconcileGrafanaIngress, reconcilePrometheusIngress
<1>6. reconcileIngresses(on)
        \in Seq({reconcileArgoServerIngress(on), reconcileArgoServerGRPCIngress(on),
                 reconcileGrafanaIngress(on), reconcilePrometheusIngress(on),
                 reconcileApplicationSetControllerIngress(on)})
  BY DEF reconcileIngresses
<1> QED BY <1>1, <1>3, <1>4, <1>5, <1>6 DEF Fits

(* Routes (route.go). *)
LEMMA RoutesFit ==
  ASSUME NEW on
  PROVE  Fits(reconcileRoutes(on), on)
<1>1. Fit(reconcileGrafanaRoute(on), on) /\ Fit(reconcilePrometheusRoute(on), on)
  BY LegacyFits DEF reconcileGrafanaRoute, reconcilePrometheusRoute
<1>2. ASSUME NEW r, Fit(r, on), NEW overrides, r.sparing = {}, r.follows = <<>>,
             r.unless = {}, r.awaits = {}
      PROVE  Fit(Overridden(r, overrides, on), on)
  <2> DEFINE fields == {"host", "annotations", "wildcard"}
             s == Overridden(r, overrides, on)
  <2>1. /\ DOMAIN s = CallFields /\ s.obj = r.obj /\ s.sparing = r.sparing
        /\ s.follows = r.follows /\ s.unless = r.unless /\ s.awaits = r.awaits
        /\ s.logged = r.logged /\ s.owned = r.owned
    BY <1>2 DEF Overridden, Fit, CallFields
  <2>2. CASE overrides \in on
    <3>1. /\ s.created = With(r.created, Settings(fields))
          /\ s.updated = With(r.updated, Settings(fields))
      BY <1>2, <2>2 DEF Overridden, Fit, CallFields
    <3> HIDE DEF s, fields
    <3>2. Compares(s, on)
      BY <1>2, <2>1, <3>1 DEF Compares, Fit, Manifest, With, Settings
    <3> QED BY <1>2, <2>1, <3>2 DEF Fit, Accounted, s
  <2>3. CASE overrides \notin on
    <3>1. /\ s.created = With(r.created, Absent(fields))
          /\ s.updated = r.updated
      BY <1>2, <2>3 DEF Overridden, Fit, CallFields
    <3> HIDE DEF s, fields
    <3>2. Compares(s, on)
      BY <1>2, <2>1, <3>1 DEF Compares, Fit, Manifest, With, Absent, NoValue, Current
    <3> QED BY <1>2, <2>1, <3>2 DEF Fit, Accounted, s
  <2> QED BY <2>2, <2>3
<1>3. ASSUME NEW r, Fit(r, on), NEW certificate
      PROVE  Fit(overrideRouteTLS(r, certificate, on), on)
  BY <1>3, ModifiersFit DEF overrideRouteTLS
<1>4. Fit(reconcileServerRoute(on), on)
  <2> DEFINE fields == {"port", "tls", "to", "path"}
             r == Resource(Rt("server"), "server.route" \in on, Settings(fields), fields)
  <2>1. \A w : Fit(Resource(Rt("server"), w, Settings(fields), fields), on)
    BY SettingsFit
  <2>2. Fit(r, on)
    BY <2>1
  <2>3. r.sparing = {} /\ r.follows = <<>> /\ r.unless = {} /\ r.awaits = {}
    BY DEF Resource
  <2> HIDE DEF r
  <2>4. Fit(Overridden(r, "server.route.overrides", on), on)
    BY <1>2, <2>2, <2>3
  <2>5. Fit(overrideRouteTLS(Overridden(r, "server.route.overrides", on),
                             "server.route.certificate", on), on)
    BY <1>3, <2>4
  <2> QED BY <2>5 DEF reconcileServerRoute, r
<1>5. Fit(reconcileApplicationSetControllerWebhookRoute(on), on)
  <2> DEFINE fields == {"port", "tls", "to", "host"}
             r == Resource(Rt("applicationset-webhook"),
                           {"appset", "appset.route"} \subseteq on,
                           Settings(fields), fields)
             route == overrideRouteTLS(r, "appset.route.certificate", on)
  <2>1. \A w : Fit(Resource(Rt("applicationset-webhook"), w, Settings(fields), fields), on)
    BY SettingsFit
  <2>2. Fit(r, on)
    BY <2>1
  <2> HIDE DEF r
  <2>3. Fit(route, on)
    BY <1>3, <2>2
  <2> HIDE DEF route
  <2>4. Fit(FailingIf(route, route.fails \/ ("appset.host" \notin on
                                               /\ "ingress-config" \notin on)), on)
    BY <2>3, ModifiersFit
  <2> QED BY <2>4 DEF reconcileApplicationSetControllerWebhookRoute, route, r
<1>6. reconcileRoutes(on)
        \in Seq({reconcileGrafanaRoute(on), reconcilePrometheusRoute(on),
                 reconcileServerRoute(on),
                 reconcileApplicationSetControllerWebhookRoute(on)})
  BY DEF reconcileRoutes
<1> QED BY <1>1, <1>4, <1>5, <1>6 DEF Fits

(* Monitoring (prometheus.go). *)
LEMMA MonitoringFits ==
  ASSUME NEW on
  PROVE  Fits(reconcileMonitoring(on), on)
<1>1. Fit(reconcilePrometheus(on), on)
  BY LegacyFits DEF reconcilePrometheus
<1>2. Fit(reconcilePrometheusRule(on), on)
  BY ConstantsFit DEF reconcilePrometheusRule
<1>3. \A name : Fit(updateServiceMonitorEndpointIfNeeded(name, on), on)
  BY MixedFits DEF updateServiceMonitorEndpointIfNeeded
<1>4. /\ Fit(reconcileMetricsServiceMonitor(on), on)
      /\ Fit(reconcileRepoServerServiceMonitor(on), on)
      /\ Fit(reconcileServerMetricsServiceMonitor(on), on)
  BY <1>3 DEF reconcileMetricsServiceMonitor, reconcileRepoServerServiceMonitor,
              reconcileServerMetricsServiceMonitor
<1> DEFINE calls == <<reconcilePrometheus(on), reconcilePrometheusRule(on),
                      reconcileMetricsServiceMonitor(on),
                      reconcileRepoServerServiceMonitor(on),
                      reconcileServerMetricsServiceMonitor(on)>>
<1>5. calls \in Seq({reconcilePrometheus(on), reconcilePrometheusRule(on),
                     reconcileMetricsServiceMonitor(on),
                     reconcileRepoServerServiceMonitor(on),
                     reconcileServerMetricsServiceMonitor(on)})
  OBVIOUS
<1> HIDE DEF calls
<1>6. Fits(calls, on)
  BY <1>1, <1>2, <1>4, <1>5 DEF Fits
<1> QED BY <1>6, GuardedFit DEF reconcileMonitoring, calls

(* The ApplicationSet controller (applicationset.go). *)
LEMMA ApplicationSetFits ==
  ASSUME NEW on
  PROVE  Fits(reconcileApplicationSetController(on), on)
<1>1. /\ Fit(reconcileApplicationSetServiceAccount(on), on)
      /\ Fit(reconcileApplicationSetRole(on), on)
      /\ Fit(reconcileApplicationSetRoleBinding(on), on)
      /\ Fit(reconcileApplicationSetService(on), on)
  BY ConstantsFit DEF reconcileApplicationSetServiceAccount, reconcileApplicationSetRole,
                      reconcileApplicationSetRoleBinding, reconcileApplicationSetService
<1>2. Fit(reconcileApplicationSetDeployment(on), on)
  <2>1. \A w, m : Fit(Resource(AppSetObj("Deployment"), w, m, DOMAIN m), on)
    BY AllFit
  <2> QED BY <2>1, ModifiersFit DEF reconcileApplicationSetDeployment
<1>3. Fit(reconcileApplicationSetClusterRole(on), on)
  <2>1. \A w : Fit(Resource(AppSetObj("ClusterRole"), w, Constants({"rules"}), {"rules"}), on)
    BY ConstantsFit
  <2>2. AppSetObj("ClusterRole")[1] \in MappedKinds
    BY DEF AppSetObj, MappedKinds
  <2> QED BY <2>1, <2>2, UnownedResourceFits DEF reconcileApplicationSetClusterRole
<1>4. Fit(reconcileApplicationSetClusterRoleBinding(on), on)
  <2>1. \A w : Fit(Resource(AppSetObj("ClusterRoleBinding"), w, Constants({"subjects"}),
                            {"subjects"}), on)
    BY ConstantsFit
  <2>2. AppSetObj("ClusterRoleBinding")[1] \in MappedKinds
    BY DEF AppSetObj, MappedKinds
  <2> QED BY <2>1, <2>2, UnownedResourceFits DEF reconcileApplicationSetClusterRoleBinding
<1>5. reconcileApplicationSetController(on)
        \in Seq({reconcileApplicationSetServiceAccount(on), reconcileApplicationSetRole(on),
                 reconcileApplicationSetRoleBinding(on),
                 reconcileApplicationSetDeployment(on),
                 reconcileApplicationSetService(on), reconcileApplicationSetClusterRole(on),
                 reconcileApplicationSetClusterRoleBinding(on)})
  BY DEF reconcileApplicationSetController
<1> QED BY <1>1, <1>2, <1>3, <1>4, <1>5 DEF Fits

(* The notifications controller (notifications.go). *)
LEMMA NotificationsFit ==
  ASSUME NEW on
  PROVE  Fits(reconcileNotificationsController(on), on)
<1>1. /\ Fit(reconcileNotificationsServiceAccount(on), on)
      /\ Fit(reconcileNotificationsRole(on), on)
      /\ Fit(reconcileNotificationsRoleBinding(on), on)
      /\ Fit(reconcileNotificationsSecret(on), on)
      /\ Fit(reconcileNotificationsMetricsService(on), on)
  <2>1. \A o, w : /\ Fit(Resource(o, w, Constants({"owner"}), {}), on)
                  /\ Fit(Resource(o, w, Constants({"selector", "ports"}), {}), on)
                  /\ Fit(Resource(o, w, Constants({"rules"}), {"rules"}), on)
                  /\ Fit(Resource(o, w, Constants({"subjects"}), {"subjects"}), on)
    BY ConstantsFit
  <2> QED BY <2>1 DEF reconcileNotificationsServiceAccount, reconcileNotificationsRole,
            reconcileNotificationsRoleBinding, reconcileNotificationsSecret,
            reconcileNotificationsMetricsService
<1>2. Fit(reconcileNotificationsClusterRole(on), on)
  <2>1. \A w : Fit(Resource(NotifObj("ClusterRole"), w, Constants({"rules"}), {"rules"}), on)
    BY ConstantsFit
  <2>2. NotifObj("ClusterRole")[1] \in MappedKinds
    BY DEF NotifObj, MappedKinds
  <2> QED BY <2>1, <2>2, UnownedResourceFits DEF reconcileNotificationsClusterRole
<1>3. Fit(reconcileNotificationsClusterRoleBinding(on), on)
  <2>1. \A w : Fit(Resource(NotifObj("ClusterRoleBinding"), w, Constants({"subjects"}),
                            {"subjects"}), on)
    BY ConstantsFit
  <2>2. NotifObj("ClusterRoleBinding")[1] \in MappedKinds
    BY DEF NotifObj, MappedKinds
  <2> QED BY <2>1, <2>2, UnownedResourceFits DEF reconcileNotificationsClusterRoleBinding
<1>4. Fit(reconcileNotificationsConfigurationCR(on), on)
  <2> DEFINE o == <<"NotificationsConfiguration", "default">>
  <2>1. \A w : Fit(Resource(o, w, Constants({"spec"}), {}), on)
    BY ConstantsFit
  <2>2. o \in LeftBehind
    BY DEF LeftBehind
  <2> HIDE DEF o
  <2>3. \A w : Fit(Unowned(Resource(o, w, Constants({"spec"}), {})), on)
    BY <2>1, <2>2, UnownedResourceFits
  <2> QED BY <2>3 DEF reconcileNotificationsConfigurationCR, o
<1>5. Fit(reconcileNotificationsDeployment(on), on)
  <2> DEFINE overwritten == With(Settings({"command", "image", "env", "resources"}),
                                 Constants({"volumes", "security", "serviceAccount"}))
             fromLive == With(Settings({"placement"}),
                              Constants({"labels", "selector", "replicas"}))
             m == With(overwritten, fromLive)
  <2>1. /\ DOMAIN fromLive = {"placement", "labels", "selector", "replicas"}
        /\ \A f \in DOMAIN fromLive : fromLive[f] = Current => f = "placement"
    BY DEF With, Settings, Constants, Fixed, Current
  <2> HIDE DEF overwritten, fromLive
  <2>2. <<NotifObj("Deployment"), "placement">> \in OnlyAtCreation(on)
    BY DEF OnlyAtCreation
  <2>3. Compared(NotifObj("Deployment"), m, DOMAIN overwritten, on)
    BY <2>1, <2>2 DEF Compared, With
  <2>4. \A w : Fit(reconcileDeploymentHelper(NotifObj("Deployment"), w, overwritten,
                                             fromLive), on)
    BY <2>3, ResourceFits DEF reconcileDeploymentHelper
  <2>5. \A w, objs : Fit(Needing(reconcileDeploymentHelper(NotifObj("Deployment"), w,
                                                           overwritten, fromLive), objs), on)
    BY <2>4, ModifiersFit
  <2> QED BY <2>5 DEF reconcileNotificationsDeployment, overwritten, fromLive
<1>6. Fit(reconcileNotificationsServiceMonitor(on), on)
  <2> DEFINE o == <<"ServiceMonitor", "notifications-controller-metrics">>
             m == With(Constants({"selector"}), Settings({"endpoints"}))
  <2>1. Compared(o, m, {"endpoints"}, on)
    BY DEF Compared, With, Constants, Settings, Fixed, Current
  <2>2. o \in LeftBehind
    BY DEF LeftBehind
  <2> HIDE DEF o, m
  <2>3. \A w : Fit(Resource(o, w, m, {"endpoints"}), on)
    BY <2>1, ResourceFits
  <2>4. \A w : Fit(Unowned(Resource(o, w, m, {"endpoints"})), on)
    BY <2>2, <2>3, UnownedResourceFits
  <2>5. \A w, c : Fit(OnlyIf(Unowned(Resource(o, w, m, {"endpoints"})), c), on)
    BY <2>4, ModifiersFit
  <2> QED BY <2>5 DEF reconcileNotificationsServiceMonitor, o, m
<1> DEFINE calls ==
             <<reconcileNotificationsServiceAccount(on), reconcileNotificationsRole(on),
               reconcileNotificationsRoleBinding(on), reconcileNotificationsClusterRole(on),
               reconcileNotificationsClusterRoleBinding(on),
               reconcileNotificationsConfigurationCR(on), reconcileNotificationsSecret(on),
               reconcileNotificationsDeployment(on),
               reconcileNotificationsMetricsService(on),
               reconcileNotificationsServiceMonitor(on)>>
<1>7. calls \in
        Seq({reconcileNotificationsServiceAccount(on), reconcileNotificationsRole(on),
             reconcileNotificationsRoleBinding(on), reconcileNotificationsClusterRole(on),
             reconcileNotificationsClusterRoleBinding(on),
             reconcileNotificationsConfigurationCR(on), reconcileNotificationsSecret(on),
             reconcileNotificationsDeployment(on),
             reconcileNotificationsMetricsService(on),
             reconcileNotificationsServiceMonitor(on)})
  OBVIOUS
<1> HIDE DEF calls
<1>8. Fits(calls, on)
  BY <1>1, <1>2, <1>3, <1>4, <1>5, <1>6, <1>7 DEF Fits
<1>9. \A c : Fits(Guarded(calls, c), on)
  BY <1>8, GuardedFit
<1> QED BY <1>9 DEF reconcileNotificationsController, calls

(* Network policies (networkpolicies.go). *)
LEMMA NetworkPoliciesFit ==
  ASSUME NEW on
  PROVE  Fits(ReconcileNetworkPolicies(on), on)
<1>1. \A name, w : Fit(Policed(name, w), on)
  BY AllFit DEF Policed
<1>2. Fit(reconcileImageUpdaterNetworkPolicy(on), on)
  <2>1. \A w, c : Fit(OnlyIf(Policed("image-updater", w), c), on)
    BY <1>1, ModifiersFit
  <2> QED BY <2>1 DEF reconcileImageUpdaterNetworkPolicy
<1>3. Fit(ReconcileRedisNetworkPolicy(on), on)
  <2>1. \A w, m : Fit(Resource(Policy("redis"), w, m, DOMAIN m), on)
    BY AllFit
  <2> QED BY <2>1 DEF ReconcileRedisNetworkPolicy
<1>4. Fit(ReconcileRedisHANetworkPolicy(on), on)
  BY <1>1 DEF ReconcileRedisHANetworkPolicy
<1> DEFINE first == <<reconcileImageUpdaterNetworkPolicy(on), ReconcileRedisNetworkPolicy(on),
                      ReconcileRedisHANetworkPolicy(on)>>
           policies == <<ReconcileNotificationsControllerNetworkPolicy(on),
                         ReconcileDexServerNetworkPolicy(on),
                         ReconcileApplicationSetControllerNetworkPolicy(on),
                         ReconcileArgoCDServerNetworkPolicy(on),
                         ReconcileArgoCDApplicationControllerNetworkPolicy(on),
                         ReconcileArgoCDRepoServerNetworkPolicy(on)>>
<1>5. first \in Seq({reconcileImageUpdaterNetworkPolicy(on), ReconcileRedisNetworkPolicy(on),
                     ReconcileRedisHANetworkPolicy(on)})
  OBVIOUS
<1>6. policies \in Seq({ReconcileNotificationsControllerNetworkPolicy(on),
                        ReconcileDexServerNetworkPolicy(on),
                        ReconcileApplicationSetControllerNetworkPolicy(on),
                        ReconcileArgoCDServerNetworkPolicy(on),
                        ReconcileArgoCDApplicationControllerNetworkPolicy(on),
                        ReconcileArgoCDRepoServerNetworkPolicy(on)})
  OBVIOUS
<1> HIDE DEF first, policies
<1>7. Fits(first, on)
  BY <1>2, <1>3, <1>4, <1>5 DEF Fits
<1>8. Fits(policies, on)
  <2>1. /\ Fit(ReconcileNotificationsControllerNetworkPolicy(on), on)
        /\ Fit(ReconcileDexServerNetworkPolicy(on), on)
        /\ Fit(ReconcileApplicationSetControllerNetworkPolicy(on), on)
        /\ Fit(ReconcileArgoCDServerNetworkPolicy(on), on)
        /\ Fit(ReconcileArgoCDApplicationControllerNetworkPolicy(on), on)
        /\ Fit(ReconcileArgoCDRepoServerNetworkPolicy(on), on)
    BY <1>1 DEF ReconcileNotificationsControllerNetworkPolicy,
         ReconcileDexServerNetworkPolicy, ReconcileApplicationSetControllerNetworkPolicy,
         ReconcileArgoCDServerNetworkPolicy,
         ReconcileArgoCDApplicationControllerNetworkPolicy,
         ReconcileArgoCDRepoServerNetworkPolicy
  <2> QED BY <1>6, <2>1 DEF Fits
<1>9. Fits(deleteArgoCDNetworkPolicies(on), on)
  <2> DEFINE s == deleteArgoCDNetworkPolicies(on)
             names == <<"notifications-controller", "dex-server",
                        "applicationset-controller", "server", "application-controller",
                        "repo-server", "image-updater">>
  <2>1. DOMAIN names = 1..7
    OBVIOUS
  <2> HIDE DEF names
  <2>2. s = [i \in 1..7 |-> Legacy(Policy(names[i]), TRUE)]
    BY <2>1 DEF deleteArgoCDNetworkPolicies, names
  <2>3. \A o, c : Fit(Legacy(o, c), on)
    BY LegacyFits
  <2> HIDE DEF s
  <2>4. s = [i \in 1..7 |-> s[i]] /\ \A i \in 1..7 : Fit(s[i], on)
    BY <2>2, <2>3
  <2>5. Fits(s, on)
    BY <2>4, FunctionFits
  <2> QED BY <2>5 DEF s
<1>10. Fits(first \o (IF PoliciesEnabled(on) THEN policies
                      ELSE deleteArgoCDNetworkPolicies(on)), on)
  BY <1>7, <1>8, <1>9, JoinedFit
<1> QED BY <1>10 DEF ReconcileNetworkPolicies, first, policies

(* The image updater (imageupdater.go). *)
LEMMA ImageUpdaterFits ==
  ASSUME NEW on
  PROVE  /\ Fits(reconcileImageUpdaterController(on), on)
         /\ Starts(reconcileImageUpdaterServiceAccount(on),
                   reconcileImageUpdaterControllerEnabled(on), on)
<1>1. \A o, w : Fit(Resource(o, w, Constants({"owner"}), {}), on)
  BY ConstantsFit
<1>2. Fit(reconcileImageUpdaterServiceAccount(on), on)
  BY <1>1 DEF reconcileImageUpdaterServiceAccount
<1>3. ASSUME NEW o, NEW rules, rules # Current
      PROVE  \A w : Fit(reconcileRoleHelper(o, w, rules), on)
  BY <1>3, NoSettingsFit DEF reconcileRoleHelper
<1>4. \A o, w : Fit(reconcileRoleBindingHelper(o, w), on)
  BY ConstantsFit DEF reconcileRoleBindingHelper
<1>5. Fit(reconcileImageUpdaterRole(on), on)
  <2>1. \A w : /\ Fit(reconcileRoleHelper(UpdaterObj("Role"), w, "base"), on)
               /\ Fit(reconcileRoleHelper(UpdaterObj("Role"), w, "all"), on)
    BY <1>3 DEF Current
  <2> QED BY <2>1 DEF reconcileImageUpdaterRole
<1>6. Fit(reconcileImageUpdaterRoleBinding(on), on)
  BY <1>4 DEF reconcileImageUpdaterRoleBinding
<1>7. ASSUME NEW o, o[1] \in MappedKinds \/ o \in LeftBehind
      PROVE  \A w : /\ Fit(Unowned(reconcileRoleHelper(o, w, "manager")), on)
                    /\ Fit(Unowned(reconcileRoleBindingHelper(o, w)), on)
  <2>1. \A w : /\ Fit(reconcileRoleHelper(o, w, "manager"), on)
               /\ Fit(reconcileRoleBindingHelper(o, w), on)
    BY <1>3, <1>4 DEF Current
  <2> QED BY <1>7, <2>1, UnownedResourceFits DEF reconcileRoleHelper, reconcileRoleBindingHelper
<1>8. /\ Fit(reconcileImageUpdaterClusterRole(on), on)
      /\ Fit(reconcileImageUpdaterClusterRoleBinding(on), on)
  <2>1. /\ UpdaterObj("ClusterRole")[1] \in MappedKinds
        /\ UpdaterObj("ClusterRoleBinding")[1] \in MappedKinds
    BY DEF UpdaterObj, MappedKinds
  <2> QED BY <1>7, <2>1 DEF reconcileImageUpdaterClusterRole,
                            reconcileImageUpdaterClusterRoleBinding
<1>9. /\ Fit(reconcileImageUpdaterRoleForNamespace(on), on)
      /\ Fit(reconcileImageUpdaterRoleBindingForNamespace(on), on)
  <2> DEFINE role == <<"Role", "image-updater", "watched">>
             binding == <<"RoleBinding", "image-updater", "watched">>
  <2>1. role \in LeftBehind /\ binding \in LeftBehind
    BY DEF LeftBehind
  <2> HIDE DEF role, binding
  <2>2. \A w : /\ Fit(Unowned(reconcileRoleHelper(role, w, "manager")), on)
               /\ Fit(Unowned(reconcileRoleBindingHelper(binding, w)), on)
    BY <1>7, <2>1
  <2> QED BY <2>2 DEF reconcileImageUpdaterRoleForNamespace,
                      reconcileImageUpdaterRoleBindingForNamespace, role, binding
<1>10. \A o, c : Fit(Legacy(o, c), on)
  BY LegacyFits
<1>11. Fits(deleteImageUpdaterClusterRBAC(on), on)
  <2>1. Fits(<<Legacy(UpdaterObj("ClusterRole"), TRUE),
               Legacy(UpdaterObj("ClusterRoleBinding"), TRUE)>>, on)
    BY <1>10, TwoFit
  <2>2. \A c : Fits(Guarded(<<Legacy(UpdaterObj("ClusterRole"), TRUE),
                       Legacy(UpdaterObj("ClusterRoleBinding"), TRUE)>>, c), on)
    BY <2>1, GuardedFit, Zenon
  <2> QED BY <2>2, Zenon DEF deleteImageUpdaterClusterRBAC
<1>12. Fits(pruneImageUpdaterNamespaceRBAC(on), on)
  <2>1. Fits(<<Legacy(<<"Role", "image-updater", "watched">>, TRUE),
               Legacy(<<"RoleBinding", "image-updater", "watched">>, TRUE)>>, on)
    BY <1>10, TwoFit
  <2>2. \A c : Fits(Guarded(<<Legacy(<<"Role", "image-updater", "watched">>, TRUE),
                       Legacy(<<"RoleBinding", "image-updater", "watched">>, TRUE)>>, c), on)
    BY <2>1, GuardedFit, Zenon
  <2> QED BY <2>2, Zenon DEF pruneImageUpdaterNamespaceRBAC
<1>13. Fits(ConfigOf(on), on)
  <2>1. /\ Fit(reconcileImageUpdaterSecret(on), on)
        /\ \A name : Fit(reconcileImageUpdaterConfigMap(name, on), on)
    BY <1>1 DEF reconcileImageUpdaterSecret, reconcileImageUpdaterConfigMap,
                reconcileSecretConfigMapHelper
  <2>2. ConfigOf(on)
          \in Seq({reconcileImageUpdaterSecret(on),
                   reconcileImageUpdaterConfigMap("argocd-image-updater-config", on),
                   reconcileImageUpdaterConfigMap("argocd-image-updater-ssh-config", on)})
    BY DEF ConfigOf
  <2> QED BY <2>1, <2>2 DEF Fits
<1>14. Fit(reconcileImageUpdaterDeployment(on), on)
  <2>1. \A w : Fit(Resource(UpdaterObj("Deployment"), w, UpdaterManifest,
                            DOMAIN UpdaterManifest \ {"strategy", "probe"}), on)
    BY SkippingFits DEF UpdaterManifest
  <2>2. \A w, objs :
          Fit(Needing(Resource(UpdaterObj("Deployment"), w, UpdaterManifest,
                               DOMAIN UpdaterManifest \ {"strategy", "probe"}), objs), on)
    BY <2>1, ModifiersFit
  <2> QED BY <2>2, ModifiersFit DEF reconcileImageUpdaterDeployment
<1>15. Starts(reconcileImageUpdaterServiceAccount(on),
              reconcileImageUpdaterControllerEnabled(on), on)
  <2> DEFINE first == reconcileImageUpdaterServiceAccount(on)
             account == <<reconcileImageUpdaterServiceAccount(on)>>
             check == Refused("image-updater", WatchesAll(on) /\ "cluster-scoped" \notin on)
             roles == <<check, reconcileImageUpdaterRole(on),
                        reconcileImageUpdaterRoleBinding(on)>>
             wide == Guarded(<<reconcileImageUpdaterClusterRole(on),
                               reconcileImageUpdaterClusterRoleBinding(on)>>, WatchesAll(on))
             watched == Guarded(<<reconcileImageUpdaterRoleForNamespace(on),
                                  reconcileImageUpdaterRoleBindingForNamespace(on)>>,
                                WatchesList(on))
             last == <<reconcileImageUpdaterDeployment(on)>>
  <2>1. Starts(first, account, on) /\ Fits(last, on)
    <3>1. Fits(account, on) /\ Fits(last, on)
      BY <1>2, <1>14, SingleFits
    <3> QED BY <3>1 DEF Starts
  <2>2. Fits(roles, on)
    <3>1. Fit(check, on)
      BY RefusedFits
    <3> HIDE DEF check
    <3>2. roles \in Seq({check, reconcileImageUpdaterRole(on),
                         reconcileImageUpdaterRoleBinding(on)})
      OBVIOUS
    <3> HIDE DEF roles
    <3>3. Fits(roles, on)
      BY <1>5, <1>6, <3>1, <3>2 DEF Fits
    <3> QED BY <3>3
  <2>3. Fits(wide, on) /\ Fits(watched, on)
    BY <1>8, <1>9, TwoFit, GuardedFit
  <2> HIDE DEF first, account, roles, wide, watched, last
  <2>4. Starts(first, account \o deleteImageUpdaterClusterRBAC(on) \o roles, on)
    BY <1>11, <2>1, <2>2, StartsJoined
  <2>5. Starts(first, account \o deleteImageUpdaterClusterRBAC(on) \o roles \o wide
                        \o watched, on)
    BY <2>3, <2>4, StartsJoined
  <2>6. Starts(first, account \o deleteImageUpdaterClusterRBAC(on) \o roles \o wide
                        \o watched \o pruneImageUpdaterNamespaceRBAC(on) \o ConfigOf(on)
                        \o last, on)
    BY <1>12, <1>13, <2>1, <2>5, StartsJoined
  <2> QED BY <2>6, Zenon DEF reconcileImageUpdaterControllerEnabled, first, account, roles, check,
                      wide, watched, last
<1>16. Fits(reconcileImageUpdaterControllerDisabled(on), on)
  <2> DEFINE policy == Legacy(<<"NetworkPolicy", "image-updater">>, TRUE)
             calls == <<policy,
               reconcileImageUpdaterDeployment(on), reconcileImageUpdaterRoleBinding(on),
               reconcileImageUpdaterClusterRoleBinding(on),
               reconcileImageUpdaterServiceAccount(on),
               reconcileImageUpdaterRole(on), reconcileImageUpdaterClusterRole(on)>>
  <2>1. Fit(policy, on)
    BY <1>10
  <2> HIDE DEF policy
  <2>2. calls \in Seq({policy,
               reconcileImageUpdaterDeployment(on), reconcileImageUpdaterRoleBinding(on),
               reconcileImageUpdaterClusterRoleBinding(on),
               reconcileImageUpdaterServiceAccount(on),
               reconcileImageUpdaterRole(on), reconcileImageUpdaterClusterRole(on)})
    OBVIOUS
  <2> HIDE DEF calls
  <2>3. Fits(calls, on)
    BY <1>2, <1>5, <1>6, <1>8, <1>14, <2>1, <2>2 DEF Fits
  <2>4. Fits(calls \o pruneImageUpdaterNamespaceRBAC(on) \o ConfigOf(on), on)
    BY <1>12, <1>13, <2>3, JoinedFit
  <2> QED BY <2>4, Zenon DEF reconcileImageUpdaterControllerDisabled, calls, policy
<1>17. Fits(reconcileImageUpdaterControllerEnabled(on), on)
  BY <1>15 DEF Starts
<1> QED BY <1>15, <1>16, <1>17, GuardedFit DEF reconcileImageUpdaterController

(* The principal and the agent (controllers/argocdagent). *)
LEMMA AgentFits ==
  ASSUME NEW on
  PROVE  Fits(reconcileArgoCDAgent(on), on)
<1>1. \A side, w : Fit(ServiceAccountOf(side, w), on)
  BY ConstantsFit DEF ServiceAccountOf
<1>2. \A side, w : Fit(RoleOf(side, w, on), on)
  BY ConstantsFit DEF RoleOf
<1>3. ASSUME NEW side, NEW w, NEW rules, DOMAIN rules = {"rules"}
      PROVE  Fit(ClusterRoleOf(side, w, rules, on), on)
  <2> DEFINE o == <<"ClusterRole", side>>
  <2>1. Fit(Resource(o, ClusterWide(w, on), rules, {"rules"}), on)
    BY <1>3, AllFit
  <2>2. o[1] \in MappedKinds
    BY DEF MappedKinds
  <2> HIDE DEF o
  <2>3. Fit(Unowned(Resource(o, ClusterWide(w, on), rules, {"rules"})), on)
    BY <2>1, <2>2, UnownedResourceFits
  <2> QED BY <2>3 DEF ClusterRoleOf, o
<1>4. ASSUME NEW side, NEW w PROVE Fit(RoleBindingOf(side, w, on), on)
  <2>1. \A m : Fit(Resource(<<"RoleBinding", side>>, w, m, DOMAIN m), on)
    BY AllFit
  <2> QED BY <2>1, ModifiersFit DEF RoleBindingOf
<1>5. ASSUME NEW side, NEW w PROVE Fit(ClusterRoleBindingOf(side, w, on), on)
  <2> DEFINE o == <<"ClusterRoleBinding", side>>
             fields == {"subjects", "roleRef"}
  <2>1. Fit(Resource(o, ClusterWide(w, on), Constants(fields), fields), on)
    BY ConstantsFit
  <2>2. o[1] \in MappedKinds
    BY DEF MappedKinds
  <2> HIDE DEF o
  <2>3. Fit(Unowned(Resource(o, ClusterWide(w, on), Constants(fields), fields)), on)
    BY <2>1, <2>2, UnownedResourceFits
  <2> QED BY <2>3 DEF ClusterRoleBindingOf, o
<1>6. \A side, name, w : Fit(ServiceOf(side, name, w), on)
  BY AllFit DEF ServiceOf
<1>7. ASSUME NEW side, NEW w PROVE Fit(ServiceMonitorOf(side, w, on), on)
  <2>1. \A v, m : Fit(Resource(<<"ServiceMonitor", side, "metrics">>, v, m, DOMAIN m), on)
    BY AllFit
  <2> QED BY <2>1, ModifiersFit DEF ServiceMonitorOf
<1>8. DOMAIN Constants({"rules"}) = {"rules"} /\ DOMAIN Settings({"rules"}) = {"rules"}
  BY DEF Constants, Settings
<1>9. /\ Fit(ReconcilePrincipalServiceAccount(on), on)
      /\ Fit(ReconcilePrincipalRole(on), on)
      /\ Fit(ReconcilePrincipalClusterRoles(on), on)
      /\ Fit(ReconcilePrincipalRoleBinding(on), on)
      /\ Fit(ReconcilePrincipalClusterRoleBinding(on), on)
      /\ Fit(ReconcilePrincipalMetricsService(on), on)
      /\ Fit(ReconcilePrincipalServiceMonitor(on), on)
      /\ Fit(ReconcilePrincipalRedisProxyService(on), on)
      /\ Fit(ReconcilePrincipalResourceProxyService(on), on)
      /\ Fit(ReconcilePrincipalHealthzService(on), on)
  BY <1>1, <1>2, <1>3, <1>4, <1>5, <1>6, <1>7, <1>8
     DEF ReconcilePrincipalServiceAccount, ReconcilePrincipalRole,
         ReconcilePrincipalClusterRoles, ReconcilePrincipalRoleBinding,
         ReconcilePrincipalClusterRoleBinding, ReconcilePrincipalMetricsService,
         ReconcilePrincipalServiceMonitor, ReconcilePrincipalRedisProxyService,
         ReconcilePrincipalResourceProxyService, ReconcilePrincipalHealthzService
<1>10. Fit(ReconcilePrincipalService(on), on)
  <2>1. \A w, m : Fit(Resource(<<"Service", Principal>>, w, m, DOMAIN m), on)
    BY AllFit
  <2> QED BY <2>1 DEF ReconcilePrincipalService
<1>11. Fit(ReconcilePrincipalNetworkPolicy(on), on)
  BY ConstantsFit DEF ReconcilePrincipalNetworkPolicy
<1>12. Fit(ReconcilePrincipalRoute(on), on)
  <2>1. \A w : Fit(Resource(<<"Route", Principal>>, w, Constants({"port", "to", "tls"}),
                            {"port", "to", "tls"}), on)
    BY ConstantsFit
  <2> QED BY <2>1, ModifiersFit DEF ReconcilePrincipalRoute
<1>13. Fit(ReconcilePrincipalDeployment(on), on)
  <2>1. \A w : Fit(Resource(<<"Deployment", Principal>>, w, PrincipalSpec,
                            DOMAIN PrincipalSpec), on)
    BY AllFit
  <2>2. \A w, objs : Fit(Needing(Resource(<<"Deployment", Principal>>, w, PrincipalSpec,
                                          DOMAIN PrincipalSpec), objs), on)
    BY <2>1, ModifiersFit
  <2> QED BY <2>2, ModifiersFit DEF ReconcilePrincipalDeployment
<1>14. /\ Fit(ReconcileAgentServiceAccount(on), on)
       /\ Fit(ReconcileAgentRole(on), on)
       /\ Fit(ReconcileAgentClusterRoles(on), on)
       /\ Fit(ReconcileAgentRoleBinding(on), on)
       /\ Fit(ReconcileAgentClusterRoleBinding(on), on)
       /\ Fit(ReconcileAgentMetricsService(on), on)
       /\ Fit(ReconcileAgentServiceMonitor(on), on)
       /\ Fit(ReconcileAgentHealthzService(on), on)
  BY <1>1, <1>2, <1>3, <1>4, <1>5, <1>6, <1>7, <1>8
     DEF ReconcileAgentServiceAccount, ReconcileAgentRole,
         ReconcileAgentClusterRoles, ReconcileAgentRoleBinding,
         ReconcileAgentClusterRoleBinding, ReconcileAgentMetricsService,
         ReconcileAgentServiceMonitor, ReconcileAgentHealthzService
<1>15. Fit(ReconcileAgentDeployment(on), on)
  <2> DEFINE o == <<"Deployment", AgentSide>>
             compared == DOMAIN AgentSpec \ {"pullPolicy"}
  <2>1. "pullPolicy" \in DOMAIN AgentSpec /\ AgentSpec["pullPolicy"] # Current
    BY DEF AgentSpec, With, Constants, Fixed, Current
  <2>2. Compared(o, AgentSpec, compared, on)
    BY <2>1 DEF Compared
  <2> HIDE DEF o, compared
  <2>3. \A w : Fit(Resource(o, w, AgentSpec, compared), on)
    BY <2>2, ResourceFits
  <2>4. \A w, objs : Fit(Needing(Resource(o, w, AgentSpec, compared), objs), on)
    BY <2>3, ModifiersFit
  <2> QED BY <2>4, ModifiersFit DEF ReconcileAgentDeployment, o, compared
<1>16. Fit(Refused("agent", AgentConflict(on)), on)
  BY RefusedFits
<1>17. reconcileArgoCDAgent(on)
         \in Seq({Refused("agent", AgentConflict(on)),
    ReconcilePrincipalServiceAccount(on), ReconcilePrincipalRole(on),
    ReconcilePrincipalClusterRoles(on), ReconcilePrincipalRoleBinding(on),
    ReconcilePrincipalClusterRoleBinding(on), ReconcilePrincipalService(on),
    ReconcilePrincipalMetricsService(on), ReconcilePrincipalServiceMonitor(on),
    ReconcilePrincipalRedisProxyService(on),
    ReconcilePrincipalResourceProxyService(on),
    ReconcilePrincipalHealthzService(on), ReconcilePrincipalNetworkPolicy(on),
    ReconcilePrincipalRoute(on), ReconcilePrincipalDeployment(on),
    ReconcileAgentServiceAccount(on), ReconcileAgentRole(on),
    ReconcileAgentClusterRoles(on), ReconcileAgentRoleBinding(on),
    ReconcileAgentClusterRoleBinding(on), ReconcileAgentMetricsService(on),
    ReconcileAgentServiceMonitor(on), ReconcileAgentHealthzService(on),
    ReconcileAgentDeployment(on)})
  BY DEF reconcileArgoCDAgent
<1> QED BY <1>9, <1>10, <1>11, <1>12, <1>13, <1>14, <1>15, <1>16, <1>17 DEF Fits

(* Every call of reconcileResources, whatever the options and the facts. *)
LEMMA PlanFits ==
  ASSUME NEW on
  PROVE  Fits(reconcileResources(on), on)
<1>1. Fits(reconcileArgoConfigMap(on), on) /\ Fits(reconcileConfigMaps(on), on)
  BY ConfigMapsFit
<1>2. /\ Fits(reconcileSSO(reconcileArgoConfigMap(on), on), on)
      /\ Fit(Logged(reconcileDexService(on)), on)
      /\ Fit(Logged(reconcileDexDeployment(on)), on)
  BY <1>1, DexFits
<1> DEFINE early == reconcileSSO(reconcileArgoConfigMap(on), on)
                      \o reconcileRoles(on)
                      \o reconcileRoleBindings(on)
                      \o reconcileServiceAccounts(on)
                      \o reconcileCertificateAuthority(on)
                      \o reconcileSecrets(on)
                      \o reconcileConfigMaps(on)
           services == reconcileServices(Logged(reconcileDexService(on)), on)
           deployments == reconcileDeployments(Logged(reconcileDexDeployment(on)), on)
           routes == Guarded(reconcileRoutes(on), RouteAPI(on))
<1>3. Fits(early, on)
  BY <1>1, <1>2, AccessFits, SecretsFit, JoinedFit
<1>4. Fits(services, on) /\ Fits(deployments, on)
  BY <1>2, ServicesFit, DeploymentsFit
<1>5. Fits(routes, on)
  BY RoutesFit, GuardedFit
<1> HIDE DEF early, services, deployments, routes
<1>6. Fits(early \o services \o deployments \o reconcileStatefulSets(on)
             \o reconcileAutoscalers(on) \o reconcileIngresses(on) \o routes, on)
  BY <1>3, <1>4, <1>5, StatefulSetsFit, AutoscalersFit, IngressesFit, JoinedFit
<1>7. Fits(early \o services \o deployments \o reconcileStatefulSets(on)
             \o reconcileAutoscalers(on) \o reconcileIngresses(on) \o routes
             \o reconcileMonitoring(on)
             \o reconcileApplicationSetController(on)
             \o reconcileNotificationsController(on)
             \o reconcileImageUpdaterController(on)
             \o ReconcileNetworkPolicies(on)
             \o reconcileArgoCDAgent(on), on)
  BY <1>6, MonitoringFits, ApplicationSetFits, NotificationsFit, ImageUpdaterFits,
     NetworkPoliciesFit, AgentFits, JoinedFit
<1> QED BY <1>7, Zenon DEF reconcileResources, early, services, deployments, routes
-----------------------------------------------------------------------------
(* Which calls are in the plan. *)
LEMMA JoinedMembers ==
  ASSUME NEW on, NEW s, NEW t, Fits(s, on), Fits(t, on)
  PROVE  Members(s) \cup Members(t) \subseteq Members(s \o t)
<1>1. PICK S : s \in Seq(S)
  BY DEF Fits
<1>2. PICK T : t \in Seq(T)
  BY DEF Fits
<1>3. /\ DOMAIN s = 1..Len(s) /\ Len(s) \in Nat /\ DOMAIN t = 1..Len(t) /\ Len(t) \in Nat
      /\ DOMAIN (s \o t) = 1..(Len(s) + Len(t))
      /\ \A i \in 1..Len(s) : (s \o t)[i] = s[i]
      /\ \A i \in 1..Len(t) : (s \o t)[Len(s) + i] = t[i]
  BY <1>1, <1>2
<1>4. Members(s) \subseteq Members(s \o t)
  <2>1. SUFFICES ASSUME NEW i \in DOMAIN s PROVE s[i] \in Members(s \o t)
    BY DEF Members
  <2>2. i \in DOMAIN (s \o t) /\ (s \o t)[i] = s[i]
    BY <1>3
  <2> QED BY <2>2 DEF Members
<1>5. Members(t) \subseteq Members(s \o t)
  <2>1. SUFFICES ASSUME NEW i \in DOMAIN t PROVE t[i] \in Members(s \o t)
    BY DEF Members
  <2>2. Len(s) + i \in DOMAIN (s \o t) /\ (s \o t)[Len(s) + i] = t[i]
    BY <1>3
  <2> QED BY <2>2 DEF Members
<1> QED BY <1>4, <1>5

(* A call among others that fit. *)
Among(r, calls, on) == Fits(calls, on) /\ r \in Members(calls)

(* A call stays among the calls if more are joined to them.                *)
LEMMA AmongJoined ==
  ASSUME NEW on, NEW r, NEW s, NEW t
  PROVE  /\ Among(r, s, on) /\ Fits(t, on) => Among(r, s \o t, on)
         /\ Fits(s, on) /\ Among(r, t, on) => Among(r, s \o t, on)
BY JoinedFit, JoinedMembers DEF Among

(* The Secrets are looked after whatever the options and the facts. *)
LEMMA SecretsPlanned ==
  ASSUME NEW on, NEW r \in Members(reconcileSecrets(on))
  PROVE  r \in Members(reconcileResources(on))
<1>1. Fits(reconcileArgoConfigMap(on), on) /\ Fits(reconcileConfigMaps(on), on)
  BY ConfigMapsFit
<1>2. /\ Fits(reconcileSSO(reconcileArgoConfigMap(on), on), on)
      /\ Fit(Logged(reconcileDexService(on)), on)
      /\ Fit(Logged(reconcileDexDeployment(on)), on)
  BY <1>1, DexFits
<1> DEFINE early == reconcileSSO(reconcileArgoConfigMap(on), on)
                      \o reconcileRoles(on)
                      \o reconcileRoleBindings(on)
                      \o reconcileServiceAccounts(on)
                      \o reconcileCertificateAuthority(on)
           services == reconcileServices(Logged(reconcileDexService(on)), on)
           deployments == reconcileDeployments(Logged(reconcileDexDeployment(on)), on)
           routes == Guarded(reconcileRoutes(on), RouteAPI(on))
<1>3. Fits(early, on)
  BY <1>2, AccessFits, SecretsFit, JoinedFit
<1>4. Fits(services, on) /\ Fits(deployments, on)
  BY <1>2, ServicesFit, DeploymentsFit
<1>5. Fits(routes, on)
  BY RoutesFit, GuardedFit
<1> HIDE DEF early, services, deployments, routes
<1>6. Among(r, early \o reconcileSecrets(on), on)
  BY <1>3, SecretsFit, AmongJoined DEF Among
<1>7. Among(r, early \o reconcileSecrets(on) \o reconcileConfigMaps(on) \o services
                 \o deployments \o reconcileStatefulSets(on), on)
  BY <1>1, <1>4, <1>6, StatefulSetsFit, AmongJoined
<1>8. Among(r, early \o reconcileSecrets(on) \o reconcileConfigMaps(on) \o services
                 \o deployments \o reconcileStatefulSets(on) \o reconcileAutoscalers(on)
                 \o reconcileIngresses(on) \o routes \o reconcileMonitoring(on), on)
  BY <1>5, <1>7, AutoscalersFit, IngressesFit, MonitoringFits, AmongJoined
<1>9. Among(r, early \o reconcileSecrets(on) \o reconcileConfigMaps(on) \o services
                 \o deployments \o reconcileStatefulSets(on) \o reconcileAutoscalers(on)
                 \o reconcileIngresses(on) \o routes \o reconcileMonitoring(on)
                 \o reconcileApplicationSetController(on)
                 \o reconcileNotificationsController(on)
                 \o reconcileImageUpdaterController(on)
                 \o ReconcileNetworkPolicies(on)
                 \o reconcileArgoCDAgent(on), on)
  BY <1>8, ApplicationSetFits, NotificationsFit, ImageUpdaterFits, NetworkPoliciesFit,
     AgentFits, AmongJoined
<1>10. Among(r, reconcileResources(on), on)
  BY <1>9, Zenon DEF reconcileResources, early, services, deployments, routes
<1> QED BY <1>10 DEF Among

(* So each call of the plan fits, and each call of a pass. *)
LEMMA CallFit ==
  ASSUME NEW on, NEW r \in Members(reconcileResources(on))
  PROVE  Fit(r, on)
<1>1. PICK S : reconcileResources(on) \in Seq(S) /\ \A s \in S : Fit(s, on)
  BY PlanFits DEF Fits
<1>2. \A i \in DOMAIN reconcileResources(on) : reconcileResources(on)[i] \in S
  BY <1>1
<1> QED BY <1>1, <1>2 DEF Members

(* The scene at hand is a part of the plan.                                *)
LEMMA SceneIsPart ==
  ASSUME TypeOK
  PROVE  IsPartOfPlan(This)
BY PartAssumption DEF TypeOK, This

(* What it means for a scene to be a part of the plan. *)
LEMMA PartIsOrdered ==
  ASSUME NEW part, IsPartOfPlan(part), NEW on \in part.specs, NEW known \in part.facts,
         NEW both, both = on \cup known, NEW k \in DOMAIN part.plan[both]
  PROVE  /\ DOMAIN part.order[both] = DOMAIN part.plan[both]
         /\ part.order[both][k] \in DOMAIN reconcileResources(both)
         /\ part.plan[both][k] = reconcileResources(both)[part.order[both][k]]
         /\ \A j \in DOMAIN part.order[both] :
              j < k => part.order[both][j] < part.order[both][k]
<1>1. IsPartFor(part, both)
  BY Zenon DEF IsPartOfPlan
<1>2. part.plan[both]
        = [i \in DOMAIN part.order[both] |-> reconcileResources(both)[part.order[both][i]]]
  BY <1>1, Zenon DEF IsPartFor
<1>3. k \in DOMAIN part.order[both] /\ DOMAIN part.order[both] = DOMAIN part.plan[both]
  BY <1>2
<1>4. /\ part.order[both][k] \in DOMAIN reconcileResources(both)
      /\ \A j \in DOMAIN part.order[both] :
           j < k => part.order[both][j] < part.order[both][k]
  BY <1>1, <1>3, Zenon DEF IsPartFor
<1>5. part.plan[both][k] = reconcileResources(both)[part.order[both][k]]
  BY <1>2, <1>3
<1> QED BY <1>3, <1>4, <1>5

(* Which calls a scene has, and what it says of watched objects.           *)
LEMMA PartMeans ==
  ASSUME NEW part, IsPartOfPlan(part), NEW on \in part.specs, NEW known \in part.facts,
         NEW both, both = on \cup known
  PROVE  /\ Members(part.plan[both]) \subseteq Members(reconcileResources(both))
         /\ \A r \in Members(reconcileResources(both)) :
              r.reached /\ r.obj \in part.objects => r \in Members(part.plan[both])
         /\ \A r \in Members(part.plan[both]) :
              r.obj \in part.watched =>
                /\ r.reached /\ r.awaits \subseteq part.objects
                /\ setResourceWatches(r.obj, r.owned)
         /\ \A o \in part.watched :
              \/ Deviates(o, both)
              \/ \E r \in Members(part.plan[both]) : r.obj = o /\ o \notin r.awaits
         /\ Members(part.cleanup[both]) \subseteq Members(deleteNotificationsResources(both))
         /\ \A r \in Members(deleteNotificationsResources(both)) :
              r.reached /\ r.obj \in part.objects => r \in Members(part.cleanup[both])
<1> DEFINE all == reconcileResources(both)
           order == part.order[both]
<1>1. IsPartFor(part, both)
  BY Zenon DEF IsPartOfPlan
<1>2. Members(part.plan[both]) \subseteq Members(all)
  <2>1. SUFFICES ASSUME NEW k \in DOMAIN part.plan[both]
                 PROVE  part.plan[both][k] \in Members(all)
    BY DEF Members
  <2>2. order[k] \in DOMAIN all /\ part.plan[both][k] = all[order[k]]
    BY PartIsOrdered
  <2> HIDE DEF all, order
  <2> QED BY <2>2 DEF Members
<1>3. ASSUME NEW r \in Members(all), r.reached, r.obj \in part.objects
      PROVE  r \in Members(part.plan[both])
  <2>1. PICK i \in DOMAIN all : r = all[i]
    BY <1>3 DEF Members
  <2>2. PICK k \in DOMAIN order : order[k] = i
    BY <1>1, <1>3, <2>1 DEF IsPartFor
  <2>3. part.plan[both] = [k_1 \in DOMAIN order |-> all[order[k_1]]]
    BY <1>1, Zenon DEF IsPartFor
  <2> HIDE DEF all, order
  <2>4. k \in DOMAIN part.plan[both] /\ part.plan[both][k] = r
    BY <2>1, <2>2, <2>3
  <2> QED BY <2>4 DEF Members
<1> QED BY <1>1, <1>2, <1>3 DEF IsPartFor

(* A call of a pass is one of the plan, and fits.                          *)
LEMMA PassCallFits ==
  ASSUME TypeOK, NEW on \in This.specs, NEW i \in DOMAIN Calls(on)
  PROVE  /\ Calls(on)[i] \in Members(reconcileResources(on \cup facts))
         /\ Fit(Calls(on)[i], on \cup facts)
<1>1. facts \in This.facts
  BY DEF TypeOK
<1>2. Members(This.plan[on \cup facts]) \subseteq Members(reconcileResources(on \cup facts))
  BY <1>1, SceneIsPart, PartMeans
<1>3. Calls(on)[i] \in Members(This.plan[on \cup facts])
  BY DEF Members, Calls
<1> QED BY <1>2, <1>3, CallFit
-----------------------------------------------------------------------------
(* When the resource is gone, no pass is under way, and the cluster-wide   *)
(* objects are gone with it. The handler of events may still be at work,   *)
(* but creates none of those.                                              *)
GoneInv ==
  spec.phase = "gone" => pass.at = 0 /\ DOMAIN live \cap This.clusterWide = {}

(* The facts do not say whether a component is enabled. *)
LEMMA FactsApart ==
  ASSUME TypeOK
  PROVE  /\ "controller.disabled" \notin facts /\ "notifications" \notin facts
         /\ This.legacy \subseteq Leftovers
<1>1. facts \in This.facts /\ This.facts \subseteq SUBSET Facts /\ This.legacy \subseteq Leftovers
  BY SceneIsPart DEF TypeOK, IsPartOfPlan
<1> QED BY <1>1 DEF Facts

(* The objects that the handler deletes; of two of them it may happen that *)
(* it creates them instead.                                                *)
LEMMA CleanupAbout ==
  ASSUME TypeOK, NEW i \in DOMAIN CleanupCalls
  PROVE  LET r == CleanupCalls[i]
         IN /\ \/ r.obj \in Of("notifications-controller",
                               {"Deployment", "Role", "RoleBinding", "ServiceAccount"})
               \/ r.obj[1] \in {"Service", "ServiceMonitor", "NotificationsConfiguration"}
               \/ r.obj = Sec("argocd-notifications-secret")
            /\ r.wanted /\ "notifications" \notin informed.on
                 => r.obj[1] \in {"Service", "ServiceMonitor"}
<1> DEFINE on == informed.on \cup facts
           r == CleanupCalls[i]
<1>1. informed.on \in This.specs /\ facts \in This.facts
  BY DEF TypeOK, Generations
<1>2. Members(This.cleanup[on]) \subseteq Members(deleteNotificationsResources(on))
  BY <1>1, SceneIsPart, PartMeans
<1>3. r \in Members(deleteNotificationsResources(on))
  BY <1>2 DEF CleanupCalls, Members
<1> HIDE DEF r, on
<1>4. \/ r = reconcileNotificationsDeployment(on)
      \/ r = reconcileNotificationsMetricsService(on)
      \/ r = reconcileNotificationsServiceMonitor(on)
      \/ r = reconcileNotificationsSecret(on)
      \/ r = reconcileNotificationsRoleBinding(on)
      \/ r = reconcileNotificationsRole(on)
      \/ r = reconcileNotificationsServiceAccount(on)
      \/ r = reconcileNotificationsConfigurationCR(on)
  BY <1>3 DEF Members, deleteNotificationsResources
<1>5. isNotificationsEnabled(on) => "notifications" \in informed.on
  BY FactsApart DEF isNotificationsEnabled, on
<1> USE DEF Of, NotifObj, Resource, Sec
<1>6. CASE r = reconcileNotificationsDeployment(on)
  BY <1>5, <1>6 DEF reconcileNotificationsDeployment, reconcileDeploymentHelper, Needing, r
<1>7. CASE r = reconcileNotificationsMetricsService(on)
  BY <1>7 DEF reconcileNotificationsMetricsService, r
<1>8. CASE r = reconcileNotificationsServiceMonitor(on)
  BY <1>8 DEF reconcileNotificationsServiceMonitor, OnlyIf, Unowned, r
<1>9. CASE r = reconcileNotificationsSecret(on)
  BY <1>5, <1>9 DEF reconcileNotificationsSecret, r
<1>10. CASE r = reconcileNotificationsRoleBinding(on)
  BY <1>5, <1>10 DEF reconcileNotificationsRoleBinding, r
<1>11. CASE r = reconcileNotificationsRole(on)
  BY <1>5, <1>11 DEF reconcileNotificationsRole, r
<1>12. CASE r = reconcileNotificationsServiceAccount(on)
  BY <1>5, <1>12 DEF reconcileNotificationsServiceAccount, r
<1>13. CASE r = reconcileNotificationsConfigurationCR(on)
  BY <1>5, <1>13 DEF reconcileNotificationsConfigurationCR, Unowned, r
<1> QED BY <1>4, <1>6, <1>7, <1>8, <1>9, <1>10, <1>11, <1>12, <1>13

(* None of them is cluster-wide.                                           *)
LEMMA CleanupNamespaced ==
  ASSUME TypeOK, handler \in DOMAIN CleanupCalls
  PROVE  CleanupCalls[handler].obj \notin This.clusterWide
<1>1. CleanupCalls[handler].obj[1] \notin MappedKinds
  BY CleanupAbout DEF MappedKinds, Of, Sec
<1>2. This.clusterWide = {o \in This.objects : deleteClusterResources(o)}
  BY SceneIsPart DEF IsPartOfPlan
<1> QED BY <1>1, <1>2 DEF deleteClusterResources

(* Every step keeps to that.                                               *)
LEMMA GoneStep == TypeOK /\ GoneInv /\ [Next]_vars => GoneInv'
<1> SUFFICES ASSUME TypeOK, GoneInv, [Next]_vars PROVE GoneInv'
  OBVIOUS
<1> USE DEF GoneInv
<1>1. CASE StartPass \/ Call \/ CallFails \/ EndPass
  <2>1. spec.phase # "gone" /\ spec' = spec
    BY <1>1 DEF StartPass, Call, CallFails, EndPass, TypeOK
  <2> QED BY <2>1
<1>2. CASE Finalize
  BY <1>2 DEF Finalize, Without, This, TypeOK, Generations
<1>3. CASE Forget \/ Deliver \/ HandlerEnds
  BY <1>3 DEF Forget, Deliver, HandlerEnds, This
<1>4. CASE CollectGarbage
  BY <1>4 DEF CollectGarbage, Without, This
<1>5. CASE HandlerCall
  <2> DEFINE r == CleanupCalls[handler]
             outcome == Outcome(r, informed.rev, live, {})
  <2>1. /\ handler \in DOMAIN CleanupCalls
        /\ live' = Applied(r, informed.rev, live, outcome)
        /\ UNCHANGED <<scene, spec, pass>>
    BY <1>5 DEF HandlerCall
  <2>2. r.obj \notin This.clusterWide
    BY <2>1, CleanupNamespaced
  <2>3. outcome = "update" => r.obj \in DOMAIN live
    BY OutcomeType
  <2> HIDE DEF r, outcome
  <2>4. \A o \in This.clusterWide : o \in DOMAIN live' => o \in DOMAIN live
    BY <2>1, <2>2, <2>3, AppliedElsewhere
  <2> QED BY <2>1, <2>4 DEF This
<1>6. CASE Edit \/ Delete
  BY <1>6 DEF Edit, Delete, TypeOK, Generations
<1>7. CASE FactsChange \/ Restart
  BY <1>7 DEF FactsChange, Restart, Resting, This
<1>8. ASSUME NEW o \in This.objects, Interfere(o)
      PROVE  GoneInv'
  BY <1>8 DEF Interfere, Without, This
<1>9. CASE UNCHANGED vars
  BY <1>9 DEF vars, This
<1> QED BY <1>1, <1>2, <1>3, <1>4, <1>5, <1>6, <1>7, <1>8, <1>9
        DEF Next, Worker, Informer, Environment

(* What is then left has no owner and is not cluster-wide.                 *)
LEMMA GoneMeans ==
  ASSUME TypeOK, GoneInv
  PROVE  NothingElseLeft
<1> SUFFICES ASSUME spec.phase = "gone", DOMAIN live \cap This.owned = {},
                    NEW o \in DOMAIN live
             PROVE  o \in LeftBehind
  BY DEF NothingElseLeft
<1>1. o \in This.objects /\ o \notin This.owned /\ o \notin This.clusterWide
  BY DEF TypeOK, GoneInv
<1>2. \E on \in This.specs, known \in This.facts :
        \E r \in Members(reconcileResources(on \cup known)) : r.obj = o /\ ~r.owned
  BY <1>1, SceneIsPart DEF IsPartOfPlan
<1>3. PICK on, r : r \in Members(reconcileResources(on)) /\ r.obj = o /\ ~r.owned
  BY <1>2, Zenon
<1>4. o[1] \in MappedKinds \/ o \in LeftBehind
  BY <1>3, CallFit DEF Fit, Accounted
<1>5. o[1] \notin MappedKinds
  BY <1>1, SceneIsPart DEF IsPartOfPlan, deleteClusterResources
<1> QED BY <1>4, <1>5

(* When the ArgoCD resource is gone and the garbage collector is done,     *)
(* nothing is left but the five objects without an owner that are known to *)
(* stay: every other object that some reconcileX creates without an owner  *)
(* reference is cluster-wide, and deleteClusterResources has removed it    *)
(* before the finalizer went, no matter what the pass and the handler of   *)
(* events were doing when the resource was deleted.                        *)
THEOREM OnlyTheUnownedLeft == Spec => []NothingElseLeft
<1>1. Init => GoneInv
  BY DEF Init, GoneInv
<1> QED BY <1>1, GoneStep, GoneMeans, TypeCorrect, PTL DEF Spec
-----------------------------------------------------------------------------
(* Errors are logged of the objects of Dex only, so the two Secrets are    *)
(* never among the objects that a pass has given up.                       *)
LostInv == \A o \in lost : o[2] = "dex-server"

(* Every step keeps to that.                                               *)
LEMMA LostStep == TypeOK /\ LostInv /\ [Next]_vars => LostInv'
<1> SUFFICES ASSUME TypeOK, LostInv, [Next]_vars PROVE LostInv'
  OBVIOUS
<1> USE DEF LostInv
<1>1. CASE CallFails
  <2> DEFINE r == PassCalls[pass.at]
  <2>1. pass.at \in DOMAIN PassCalls /\ pass.seen.on \in This.specs
    BY <1>1 DEF CallFails, TypeOK, Generations
  <2>2. Fit(r, pass.seen.on \cup facts)
    BY <2>1, PassCallFits DEF PassCalls
  <2>3. lost' = lost \/ (r.logged /\ lost' = lost \cup {r.obj})
    BY <1>1 DEF CallFails
  <2> HIDE DEF r
  <2> QED BY <2>2, <2>3 DEF Fit
<1>2. CASE StartPass
  BY <1>2 DEF StartPass
<1>3. CASE Call \/ EndPass \/ Finalize \/ Forget \/ Deliver \/ HandlerCall \/ HandlerEnds
           \/ CollectGarbage \/ Edit \/ Delete \/ FactsChange \/ Restart
  BY <1>3 DEF Call, EndPass, Finalize, Forget, Deliver, HandlerCall, HandlerEnds,
              CollectGarbage, Edit, Delete, FactsChange, Restart
<1>4. CASE \E o \in This.objects : Interfere(o)
  BY <1>4 DEF Interfere
<1>5. CASE UNCHANGED vars
  BY <1>5 DEF vars
<1> QED BY <1>1, <1>2, <1>3, <1>4, <1>5 DEF Next, Worker, Informer, Environment

(* At rest the Secrets that other calls await exist. *)
LEMMA MainSecretsExist ==
  ASSUME TypeOK, LostInv, ConsistentAtRest, AtRest, spec.phase = "present",
         NEW name \in {"cluster", "ca", "tls"}, Sec(name) \in This.watched \cap This.objects
  PROVE  Sec(name) \in DOMAIN live
<1> DEFINE on == spec.on \cup facts
           r == CASE name = "cluster" -> reconcileClusterMainSecret(on)
                  [] name = "ca" -> reconcileClusterCASecret(on)
                  [] name = "tls" -> reconcileClusterTLSSecret(on)
<1>1. /\ r.obj = Sec(name) /\ r.wanted = TRUE /\ r.reached = TRUE /\ r.unless = {}
      /\ r.awaits = {} /\ r.follows = <<>> /\ r.defers = <<>>
  BY DEF reconcileClusterMainSecret, reconcileClusterCASecret, reconcileClusterTLSSecret,
         Demanding, Generated, Resource
<1> HIDE DEF r
<1>2. r \in Members(reconcileResources(on))
  <2>1. r \in Members(reconcileClusterSecrets(on))
    <3>1. /\ DOMAIN reconcileClusterSecrets(on) = 1..5
          /\ reconcileClusterSecrets(on)[1] = reconcileClusterMainSecret(on)
          /\ reconcileClusterSecrets(on)[3] = reconcileClusterCASecret(on)
          /\ reconcileClusterSecrets(on)[4] = reconcileClusterTLSSecret(on)
      BY DEF reconcileClusterSecrets
    <3> QED BY <3>1 DEF Members, r
  <2>2. Fits(reconcileClusterSecrets(on), on) /\ Fits(<<reconcileArgoSecret(on)>>, on)
    BY SecretsFit
  <2>3. r \in Members(reconcileSecrets(on))
    BY <2>1, <2>2, JoinedMembers DEF reconcileSecrets
  <2> QED BY <2>3, SecretsPlanned
<1>3. spec.on \in This.specs /\ facts \in This.facts
  BY DEF TypeOK, Generations
<1>4. r \in Members(This.plan[on])
  BY <1>1, <1>2, <1>3, SceneIsPart, PartMeans
<1>5. PICK i \in DOMAIN Calls(spec.on) : Calls(spec.on)[i] = r
  BY <1>4 DEF Members, Calls
<1>6. Sec(name) \notin lost
  BY DEF LostInv, Sec
<1>7. Outcome(r, spec.rev, live, {}) = "none"
  BY <1>1, <1>5, <1>6 DEF ConsistentAtRest, Consistent, Wish, World, Calls, This
<1>8. ~Skipped(r, live, {})
  BY <1>1 DEF Skipped
<1> QED BY <1>1, <1>7, <1>8, NoneMeans

(* At rest nothing keeps a call from comparing, and nothing differs.       *)
LEMMA UpToDateMeans ==
  ASSUME TypeOK, LostInv, ConsistentAtRest
  PROVE  UpToDate
<1> SUFFICES ASSUME AtRest, spec.phase = "present", NEW i \in DOMAIN Calls(spec.on),
                    Calls(spec.on)[i].obj \in (DOMAIN live \cap This.watched) \ lost,
                    NEW f \in DOMAIN Manifest(Calls(spec.on)[i]),
                    Manifest(Calls(spec.on)[i])[f] = Current,
                    <<Calls(spec.on)[i].obj, f>> \notin OnlyAtCreation(spec.on \cup facts)
             PROVE  Field(live[Calls(spec.on)[i].obj], f) = At(Current, spec.rev)
  BY DEF UpToDate, Manifest
<1>1. PICK r : r = Calls(spec.on)[i]
  OBVIOUS
<1>2. spec.on \in This.specs /\ facts \in This.facts /\ scene \in DOMAIN Scene
  BY DEF TypeOK, Generations
<1>3. Fit(r, spec.on \cup facts)
  BY <1>1, <1>2, PassCallFits
<1>4. /\ f \in DOMAIN r.updated /\ r.updated[f] = Current /\ f \notin r.sparing
      /\ r.follows = <<>> /\ r.unless = {}
      /\ r.awaits \subseteq {Sec("cluster"), Sec("tls"), r.obj}
  BY <1>1, <1>3 DEF Fit, Compares
<1>5. r \in Members(This.plan[spec.on \cup facts])
  BY <1>1 DEF Members, Calls
<1>6. r.reached /\ r.awaits \subseteq This.objects
  BY <1>1, <1>2, <1>5, SceneIsPart, PartMeans
<1>7. r.awaits \subseteq This.watched
  BY <1>1, <1>2, <1>6, PlanFacts DEF LooksAt
<1>8. r.awaits \subseteq DOMAIN live
  BY <1>1, <1>4, <1>6, <1>7, MainSecretsExist
<1>9. ~Skipped(r, live, {})
  BY <1>4, <1>6, <1>8 DEF Skipped
<1>10. Outcome(r, spec.rev, live, {}) = "none"
  BY <1>1 DEF ConsistentAtRest, Consistent, Wish, World, Calls, This
<1>11. Content(r, spec.rev, live)
  BY <1>1, <1>9, <1>10, NoneMeans
<1> QED BY <1>1, <1>4, <1>11 DEF Content, Differing

(* At rest every watched object has, in every field that its reconcileX    *)
(* computes from the settings, the value of the resource's present         *)
(* generation: no comparison of any component forgets a field, and no      *)
(* early return keeps a pass from looking at an object for good.           *)
THEOREM SettingsReachObjects == Spec => []UpToDate
<1>1. Init => LostInv
  BY DEF Init, LostInv
<1> QED BY <1>1, LostStep, UpToDateMeans, TypeCorrect, NothingOverlooked, PTL DEF Spec
-----------------------------------------------------------------------------
(* What the calls of the plan have in common that decides which objects    *)
(* exist. Such a call decides about a watched object: it is not kept from  *)
(* looking at it by another object, save by Secrets. An amendment awaits   *)
(* the object itself.                                                      *)
Decides(r) ==
  /\ r.reached /\ r.unless = {} /\ r.follows = <<>>
  /\ setResourceWatches(r.obj, r.owned)

(* The object is left as the resource asks. *)
Right(r, on) ==
  IF r.obj \in Requested(on) THEN r.wanted ELSE r.doomed \/ r.late

(* What the pods of the workloads cannot start without, as long as it is   *)
(* asked for: what comes before all workloads, and the service accounts of *)
(* the components that are looked after as a whole.                        *)
Groundwork(on) ==
  {SA(name) : name \in {"application-controller", "server", "redis", "redis-ha"}}
    \cup {CM(name) : name \in {"argocd-ssh-known-hosts-cm", "argocd-tls-certs-cm",
                               "argocd-gpg-keys-cm"}}
    \cup {RedisAuth}
    \cup (IF HA(on) THEN {CM("redis-ha"), CM("redis-ha-health")} ELSE {})
    \cup (IF UseDex(on) THEN {SA("dex-server")} ELSE {})

OwnAccounts(on) ==
  (IF AppSetEnabled(on) THEN {AppSetObj("ServiceAccount")} ELSE {})
    \cup (IF isNotificationsEnabled(on) THEN {NotifObj("ServiceAccount")} ELSE {})
    \cup (IF UpdaterEnabled(on) THEN {UpdaterObj("ServiceAccount")} ELSE {})
    \cup (IF hasPrincipal(on) THEN {SA(Principal)} ELSE {})
    \cup (IF hasAgent(on) THEN {SA(AgentSide)} ELSE {})

(* Before the StatefulSet of the controller comes the Deployment of an     *)
(* earlier version, and before a workload what its pods need.              *)
Ancestor == Depl("application-controller")
Successor == Sts("application-controller")
Outdated == <<"StatefulSet", "old", "application-controller">>

Relies(r) ==
  {n \in r.needs : r.reached /\ r.wanted}
    \cup {n \in {Ancestor} : r.obj = Successor /\ ~r.fails}

(* No workload is needed by another. *)
Bare(objs) == \A n \in objs : n[1] # "Deployment"

(* What is asked of a call, given what the calls before it have done. *)
Obeys(r, on, given) ==
  /\ Decides(r) =>
       /\ r.awaits \subseteq {Sec("ca"), Sec("cluster"), Sec("tls"), r.obj}
       /\ Deviates(r.obj, on) \/ Right(r, on)
  /\ r.reached /\ r.obj \in Groundwork(on) \cup OwnAccounts(on) => ~r.doomed /\ ~r.late
  /\ r.needs # {} => r.obj[1] \in {"Deployment", "StatefulSet"} /\ Bare(r.needs)
  /\ Relies(r) \subseteq given
  /\ r.obj = Ancestor =>
       /\ r.reached /\ r.unless = {Successor} /\ r.awaits = {} /\ r.follows = <<>>
       /\ r.defers = <<Outdated, Successor>>
       /\ ~r.wanted /\ (ControllerEnabled(on) => r.doomed)
  /\ r.obj = Successor /\ ~r.fails =>
       r.defers = <<Outdated, Successor>> /\ (r.wanted => ControllerEnabled(on))

Obey(calls, on, given) == \E S : calls \in Seq(S) /\ \A r \in S : Obeys(r, on, given)

(* Which objects the resource asks for, object by object. *)
USE DEF Requested, Of, Depl, Sts, Svc, CfgMap, Sec, AnnounceService, Ing, Rt, Policy, Monitor,
        Principal, AgentSide

(* ConfigMaps and Secrets.                                                 *)
LEMMA RequestedConfig ==
  ASSUME NEW on
  PROVE  /\ \A name \in {"argocd-cm", "argocd-rbac-cm", "argocd-ssh-known-hosts-cm",
                         "argocd-tls-certs-cm", "argocd-gpg-keys-cm",
                         "argocd-cmd-params-cm", "argocd-ca"} :
              CfgMap(name) \in Requested(on)
         /\ \A name \in {"cluster", "ca", "tls", "redis-initial-password", "argocd-secret"} :
              Sec(name) \in Requested(on)
         /\ Sec("default-cluster-config") \in Requested(on) <=> "cluster-scoped" \notin on
         /\ \A name \in {"redis-ha", "redis-ha-health"} :
              CfgMap(name) \in Requested(on) <=> RedisEnabled(on) /\ ~RedisRemote(on) /\ HA(on)
OBVIOUS

(* Roles and bindings.                                                     *)
LEMMA RequestedAccess ==
  ASSUME NEW on
  PROVE  /\ \A kind \in {"Role", "RoleBinding"} :
              /\ <<kind, "application-controller">> \in Requested(on) <=> ControllerEnabled(on)
              /\ <<kind, "dex-server">> \in Requested(on) <=> "dex" \in on
              /\ <<kind, "server">> \in Requested(on) <=> ServerEnabled(on)
              /\ <<kind, "redis">> \in Requested(on) <=> RedisEnabled(on)
              /\ <<kind, "redis-ha">> \in Requested(on)
         /\ \A name \in {"application-controller", "server"} :
              /\ <<"ClusterRole", name>> \in Requested(on) <=> DefaultRole(on)
              /\ <<"ClusterRoleBinding", name>> \in Requested(on) <=> DefaultRole(on)
         /\ \A name \in {"application-controller-view", "application-controller-admin"} :
              <<"ClusterRole", name>> \in Requested(on)
                <=> DefaultRole(on) /\ "aggregated" \in on
OBVIOUS

(* Deployments and StatefulSets.                                           *)
LEMMA RequestedWorkloads ==
  ASSUME NEW on
  PROVE  LET redis == RedisEnabled(on) /\ ~RedisRemote(on)
             repo == RepoEnabled(on) /\ ~RepoRemote(on)
         IN /\ Depl("redis") \in Requested(on) <=> redis /\ ~HA(on)
            /\ Depl("redis-ha-haproxy") \in Requested(on) <=> redis /\ HA(on)
            /\ Sts("redis-ha-server") \in Requested(on) <=> redis /\ HA(on)
            /\ Depl("repo-server") \in Requested(on) <=> repo
            /\ Depl("server") \in Requested(on) <=> ServerEnabled(on)
            /\ Depl("dex-server") \in Requested(on) <=> "dex" \in on
            /\ Sts("application-controller") \in Requested(on) <=> ControllerEnabled(on)
            /\ Depl("application-controller") \notin Requested(on)
            /\ \A name : <<"StatefulSet", "old", name>> \notin Requested(on)
OBVIOUS

(* Services.                                                               *)
LEMMA RequestedServices ==
  ASSUME NEW on
  PROVE  LET redis == RedisEnabled(on) /\ ~RedisRemote(on)
             repo == RepoEnabled(on) /\ ~RepoRemote(on)
         IN /\ Svc("dex-server") \in Requested(on) <=> "dex" \in on
            /\ Svc("metrics") \in Requested(on) /\ Svc("server-metrics") \in Requested(on)
            /\ Svc("server") \in Requested(on) <=> ServerEnabled(on)
            /\ Svc("redis") \in Requested(on) <=> redis /\ ~HA(on)
            /\ \A name \in {"redis-ha", "redis-ha-haproxy"} :
                 Svc(name) \in Requested(on) <=> redis /\ HA(on)
            /\ AnnounceService(0) \in Requested(on) <=> redis /\ HA(on)
            /\ Svc("repo-server") \in Requested(on) <=> repo
            /\ Svc("grafana") \notin Requested(on)
OBVIOUS

(* Ingresses and Routes.                                                   *)
LEMMA RequestedIngresses ==
  ASSUME NEW on
  PROVE  LET appset == "appset" \in on /\ "appset.disabled" \notin on
         IN /\ Ing("server") \in Requested(on) <=> "server.ingress" \in on
            /\ Ing("grpc") \in Requested(on) <=> "server.grpc.ingress" \in on
            /\ Ing("applicationset") \in Requested(on) <=> appset /\ "appset.ingress" \in on
            /\ \A name \in {"grafana", "prometheus"} :
                 Ing(name) \notin Requested(on) /\ Rt(name) \notin Requested(on)
            /\ Rt("server") \in Requested(on) <=> {"server.route", "route.api"} \subseteq on
            /\ Rt("applicationset-webhook") \in Requested(on)
                 <=> appset /\ {"appset.route", "route.api"} \subseteq on
OBVIOUS

(* The ApplicationSet controller.                                          *)
LEMMA RequestedAppSet ==
  ASSUME NEW on
  PROVE  LET appset == "appset" \in on /\ "appset.disabled" \notin on
         IN /\ \A kind \in {"Role", "RoleBinding", "Deployment", "Service"} :
                 AppSetObj(kind) \in Requested(on) <=> appset
            /\ \A kind \in MappedKinds :
                 AppSetObj(kind) \in Requested(on) <=> appset /\ "cluster-scoped" \in on
BY DEF AppSetObj, MappedKinds

(* Notifications.                                                          *)
LEMMA RequestedNotifications ==
  ASSUME NEW on
  PROVE  /\ \A kind \in {"Role", "RoleBinding", "Deployment"} :
              NotifObj(kind) \in Requested(on) <=> "notifications" \in on
         /\ \A kind \in MappedKinds :
              NotifObj(kind) \in Requested(on)
                <=> {"notifications", "cluster-scoped"} \subseteq on
         /\ Svc("notifications-controller-metrics") \in Requested(on)
              <=> "notifications" \in on
         /\ Sec("argocd-notifications-secret") \in Requested(on) <=> "notifications" \in on
BY DEF NotifObj, MappedKinds

(* The image updater.                                                      *)
LEMMA RequestedUpdater ==
  ASSUME NEW on
  PROVE  LET updater == {"image-updater", "image-updater.api"} \subseteq on
         IN /\ \A kind \in {"Role", "RoleBinding", "Deployment"} :
                 UpdaterObj(kind) \in Requested(on) <=> updater
            /\ \A kind \in MappedKinds :
                 UpdaterObj(kind) \in Requested(on) <=> updater /\ "image-updater.all" \in on
            /\ \A name \in {"argocd-image-updater-config", "argocd-image-updater-ssh-config"} :
                 CfgMap(name) \in Requested(on) <=> updater
            /\ Sec("argocd-image-updater-secret") \in Requested(on) <=> updater
            /\ \A kind \in {"Role", "RoleBinding"} :
                 <<kind, "image-updater", "watched">> \notin Requested(on)
BY DEF UpdaterObj, MappedKinds

(* Monitoring.                                                             *)
LEMMA RequestedMonitors ==
  ASSUME NEW on
  PROVE  /\ \A name \in {"metrics", "server-metrics", "repo-server-metrics"} :
              Monitor(name) \in Requested(on)
                <=> {"prometheus", "prometheus.api"} \subseteq on
         /\ <<"Prometheus", "prometheus">> \notin Requested(on)
OBVIOUS

(* Network policies.                                                       *)
LEMMA RequestedPolicies ==
  ASSUME NEW on
  PROVE  LET allowed == "netpol.disabled" \notin on
         IN /\ \A name \in {"server", "redis", "redis-ha", "repo-server",
                            "application-controller"} :
                 Policy(name) \in Requested(on) <=> allowed
            /\ Policy("notifications-controller") \in Requested(on)
                 <=> allowed /\ "notifications" \in on
            /\ Policy("dex-server") \in Requested(on) <=> allowed /\ "dex" \in on
            /\ Policy("applicationset-controller") \in Requested(on)
                 <=> allowed /\ "appset" \in on /\ "appset.disabled" \notin on
            /\ Policy("image-updater") \in Requested(on)
                 <=> allowed /\ {"image-updater", "image-updater.api"} \subseteq on
OBVIOUS

(* What both sides of the agent have.                                      *)
LEMMA RequestedAgent ==
  ASSUME NEW on, NEW side \in {Principal, AgentSide}
  PROVE  LET monitored == {"prometheus", "prometheus.api"} \subseteq on
         IN /\ <<"Deployment", side>> \in Requested(on) <=> side \in on
            /\ <<"Role", side>> \in Requested(on)
                 <=> side \in on /\ "custom-agent-role" \notin on
            /\ <<"RoleBinding", side>> \in Requested(on) <=> side \in on
            /\ \A kind \in MappedKinds :
                 <<kind, side>> \in Requested(on)
                   <=> side \in on /\ "cluster-scoped" \in on /\ ~Custom(on)
            /\ \A port \in {"metrics", "healthz"} :
                 <<"Service", side, port>> \in Requested(on) <=> side \in on
            /\ <<"ServiceMonitor", side, "metrics">> \in Requested(on)
                 <=> side \in on /\ monitored
BY DEF MappedKinds

(* What the principal has besides.                                         *)
LEMMA RequestedPrincipal ==
  ASSUME NEW on
  PROVE  /\ <<"Service", Principal>> \in Requested(on) <=> Principal \in on
         /\ \A port \in {"redisproxy", "resource-proxy"} :
              <<"Service", Principal, port>> \in Requested(on) <=> Principal \in on
         /\ Policy(Principal) \in Requested(on)
              <=> Principal \in on /\ "netpol.disabled" \notin on
         /\ Rt(Principal) \in Requested(on)
              <=> /\ Principal \in on /\ "route.api" \in on
                  /\ "principal.route.disabled" \notin on
OBVIOUS

HIDE DEF Requested, Of, Depl, Sts, Svc, CfgMap, Sec, AnnounceService, Ing, Rt, Policy, Monitor,
         Principal, AgentSide

(* The objects that the pods of workloads rely on are service accounts,    *)
(* ConfigMaps and one Secret.                                              *)
LEMMA GroundworkKinds ==
  ASSUME NEW on, NEW o \in Groundwork(on) \cup OwnAccounts(on)
  PROVE  /\ o[1] \in {"ServiceAccount", "ConfigMap"} \/ o = RedisAuth
         /\ o[1] = "ConfigMap" => o[2] \in {"argocd-ssh-known-hosts-cm",
                "argocd-tls-certs-cm", "argocd-gpg-keys-cm", "redis-ha", "redis-ha-health"}
         /\ o \in {CM("redis-ha"), CM("redis-ha-health")} => HA(on)
         /\ o = SA("dex-server") => UseDex(on)
         /\ o = SA("applicationset-controller") => AppSetEnabled(on)
         /\ o = SA("notifications-controller") => isNotificationsEnabled(on)
         /\ o = SA("image-updater") => UpdaterEnabled(on)
         /\ o = SA(Principal) => hasPrincipal(on)
         /\ o = SA(AgentSide) => hasAgent(on)
BY DEF Groundwork, OwnAccounts, SA, CM, RedisAuth, AppSetObj, NotifObj, UpdaterObj, Principal,
       AgentSide

(* Sequences of such calls, joined, or after more. *)
LEMMA JoinedObey ==
  ASSUME NEW on, NEW given, NEW s, NEW t, Obey(s, on, given), Obey(t, on, given)
  PROVE  Obey(s \o t, on, given)
<1>1. PICK S : s \in Seq(S) /\ \A r \in S : Obeys(r, on, given)
  BY DEF Obey
<1>2. PICK T : t \in Seq(T) /\ \A r \in T : Obeys(r, on, given)
  BY DEF Obey
<1>3. s \in Seq(S \cup T) /\ t \in Seq(S \cup T)
  BY <1>1, <1>2, SeqMonotonic
<1>4. s \o t \in Seq(S \cup T)
  BY <1>3, ConcatProperties
<1>5. \A r \in S \cup T : Obeys(r, on, given)
  BY <1>1, <1>2
<1> QED BY <1>4, <1>5, Zenon DEF Obey

(* The more is given, the more calls obey.                                 *)
LEMMA WidenedObey ==
  ASSUME NEW on, NEW given, NEW more, NEW s, given \subseteq more, Obey(s, on, given)
  PROVE  Obey(s, on, more)
<1>1. PICK S : s \in Seq(S) /\ \A r \in S : Obeys(r, on, given)
  BY DEF Obey
<1>2. \A r \in S : Obeys(r, on, more)
  BY <1>1, Zenon DEF Obeys
<1> QED BY <1>1, <1>2, Zenon DEF Obey

(* A call about an object that no workload relies on need only be right,   *)
(* and one about a workload must find what it relies on.                   *)
Correct(r, on) == Decides(r) => Deviates(r.obj, on) \/ Right(r, on)

Plain(r) ==
  /\ r.needs = {} /\ r.awaits = {}
  /\ r.obj[1] \notin {"ServiceAccount", "ConfigMap", "Secret", "Deployment", "StatefulSet"}

(* A call about an object that is neither a workload nor needed by one.    *)
LEMMA PlainObeys ==
  ASSUME NEW r, NEW on, NEW given, Plain(r), Correct(r, on)
  PROVE  Obeys(r, on, given)
BY GroundworkKinds DEF Obeys, Plain, Correct, Bare, Relies, Ancestor, Successor, Depl, Sts, RedisAuth

Workload(r, given) ==
  /\ r.obj[1] \in {"Deployment", "StatefulSet"} /\ r.obj \notin {Ancestor, Successor}
  /\ r.awaits = {} /\ (r.wanted => r.needs \subseteq given)
  /\ r.needs = {} \/ Bare(r.needs)

(* A call about a workload whose needs are given.                          *)
LEMMA WorkloadObeys ==
  ASSUME NEW r, NEW on, NEW given, Workload(r, given), Correct(r, on)
  PROVE  Obeys(r, on, given)
BY GroundworkKinds DEF Obeys, Workload, Correct, Relies, RedisAuth

(* The calls that are guarded are a sequence as well.                      *)
LEMMA GuardedSeq ==
  ASSUME NEW S, NEW s \in Seq(S), NEW c
  PROVE  Guarded(s, c) \in Seq({OnlyIf(r, r.reached /\ c) : r \in S})
<1> DEFINE T == {OnlyIf(r, r.reached /\ c) : r \in S}
<1>1. DOMAIN s = 1..Len(s) /\ Len(s) \in Nat /\ \A i \in 1..Len(s) : s[i] \in S
  OBVIOUS
<1>2. \A i \in 1..Len(s) : OnlyIf(s[i], s[i].reached /\ c) \in T
  BY <1>1, Zenon
<1> HIDE DEF T
<1>3. Guarded(s, c) = [i \in 1..Len(s) |-> OnlyIf(s[i], s[i].reached /\ c)]
  BY <1>1 DEF Guarded
<1>4. Guarded(s, c) \in [1..Len(s) -> T]
  BY <1>2, <1>3
<1> QED BY <1>1, <1>4 DEF T

(* Two calls are a sequence.                                               *)
LEMMA PairSeq ==
  ASSUME NEW a, NEW b
  PROVE  <<a, b>> \in Seq({a, b})
OBVIOUS

(* A call that is guarded need obey only where the guard holds. *)
Poised(r, on, given, c) ==
  /\ DOMAIN r = CallFields
  /\ r.obj \notin {Ancestor, Successor}
  /\ r.needs # {} => r.obj[1] \in {"Deployment", "StatefulSet"} /\ Bare(r.needs)
  /\ c => Obeys(r, on, given)

AllPoised(calls, on, given, c) ==
  \E S : calls \in Seq(S) /\ \A r \in S : Poised(r, on, given, c)

(* A guard changes nothing but whether the call is reached.                *)
LEMMA GuardedCall ==
  ASSUME NEW r, NEW c, DOMAIN r = CallFields
  PROVE  LET s == OnlyIf(r, c)
         IN /\ DOMAIN s = CallFields
            /\ s.obj = r.obj /\ s.wanted = r.wanted /\ s.doomed = r.doomed /\ s.late = r.late
            /\ s.needs = r.needs /\ s.awaits = r.awaits /\ s.unless = r.unless
            /\ s.follows = r.follows /\ s.owned = r.owned /\ s.fails = r.fails
            /\ s.reached = c
BY DEF OnlyIf, CallFields

(* A call that is poised obeys behind its guard.                           *)
LEMMA GuardedObeys ==
  ASSUME NEW r, NEW on, NEW given, NEW c, NEW d, Poised(r, on, given, c /\ d)
  PROVE  /\ Poised(OnlyIf(r, r.reached /\ c), on, given, d)
         /\ d => Obeys(OnlyIf(r, r.reached /\ c), on, given)
<1> DEFINE s == OnlyIf(r, r.reached /\ c)
<1>1. /\ DOMAIN s = CallFields
      /\ s.obj = r.obj /\ s.wanted = r.wanted /\ s.doomed = r.doomed /\ s.late = r.late
      /\ s.needs = r.needs /\ s.awaits = r.awaits /\ s.unless = r.unless
      /\ s.follows = r.follows /\ s.owned = r.owned /\ s.fails = r.fails
      /\ s.reached = (r.reached /\ c)
  BY GuardedCall DEF Poised
<1> HIDE DEF s
<1>2. ASSUME d, ~c PROVE Obeys(s, on, given)
  <2>1. ~s.reached
    BY <1>1, <1>2
  <2> QED BY <1>1, <2>1 DEF Obeys, Decides, Relies, Poised
<1>3. ASSUME d, c PROVE Obeys(s, on, given)
  <2>1. Obeys(r, on, given)
    BY <1>3 DEF Poised
  <2>2. s.reached => r.reached
    BY <1>1
  <2>3. s.obj \notin {Ancestor, Successor}
    BY <1>1 DEF Poised
  <2> QED BY <1>1, <2>1, <2>2, <2>3 DEF Obeys, Decides, Relies, Right
<1> QED BY <1>1, <1>2, <1>3 DEF Poised, s

(* So do the calls of a sequence.                                          *)
LEMMA GuardedObey ==
  ASSUME NEW calls, NEW on, NEW given, NEW c, AllPoised(calls, on, given, c)
  PROVE  Obey(Guarded(calls, c), on, given)
<1>1. PICK S : calls \in Seq(S) /\ \A r \in S : Poised(r, on, given, c)
  BY DEF AllPoised
<1>2. Guarded(calls, c) \in Seq({OnlyIf(r, r.reached /\ c) : r \in S})
  BY <1>1, GuardedSeq
<1>3. \A r \in S : Poised(r, on, given, c /\ TRUE)
  BY <1>1 DEF Poised
<1>4. \A r \in S : Obeys(OnlyIf(r, r.reached /\ c), on, given)
  BY <1>3, GuardedObeys
<1> QED BY <1>2, <1>4 DEF Obey

(* A guard within a guard.                                                 *)
LEMMA GuardedPoised ==
  ASSUME NEW calls, NEW on, NEW given, NEW c, NEW d, AllPoised(calls, on, given, c /\ d)
  PROVE  AllPoised(Guarded(calls, c), on, given, d)
<1>1. PICK S : calls \in Seq(S) /\ \A r \in S : Poised(r, on, given, c /\ d)
  BY DEF AllPoised
<1>2. Guarded(calls, c) \in Seq({OnlyIf(r, r.reached /\ c) : r \in S})
  BY <1>1, GuardedSeq
<1>3. \A r \in S : Poised(OnlyIf(r, r.reached /\ c), on, given, d)
  BY <1>1, GuardedObeys
<1> QED BY <1>2, <1>3 DEF AllPoised

(* Sequences of poised calls, joined.                                      *)
LEMMA JoinedPoised ==
  ASSUME NEW on, NEW given, NEW c, NEW s, NEW t, AllPoised(s, on, given, c),
         AllPoised(t, on, given, c)
  PROVE  AllPoised(s \o t, on, given, c)
<1>1. PICK S : s \in Seq(S) /\ \A r \in S : Poised(r, on, given, c)
  BY DEF AllPoised
<1>2. PICK T : t \in Seq(T) /\ \A r \in T : Poised(r, on, given, c)
  BY DEF AllPoised
<1>3. s \in Seq(S \cup T) /\ t \in Seq(S \cup T)
  BY <1>1, <1>2, SeqMonotonic
<1>4. s \o t \in Seq(S \cup T)
  BY <1>3, ConcatProperties
<1>5. \A r \in S \cup T : Poised(r, on, given, c)
  BY <1>1, <1>2
<1> QED BY <1>4, <1>5, Zenon DEF AllPoised

(* One poised call, or two.                                                *)
LEMMA PoisedCalls ==
  ASSUME NEW on, NEW given, NEW c
  PROVE  /\ \A r, s : Poised(r, on, given, c) /\ Poised(s, on, given, c)
                       => AllPoised(<<r, s>>, on, given, c)
         /\ \A r : Poised(r, on, given, c) => AllPoised(<<r>>, on, given, c)
<1>1. ASSUME NEW r, NEW s, Poised(r, on, given, c), Poised(s, on, given, c)
      PROVE  AllPoised(<<r, s>>, on, given, c)
  <2>1. PICK S : S = {r, s}
    OBVIOUS
  <2>2. <<r, s>> \in Seq(S) /\ \A q \in S : Poised(q, on, given, c)
    BY <1>1, <2>1
  <2> QED BY <2>2 DEF AllPoised
<1>2. ASSUME NEW r, Poised(r, on, given, c)
      PROVE  AllPoised(<<r>>, on, given, c)
  <2>1. PICK S : S = {r}
    OBVIOUS
  <2>2. <<r>> \in Seq(S) /\ \A q \in S : Poised(q, on, given, c)
    BY <1>2, <2>1
  <2> QED BY <2>2 DEF AllPoised
<1> QED BY <1>1, <1>2

(* A call that no pod depends on.                                          *)
LEMMA PoisedPlain ==
  ASSUME NEW r, NEW on, NEW given, NEW c, DOMAIN r = CallFields, Plain(r), c => Correct(r, on)
  PROVE  Poised(r, on, given, c)
BY PlainObeys DEF Poised, Plain, Ancestor, Successor, Depl, Sts

(* argocd-cm is always asked for, and the label of Dex's Deployment        *)
(* decides about no object.                                                *)
LEMMA ArgoConfigMapObeys ==
  ASSUME NEW on, NEW given
  PROVE  /\ Obey(reconcileArgoConfigMap(on), on, given)
         /\ AllPoised(reconcileArgoConfigMap(on), on, given, UseDex(on))
<1> DEFINE Only(r) == OnlyIf(r, r.reached /\ UseDex(on))
           m == modifyOwnerReferenceIfNeeded(ArgoData(on))
           a1 == Amendment(ArgoCM, Settings({"dex.config"}))
           a2 == After(Amendment(<<"Deployment", "dex-server">>, [labels |-> "rollout"]),
                       <<"update", ArgoCM>>)
           a3 == Resource(ArgoCM, TRUE, m, DOMAIN m)
           calls == {Only(a1), Only(a2), a3}
<1>1. reconcileArgoConfigMap(on) \in Seq(calls)
  <2>1. Guarded(reconcileDexConfiguration(on), UseDex(on)) = <<Only(a1), Only(a2)>>
    BY DEF Guarded, reconcileDexConfiguration
  <2>2. reconcileArgoConfigMap(on) = <<Only(a1), Only(a2)>> \o <<a3>>
    BY <2>1, Zenon DEF reconcileArgoConfigMap
  <2> HIDE DEF Only, a1, a2, a3
  <2> QED BY <2>2
<1>2. /\ Only(a1).obj = ArgoCM /\ Only(a1).wanted = TRUE /\ Only(a1).needs = {}
      /\ Only(a1).doomed = FALSE /\ Only(a1).late = FALSE /\ Only(a1).awaits = {ArgoCM}
      /\ DOMAIN Only(a1) = CallFields
  BY DEF Amendment, Resource, OnlyIf, CallFields
<1>3. /\ Only(a2).obj = Depl("dex-server") /\ Only(a2).needs = {}
      /\ Only(a2).follows # <<>> /\ DOMAIN Only(a2) = CallFields
  <2>1. /\ Only(a2).obj = Depl("dex-server") /\ Only(a2).needs = {}
        /\ DOMAIN Only(a2) = CallFields
    BY DEF Amendment, After, Resource, OnlyIf, CallFields, Depl
  <2>2. Only(a2).follows = <<"update", ArgoCM>>
    BY DEF Amendment, After, Resource, OnlyIf
  <2> HIDE DEF Only, a2
  <2> QED BY <2>1, <2>2
<1>4. /\ a3.obj = ArgoCM /\ a3.wanted = TRUE /\ a3.needs = {}
      /\ a3.doomed = FALSE /\ a3.late = FALSE /\ a3.awaits = {}
      /\ DOMAIN a3 = CallFields
  BY DEF Resource, CallFields
<1> HIDE DEF a1, a2, a3, m, Only
<1>5. ArgoCM \in Requested(on) /\ ArgoCM \notin Groundwork(on) \cup OwnAccounts(on)
  BY RequestedConfig, GroundworkKinds DEF ArgoCM, CfgMap, RedisAuth
<1>6. Depl("dex-server") \notin Groundwork(on) \cup OwnAccounts(on)
  BY GroundworkKinds DEF Depl, RedisAuth
<1>7. {ArgoCM, Depl("dex-server")} \cap {Ancestor, Successor} = {}
  BY DEF ArgoCM, CfgMap, Ancestor, Successor, Depl, Sts
<1>8. Obeys(Only(a1), on, given) /\ Obeys(a3, on, given)
  BY <1>2, <1>4, <1>5, <1>7 DEF Obeys, Right, Relies
<1>9. Obeys(Only(a2), on, given)
  BY <1>3, <1>6, <1>7 DEF Obeys, Decides, Relies
<1>10. \A r \in calls : Obeys(r, on, given) /\ Poised(r, on, given, UseDex(on))
  BY <1>2, <1>3, <1>4, <1>7, <1>8, <1>9 DEF Poised
<1> HIDE DEF calls
<1> QED BY <1>1, <1>10 DEF Obey, AllPoised

(* reconcileConfigMaps.                                                    *)
LEMMA ConfigMapsObey ==
  ASSUME NEW on
  PROVE  Obey(reconcileConfigMaps(on), on, {})
<1> DEFINE redis == {reconcileRedisHAConfigMap(on), reconcileRedisHAHealthConfigMap(on)}
           others == {reconcileRBACConfigMap(on), reconcileSSHKnownHosts(on),
                      reconcileTLSCerts(on), reconcileArgoCmdParamsConfigMap(on),
                      reconcileGPGKeysConfigMap(on)}
<1>1. reconcileRedisConfiguration(on) \in Seq(redis) /\ OtherConfigMaps(on) \in Seq(others)
  BY DEF reconcileRedisConfiguration, OtherConfigMaps
<1> USE RequestedConfig, GroundworkKinds
        DEF Obeys, Right, Relies, Ancestor, Successor, Resource, CfgMap, CM, RedisAuth, Depl, Sts
<1>2. Obeys(reconcileRedisHAConfigMap(on), on, {})
  BY DEF reconcileRedisHAConfigMap, Deviates
<1>3. Obeys(reconcileRedisHAHealthConfigMap(on), on, {})
  BY DEF reconcileRedisHAHealthConfigMap, Deviates
<1>4. Obeys(reconcileRBACConfigMap(on), on, {})
  BY DEF reconcileRBACConfigMap
<1>5. Obeys(reconcileSSHKnownHosts(on), on, {}) /\ Obeys(reconcileTLSCerts(on), on, {})
  BY DEF reconcileSSHKnownHosts, reconcileTLSCerts, InitialData
<1>6. Obeys(reconcileGPGKeysConfigMap(on), on, {}) /\ Obeys(reconcileArgoCmdParamsConfigMap(on), on, {})
  BY DEF reconcileGPGKeysConfigMap, reconcileArgoCmdParamsConfigMap
<1> HIDE RequestedConfig, GroundworkKinds DEF Obeys, Resource
<1>7. \A r \in redis \cup others : Obeys(r, on, {})
  BY <1>2, <1>3, <1>4, <1>5, <1>6
<1> HIDE DEF redis, others
<1>8. Obey(reconcileRedisConfiguration(on), on, {}) /\ Obey(OtherConfigMaps(on), on, {})
  BY <1>1, <1>7 DEF Obey
<1>9. Obey(reconcileArgoConfigMap(on) \o reconcileRedisConfiguration(on)
             \o OtherConfigMaps(on), on, {})
  BY <1>8, ArgoConfigMapObeys, JoinedObey
<1> QED BY <1>9 DEF reconcileConfigMaps, OtherConfigMaps

(* reconcileSSO, and the calls about Dex whose errors are logged.          *)
LEMMA DexObeys ==
  ASSUME NEW on, NEW given, NEW argoConfigMap, AllPoised(argoConfigMap, on, given, UseDex(on)),
         UseDex(on) => SA("dex-server") \in given
  PROVE  /\ Obey(reconcileSSO(argoConfigMap, on), on, given)
         /\ Obeys(Logged(reconcileDexService(on)), on, given)
         /\ Obeys(Logged(reconcileDexDeployment(on)), on, given)
<1> DEFINE check == Refused("sso", IllegalSSO(on))
           dex == UseDex(on)
           plain == {DexRole(on), DexRoleBinding(on), DexServiceAccount(on),
                     reconcileDexServiceAccount(on)}
           early == DexPermissions(on) \o <<reconcileDexServiceAccount(on)>>
<1>1. early \in Seq(plain \cup {Logged(r) : r \in plain})
  BY DEF DexPermissions, reconcileServiceAccountPermissions
<1>2. DOMAIN reconcileDexServiceAccount(on) = CallFields
  BY DEF DexServiceAccount, reconcileDexServiceAccount, Resource, OnlyIf, Updating, Kept,
         DoomedIf, CallFields
<1>3. DOMAIN reconcileDexService(on) = CallFields /\ DOMAIN reconcileDexDeployment(on) = CallFields
  BY DEF reconcileDexService, reconcileDexDeployment, Resource, Needing, CallFields
<1>4. \A r : Poised(r, on, given, dex) => Poised(Logged(r), on, given, dex)
  <2>1. ASSUME NEW r, Poised(r, on, given, dex)
        PROVE  Poised(Logged(r), on, given, dex)
    <3>1. PICK s : s = Logged(r)
      OBVIOUS
    <3>2. /\ DOMAIN s = CallFields /\ s.obj = r.obj /\ s.wanted = r.wanted
          /\ s.doomed = r.doomed /\ s.late = r.late /\ s.needs = r.needs
          /\ s.awaits = r.awaits /\ s.unless = r.unless /\ s.follows = r.follows
          /\ s.defers = r.defers /\ s.reached = r.reached /\ s.fails = r.fails
          /\ s.owned = r.owned
      BY <2>1, <3>1 DEF Logged, Poised, CallFields
    <3>3. Obeys(r, on, given) => Obeys(s, on, given)
      BY <3>2 DEF Obeys, Decides, Relies, Right
    <3> QED BY <2>1, <3>1, <3>2, <3>3 DEF Poised
  <2> QED BY <2>1
<1> USE DEF Right, Relies, Ancestor, Successor, Resource, SA, CM, RedisAuth, Depl, Sts,
            Svc, UseDex, OnlyIf, Logged
<1>5. Poised(DexServiceAccount(on), on, given, dex)
  BY GroundworkKinds
     DEF Poised, Obeys, DexServiceAccount, Decides, setResourceWatches, OwnedKinds,
         MappedKinds, CallFields
<1>6. Poised(reconcileDexServiceAccount(on), on, given, dex)
  BY <1>2, GroundworkKinds
     DEF Poised, Obeys, DexServiceAccount, reconcileDexServiceAccount, Updating, Kept,
         DoomedIf, Decides, setResourceWatches, OwnedKinds, MappedKinds
<1>7. /\ DOMAIN DexRole(on) = CallFields /\ Plain(DexRole(on)) /\ Correct(DexRole(on), on)
      /\ DOMAIN DexRoleBinding(on) = CallFields /\ Plain(DexRoleBinding(on))
      /\ Correct(DexRoleBinding(on), on)
  BY RequestedAccess DEF Plain, Correct, DexRole, DexRoleBinding, CallFields
<1>8. \A r \in plain \cup {Logged(q) : q \in plain} : Poised(r, on, given, dex)
  <2> HIDE DEF Right, Relies, Ancestor, Successor, Resource, SA, CM, RedisAuth, Depl, Sts,
               Svc, UseDex, OnlyIf, Logged, dex
  <2>1. Poised(DexRole(on), on, given, dex) /\ Poised(DexRoleBinding(on), on, given, dex)
    BY <1>7, PoisedPlain
  <2>2. \A r \in plain : Poised(r, on, given, dex)
    BY <1>5, <1>6, <2>1
  <2> HIDE DEF plain
  <2> QED BY <1>4, <2>2
<1>9. Obeys(check, on, given)
  BY GroundworkKinds DEF Obeys, Refused, Decides, setResourceWatches, OwnedKinds, MappedKinds
<1>10. /\ Plain(reconcileDexService(on)) /\ Correct(reconcileDexService(on), on)
       /\ Plain(Logged(reconcileDexService(on))) /\ Correct(Logged(reconcileDexService(on)), on)
  BY RequestedServices DEF Plain, Correct, reconcileDexService
<1>11. /\ Obeys(reconcileDexDeployment(on), on, given)
       /\ Obeys(Logged(reconcileDexDeployment(on)), on, given)
       /\ reconcileDexDeployment(on).obj \notin {Ancestor, Successor}
  <2>1. Bare({<<"ServiceAccount", "dex-server">>})
    BY DEF Bare
  <2>2. /\ Workload(reconcileDexDeployment(on), given)
        /\ Workload(Logged(reconcileDexDeployment(on)), given)
        /\ Correct(reconcileDexDeployment(on), on)
        /\ Correct(Logged(reconcileDexDeployment(on)), on)
    BY <2>1, RequestedWorkloads DEF Workload, Correct, reconcileDexDeployment, Needing
  <2> QED BY <2>2, WorkloadObeys DEF Workload
<1> HIDE DEF Right, Relies, Ancestor, Successor, Resource, SA, CM, RedisAuth, Depl, Sts,
             Svc, UseDex, OnlyIf, Logged, check, plain, early
<1>12. Obeys(Logged(reconcileDexService(on)), on, given)
  BY <1>10, PlainObeys
<1>13. AllPoised(early, on, given, UseDex(on))
  BY <1>1, <1>8 DEF AllPoised
<1>14. /\ Poised(reconcileDexService(on), on, given, UseDex(on))
       /\ Poised(reconcileDexDeployment(on), on, given, UseDex(on))
  BY <1>3, <1>10, <1>11, PoisedPlain DEF Poised, Obeys
<1>15. AllPoised(<<reconcileDexService(on), reconcileDexDeployment(on)>>, on, given, UseDex(on))
  BY <1>14, PoisedCalls
<1>16. AllPoised(reconcileDexResources(argoConfigMap, on), on, given, UseDex(on))
  BY <1>13, <1>15, JoinedPoised DEF reconcileDexResources, early
<1>17. Obey(Guarded(reconcileDexResources(argoConfigMap, on), UseDex(on)), on, given)
  BY <1>16, GuardedObey
<1>18. Obey(<<check>>, on, given)
  <2>1. PICK S : S = {check}
    OBVIOUS
  <2>2. <<check>> \in Seq(S) /\ \A r \in S : Obeys(r, on, given)
    BY <1>9, <2>1
  <2> QED BY <2>2 DEF Obey
<1>19. Obey(reconcileSSO(argoConfigMap, on), on, given)
  BY <1>17, <1>18, JoinedObey DEF reconcileSSO, check
<1> QED BY <1>11, <1>12, <1>19

(* reconcileRoles, reconcileRoleBindings and reconcileServiceAccounts.     *)
LEMMA AccessObeys ==
  ASSUME NEW on
  PROVE  /\ Obey(reconcileRoles(on), on, {})
         /\ Obey(reconcileRoleBindings(on), on, {})
         /\ Obey(reconcileServiceAccounts(on), on, {})
<1> DEFINE names == {"application-controller", "dex-server", "server", "redis-ha", "redis"}
<1> USE RequestedAccess, GroundworkKinds
        DEF Obeys, Right, Relies, Ancestor, Successor, Resource, SA, CM, RedisAuth, Depl, Sts
<1>1. ASSUME NEW name \in names PROVE Obeys(reconcileServiceAccount(name, on), on, {})
  BY DEF reconcileServiceAccount, Decides, setResourceWatches, OwnedKinds, MappedKinds, UseDex
<1>2. ASSUME NEW name \in names
      PROVE  Obeys(reconcileRole(name, on), on, {}) /\ Obeys(RoleBindingFor(name, on), on, {})
  BY DEF reconcileRole, RoleBindingFor, Installed
<1>3. Obeys(ModeCheck(on), on, {})
  BY DEF ModeCheck, Refused, Decides, setResourceWatches, OwnedKinds, MappedKinds
<1>4. ASSUME NEW name \in {"application-controller", "server"}
      PROVE  /\ Obeys(reconcileClusterRole(name, on), on, {})
             /\ Obeys(reconcileClusterRoleBinding(name, on), on, {})
  BY DEF reconcileClusterRole, reconcileClusterRoleBinding, Updating, Unowned, OnlyIf
<1>5. ASSUME NEW name \in {"application-controller-view", "application-controller-admin"}
      PROVE  Obeys(aggregatedPart(name, on), on, {})
  BY DEF aggregatedPart, Unowned, Aggregated, DefaultRole
<1> HIDE RequestedAccess, GroundworkKinds DEF Obeys, Resource
<1> DEFINE calls == {reconcileRole(name, on) : name \in names}
                      \cup {reconcileServiceAccount(name, on) : name \in names}
                      \cup {RoleBindingFor(name, on) : name \in names}
                      \cup {ModeCheck(on), reconcileClusterRole("application-controller", on),
                            reconcileClusterRole("server", on),
                            reconcileClusterRoleBinding("application-controller", on),
                            reconcileClusterRoleBinding("server", on),
                            aggregatedPart("application-controller-view", on),
                            aggregatedPart("application-controller-admin", on)}
<1>6. reconcileRoles(on) \in Seq(calls)
  BY DEF reconcileRoles, Components
<1>7. reconcileRoleBindings(on) \in Seq(calls)
  BY DEF reconcileRoleBindings, reconcileRoleBinding, Components
<1>8. reconcileServiceAccounts(on) \in Seq(calls)
  <2>1. /\ reconcileServiceAccountClusterPermissions("application-controller", on) \in Seq(calls)
        /\ reconcileServiceAccountClusterPermissions("server", on) \in Seq(calls)
    BY DEF reconcileServiceAccountClusterPermissions
  <2> HIDE DEF calls
  <2> QED BY <1>7, <2>1 DEF reconcileServiceAccounts
<1>9. \A r \in calls : Obeys(r, on, {})
  BY <1>1, <1>2, <1>3, <1>4, <1>5
<1> HIDE DEF calls
<1> QED BY <1>6, <1>7, <1>8, <1>9 DEF Obey

(* reconcileCertificateAuthority and reconcileSecrets.                     *)
LEMMA SecretsObey ==
  ASSUME NEW on
  PROVE  /\ Obey(reconcileCertificateAuthority(on), on, {})
         /\ Obey(reconcileSecrets(on), on, {})
<1> DEFINE calls == {reconcileClusterCASecret(on), reconcileCAConfigMap(on),
                     reconcileClusterMainSecret(on), reconcileRedisInitialPasswordSecret(on),
                     reconcileClusterTLSSecret(on), reconcileClusterPermissionsSecret(on),
                     reconcileArgoSecret(on)}
<1>1. reconcileCertificateAuthority(on) \in Seq(calls)
  BY DEF reconcileCertificateAuthority
<1>2. reconcileSecrets(on) \in Seq(calls)
  BY DEF reconcileSecrets, reconcileClusterSecrets
<1> USE RequestedConfig, GroundworkKinds
        DEF Obeys, Right, Relies, Ancestor, Successor, Resource, CfgMap, CM, RedisAuth, Depl,
            Sts, Sec, Generated, Demanding, Awaiting
<1>3. /\ Obeys(reconcileClusterMainSecret(on), on, {})
      /\ Obeys(reconcileClusterCASecret(on), on, {})
      /\ Obeys(reconcileRedisInitialPasswordSecret(on), on, {})
  BY DEF reconcileClusterMainSecret, reconcileClusterCASecret,
         reconcileRedisInitialPasswordSecret
<1>4. Obeys(reconcileClusterTLSSecret(on), on, {}) /\ Obeys(reconcileCAConfigMap(on), on, {})
  BY DEF reconcileClusterTLSSecret, reconcileCAConfigMap
<1>5. Obeys(reconcileClusterPermissionsSecret(on), on, {})
  BY DEF reconcileClusterPermissionsSecret, Updating, Kept, DoomedIf, Deviates
<1>6. Obeys(reconcileArgoSecret(on), on, {})
  BY DEF reconcileArgoSecret, FailingIf
<1> HIDE RequestedConfig, GroundworkKinds DEF Obeys, Resource
<1>7. \A r \in calls : Obeys(r, on, {})
  BY <1>3, <1>4, <1>5, <1>6
<1> HIDE DEF calls
<1> QED BY <1>1, <1>2, <1>7 DEF Obey

(* reconcileServices.                                                      *)
LEMMA ServicesObey ==
  ASSUME NEW on, NEW given, NEW dexService, Obeys(dexService, on, given)
  PROVE  Obey(reconcileServices(dexService, on), on, given)
<1> DEFINE calls == {dexService, reconcileGrafanaService(on), reconcileMetricsService(on),
                     reconcileRedisHAAnnounceServices(on)[1],
                     reconcileRedisHAAnnounceServices(on)[2],
                     reconcileRedisHAAnnounceServices(on)[3],
                     reconcileRedisHAMasterService(on), reconcileRedisHAProxyService(on),
                     reconcileRedisService(on), reconcileRepoService(on),
                     reconcileServerMetricsService(on), reconcileServerService(on)}
<1>1. reconcileServices(dexService, on) \in Seq(calls)
  <2>1. reconcileRedisHAAnnounceServices(on) \in Seq(calls)
    BY DEF reconcileRedisHAAnnounceServices
  <2>2. <<reconcileRedisHAMasterService(on), reconcileRedisHAProxyService(on)>> \in Seq(calls)
    OBVIOUS
  <2>3. reconcileRedisHAServices(on) \in Seq(calls)
    BY <2>1, <2>2 DEF reconcileRedisHAServices
  <2>4. /\ <<dexService, reconcileGrafanaService(on), reconcileMetricsService(on)>> \in Seq(calls)
        /\ <<reconcileRedisService(on), reconcileRepoService(on),
             reconcileServerMetricsService(on), reconcileServerService(on)>> \in Seq(calls)
    OBVIOUS
  <2> HIDE DEF calls
  <2> QED BY <2>3, <2>4 DEF reconcileServices
<1> USE RequestedServices, PlainObeys
        DEF Plain, Correct, Right, Resource, Endpoint, Svc, DoomedIf, DeletedLateIf
<1>2. Obeys(reconcileGrafanaService(on), on, given)
  BY DEF reconcileGrafanaService, Legacy, Deviates
<1>3. /\ Obeys(reconcileMetricsService(on), on, given)
      /\ Obeys(reconcileServerMetricsService(on), on, given)
  BY DEF reconcileMetricsService, reconcileServerMetricsService
<1>4. /\ Obeys(reconcileRedisHAAnnounceServices(on)[1], on, given)
      /\ Obeys(reconcileRedisHAAnnounceServices(on)[2], on, given)
      /\ Obeys(reconcileRedisHAAnnounceServices(on)[3], on, given)
  <2> DEFINE announce == reconcileRedisHAAnnounceServices(on)
  <2>1. \A i \in 1..3 :
          /\ announce[i].obj = AnnounceService(i - 1) /\ Plain(announce[i])
          /\ announce[i].wanted = (HA(on) /\ RedisEnabled(on))
          /\ announce[i].doomed = ~(HA(on) /\ RedisEnabled(on))
    BY DEF reconcileRedisHAAnnounceServices, After, AnnounceService
  <2> HIDE DEF announce, Plain
  <2>2. Correct(announce[1], on)
    <3>1. /\ announce[1].obj = AnnounceService(0)
          /\ announce[1].wanted = (HA(on) /\ RedisEnabled(on))
          /\ announce[1].doomed = ~(HA(on) /\ RedisEnabled(on))
      BY <2>1 DEF AnnounceService
    <3>2. CASE HA(on) /\ (RedisRemote(on) \/ ~RedisEnabled(on))
      BY <3>1, <3>2 DEF Deviates
    <3>3. CASE ~(HA(on) /\ (RedisRemote(on) \/ ~RedisEnabled(on)))
      BY <3>1, <3>3 DEF Right
    <3> QED BY <3>2, <3>3
  <2>3. announce[2].obj = AnnounceService(1) /\ announce[3].obj = AnnounceService(2)
    BY <2>1 DEF AnnounceService
  <2>4. Deviates(AnnounceService(1), on) /\ Deviates(AnnounceService(2), on)
    BY DEF Deviates
  <2>5. Correct(announce[2], on) /\ Correct(announce[3], on)
    BY <2>3, <2>4
  <2> QED BY <2>1, <2>2, <2>5 DEF announce
<1>5. Obeys(reconcileRedisHAMasterService(on), on, given)
  BY DEF reconcileRedisHAMasterService, Deviates
<1> USE DEF ensureAutoTLSAnnotation
<1>6. Obeys(reconcileRedisHAProxyService(on), on, given)
  BY DEF reconcileRedisHAProxyService, RedisAutoTLS, Deviates
<1>7. Obeys(reconcileRedisService(on), on, given)
  <2> DEFINE r == reconcileRedisService(on)
  <2>1. /\ r.obj = Svc("redis") /\ r.needs = {} /\ r.awaits = {}
        /\ r.wanted = (RedisEnabled(on) /\ ~(HA(on) \/ RedisRemote(on)))
        /\ r.doomed = ~RedisEnabled(on) /\ r.late = (HA(on) \/ RedisRemote(on))
    BY DEF reconcileRedisService, RedisAutoTLS
  <2> HIDE DEF r
  <2>2. Correct(r, on)
    BY <2>1
  <2>3. Obeys(r, on, given)
    BY <2>1, <2>2
  <2> QED BY <2>3 DEF r
<1>8. Obeys(reconcileRepoService(on), on, given)
  <2> DEFINE r == reconcileRepoService(on)
  <2>1. /\ r.obj = Svc("repo-server") /\ r.needs = {} /\ r.awaits = {}
        /\ r.wanted = (RepoEnabled(on) /\ ~RepoRemote(on))
        /\ r.doomed = ~RepoEnabled(on) /\ r.late = RepoRemote(on)
    BY DEF reconcileRepoService, RepoAutoTLS
  <2> HIDE DEF r
  <2>2. Correct(r, on)
    BY <2>1
  <2>3. Obeys(r, on, given)
    BY <2>1, <2>2
  <2> QED BY <2>3 DEF r
<1>9. Obeys(reconcileServerService(on), on, given)
  BY DEF reconcileServerService, ServerAutoTLS
<1> HIDE RequestedServices, PlainObeys DEF Resource, ensureAutoTLSAnnotation
<1>10. \A r \in calls : Obeys(r, on, given)
  BY <1>2, <1>3, <1>4, <1>5, <1>6, <1>7, <1>8, <1>9
<1> HIDE DEF calls
<1> QED BY <1>1, <1>10 DEF Obey

(* reconcileDeployments.                                                   *)
LEMMA DeploymentsObey ==
  ASSUME NEW on, NEW dexDeployment, Obeys(dexDeployment, on, Groundwork(on))
  PROVE  Obey(reconcileDeployments(dexDeployment, on), on, Groundwork(on))
<1> DEFINE calls == {dexDeployment, reconcileRedisDeployment(on),
                     reconcileRedisHAProxyDeployment(on), reconcileRepoDeployment(on),
                     reconcileServerDeployment(on)}
           given == Groundwork(on)
<1>1. reconcileDeployments(dexDeployment, on) \in Seq(calls)
  BY DEF reconcileDeployments
<1>2. /\ {SA("redis"), RedisAuth} \subseteq given
      /\ HA(on) => {SA("redis-ha"), CM("redis-ha"), RedisAuth} \subseteq given
      /\ {CM("argocd-ssh-known-hosts-cm"), CM("argocd-tls-certs-cm"),
          CM("argocd-gpg-keys-cm"), RedisAuth} \subseteq given
      /\ {SA("server"), CM("argocd-ssh-known-hosts-cm"),
          CM("argocd-tls-certs-cm"), RedisAuth} \subseteq given
  BY DEF Groundwork
<1>8. /\ Bare({SA("redis"), RedisAuth}) /\ Bare({SA("redis-ha"), CM("redis-ha"), RedisAuth})
      /\ Bare({CM("argocd-ssh-known-hosts-cm"), CM("argocd-tls-certs-cm"),
               CM("argocd-gpg-keys-cm"), RedisAuth})
      /\ Bare({SA("server"), CM("argocd-ssh-known-hosts-cm"),
               CM("argocd-tls-certs-cm"), RedisAuth})
  BY DEF Bare, SA, CM, RedisAuth
<1> HIDE DEF given
<1> USE RequestedWorkloads, WorkloadObeys, <1>2, <1>8
        DEF Workload, Correct, Right, Resource, Needing, DoomedIf, Depl, Sts, Ancestor, Successor
<1>3. Obeys(reconcileRedisDeployment(on), on, given)
  BY DEF reconcileRedisDeployment
<1>4. Obeys(reconcileRedisHAProxyDeployment(on), on, given)
  BY DEF reconcileRedisHAProxyDeployment, Deviates
<1>5. Obeys(reconcileRepoDeployment(on), on, given)
  BY DEF reconcileRepoDeployment
<1>6. Obeys(reconcileServerDeployment(on), on, given)
  BY DEF reconcileServerDeployment
<1> HIDE RequestedWorkloads, WorkloadObeys, <1>2, <1>8 DEF Resource
<1>7. \A r \in calls : Obeys(r, on, given)
  BY <1>3, <1>4, <1>5, <1>6 DEF given
<1> HIDE DEF calls
<1> QED BY <1>1, <1>7 DEF Obey, given

(* reconcileStatefulSets, the Deployment of an earlier version included.   *)
LEMMA StatefulSetsObey ==
  ASSUME NEW on
  PROVE  Obey(reconcileStatefulSets(on), on, Groundwork(on) \cup {Ancestor})
<1> DEFINE controller == reconcileApplicationControllerStatefulSet(on)
           redis == reconcileRedisStatefulSet(on)
           calls == {controller[1], controller[2], controller[3], controller[4],
                     redis[1], redis[2]}
           given == Groundwork(on) \cup {Ancestor}
<1>1. reconcileStatefulSets(on) \in Seq(calls)
  BY DEF reconcileStatefulSets, reconcileApplicationControllerStatefulSet,
         reconcileRedisStatefulSet, OldName
<1>2. /\ {SA("application-controller"), RedisAuth, Ancestor} \subseteq given
      /\ HA(on) => {SA("redis-ha"), CM("redis-ha"), CM("redis-ha-health"), RedisAuth}
                     \subseteq given
  BY DEF Groundwork
<1> HIDE DEF given
<1> USE RequestedWorkloads, <1>2
        DEF Correct, Right, Resource, Needing, DoomedIf, Depl, Sts, Ancestor, Successor,
            OldName, Legacy, NotAfterDeleting, OnlyIf, Unless, RedisAuth, SA, CM
<1>3. Obeys(controller[1], on, given)
  <2> DEFINE r == controller[1]
  <2>1. /\ r.obj = Successor /\ r.needs = {} /\ r.awaits = {} /\ r.wanted = TRUE
        /\ r.doomed = TRUE /\ r.fails = TRUE
    BY DEF reconcileApplicationControllerStatefulSet, containsInvalidImage
  <2> HIDE DEF controller
  <2>2. Obeys(r, on, given)
    BY <2>1, GroundworkKinds DEF Obeys, Relies
  <2> QED BY <2>2
<1>4. Obeys(controller[2], on, given)
  BY WorkloadObeys DEF Workload, reconcileApplicationControllerStatefulSet, Deviates
<1>5. Obeys(controller[3], on, given)
  <2> DEFINE r == controller[3]
  <2>1. /\ r.obj = Ancestor /\ r.needs = {} /\ r.unless = {Successor} /\ r.wanted = FALSE
        /\ r.reached = TRUE /\ r.awaits = {} /\ r.follows = <<>>
        /\ r.defers = <<Outdated, Successor>> /\ r.doomed = ControllerEnabled(on)
    BY DEF reconcileApplicationControllerStatefulSet, Outdated
  <2> HIDE DEF controller
  <2>2. ~Decides(r)
    BY <2>1 DEF Decides
  <2>3. Obeys(r, on, given)
    BY <2>1, <2>2, GroundworkKinds DEF Obeys, Relies
  <2> QED BY <2>3
<1>6. Obeys(controller[4], on, given)
  <2> DEFINE r == controller[4]
  <2>1. /\ r.obj = Successor /\ r.needs = {SA("application-controller"), RedisAuth}
        /\ r.awaits = {} /\ r.wanted = ControllerEnabled(on)
        /\ r.doomed = ~ControllerEnabled(on) /\ r.defers = <<Outdated, Successor>>
    BY DEF reconcileApplicationControllerStatefulSet, Outdated
  <2> HIDE DEF controller
  <2>2. Correct(r, on)
    BY <2>1
  <2>3. Bare({SA("application-controller"), RedisAuth})
    BY DEF Bare
  <2>4. Obeys(r, on, given)
    BY <2>1, <2>2, <2>3, GroundworkKinds DEF Obeys, Relies
  <2> QED BY <2>4
<1>7. Obeys(redis[1], on, given)
  BY WorkloadObeys DEF Workload, reconcileRedisStatefulSet, Deviates
<1>8. Obeys(redis[2], on, given)
  <2>1. Bare({SA("redis-ha"), CM("redis-ha"), CM("redis-ha-health"), RedisAuth})
    BY DEF Bare
  <2> QED BY <2>1, WorkloadObeys DEF Workload, reconcileRedisStatefulSet, Deviates
<1> HIDE RequestedWorkloads, <1>2 DEF Resource, controller, redis
<1>9. \A r \in calls : Obeys(r, on, given)
  BY <1>3, <1>4, <1>5, <1>6, <1>7, <1>8
<1> HIDE DEF calls
<1> QED BY <1>1, <1>9 DEF Obey, given
(* Service accounts are not watched, and the ConfigMaps and Secrets of the *)
(* image updater and of notifications do not keep a pod from starting.     *)
LEMMA AccountObeys ==
  ASSUME NEW r, NEW on, NEW given, r.obj[1] = "ServiceAccount", r.needs = {},
         r.obj \in OwnAccounts(on) \cup Groundwork(on) => ~r.doomed /\ ~r.late
  PROVE  Obeys(r, on, given)
BY DEF Obeys, Decides, Relies, Ancestor, Successor, Depl, Sts, setResourceWatches, OwnedKinds,
       MappedKinds

(* A call about a ConfigMap or a Secret.                                   *)
LEMMA StoreObeys ==
  ASSUME NEW r, NEW on, NEW given, r.obj[1] \in {"ConfigMap", "Secret"}, r.needs = {},
         r.awaits = {}, Correct(r, on),
         r.obj[2] \in {"argocd-notifications-secret", "argocd-image-updater-secret",
                       "argocd-image-updater-config", "argocd-image-updater-ssh-config"}
  PROVE  Obeys(r, on, given)
BY GroundworkKinds DEF Obeys, Correct, Relies, Ancestor, Successor, Depl, Sts, RedisAuth

(* A check changes nothing.                                                *)
LEMMA RefusedObeys ==
  ASSUME NEW name, NEW condition, NEW on, NEW given
  PROVE  Obeys(Refused(name, condition), on, given)
BY GroundworkKinds
   DEF Refused, Resource, Obeys, Decides, Relies, Ancestor, Successor, Depl, Sts, RedisAuth,
       setResourceWatches, OwnedKinds, MappedKinds

(* reconcileAutoscalers.                                                   *)
LEMMA AutoscalersObey ==
  ASSUME NEW on, NEW given
  PROVE  Obey(reconcileAutoscalers(on), on, given)
<1>1. Obeys(reconcileServerHPA(on), on, given)
  BY PlainObeys DEF Plain, Correct, Decides, reconcileServerHPA, Resource, Unowned,
                    setResourceWatches, OwnedKinds, MappedKinds
<1>2. reconcileAutoscalers(on) \in Seq({reconcileServerHPA(on)})
  BY DEF reconcileAutoscalers
<1> QED BY <1>1, <1>2 DEF Obey

(* reconcileIngresses.                                                     *)
LEMMA IngressesObey ==
  ASSUME NEW on, NEW given
  PROVE  Obey(reconcileIngresses(on), on, given)
<1> DEFINE calls == {reconcileArgoServerIngress(on), reconcileArgoServerGRPCIngress(on),
                     reconcileGrafanaIngress(on), reconcilePrometheusIngress(on),
                     reconcileApplicationSetControllerIngress(on)}
<1>1. reconcileIngresses(on) \in Seq(calls)
  BY DEF reconcileIngresses
<1> USE RequestedIngresses, PlainObeys DEF Plain, Correct, Right, Resource, Ing, Legacy
<1>2. Obeys(reconcileArgoServerIngress(on), on, given)
  BY DEF reconcileArgoServerIngress, Updating
<1>3. Obeys(reconcileArgoServerGRPCIngress(on), on, given)
  BY DEF reconcileArgoServerGRPCIngress
<1>4. Obeys(reconcileGrafanaIngress(on), on, given)
  BY DEF reconcileGrafanaIngress, Deviates
<1>5. Obeys(reconcilePrometheusIngress(on), on, given)
  BY DEF reconcilePrometheusIngress
<1>6. Obeys(reconcileApplicationSetControllerIngress(on), on, given)
  BY DEF reconcileApplicationSetControllerIngress, Deviates
<1> HIDE RequestedIngresses, PlainObeys DEF Resource
<1>7. \A r \in calls : Obeys(r, on, given)
  BY <1>2, <1>3, <1>4, <1>5, <1>6
<1> HIDE DEF calls
<1> QED BY <1>1, <1>7 DEF Obey

(* reconcileRoutes, where there are Routes.                                *)
LEMMA RoutesObey ==
  ASSUME NEW on, NEW given
  PROVE  Obey(Guarded(reconcileRoutes(on), RouteAPI(on)), on, given)
<1> DEFINE Only(r) == OnlyIf(r, r.reached /\ RouteAPI(on))
           calls == {Only(reconcileGrafanaRoute(on)), Only(reconcilePrometheusRoute(on)),
                     Only(reconcileServerRoute(on)),
                     Only(reconcileApplicationSetControllerWebhookRoute(on))}
<1>1. Guarded(reconcileRoutes(on), RouteAPI(on)) \in Seq(calls)
  BY DEF reconcileRoutes, Guarded
<1> USE RequestedIngresses, PlainObeys
        DEF Plain, Correct, Decides, Right, Resource, Rt, Legacy, OnlyIf, RouteAPI
<1>2. Obeys(Only(reconcileGrafanaRoute(on)), on, given)
  BY DEF reconcileGrafanaRoute, Deviates
<1>3. Obeys(Only(reconcilePrometheusRoute(on)), on, given)
  BY DEF reconcilePrometheusRoute
<1>4. Obeys(Only(reconcileServerRoute(on)), on, given)
  <2> DEFINE r == Only(reconcileServerRoute(on))
  <2>1. /\ r.obj = Rt("server") /\ r.needs = {} /\ r.awaits = {} /\ r.reached = RouteAPI(on)
        /\ r.wanted = ("server.route" \in on) /\ r.doomed = ("server.route" \notin on)
    BY DEF reconcileServerRoute, overrideRouteTLS, Overridden, FailingIf
  <2> HIDE DEF r
  <2>2. Correct(r, on)
    BY <2>1
  <2>3. Obeys(r, on, given)
    BY <2>1, <2>2
  <2> QED BY <2>3 DEF r
<1>5. Obeys(Only(reconcileApplicationSetControllerWebhookRoute(on)), on, given)
  <2> DEFINE r == Only(reconcileApplicationSetControllerWebhookRoute(on))
             wanted == {"appset", "appset.route"} \subseteq on
  <2>1. /\ r.obj = Rt("applicationset-webhook") /\ r.needs = {} /\ r.awaits = {}
        /\ r.reached = RouteAPI(on) /\ r.wanted = wanted /\ r.doomed = ~wanted
    BY DEF reconcileApplicationSetControllerWebhookRoute, overrideRouteTLS, FailingIf
  <2> HIDE DEF r
  <2>2. Correct(r, on)
    BY <2>1 DEF Deviates
  <2>3. Obeys(r, on, given)
    BY <2>1, <2>2
  <2> QED BY <2>3 DEF r
<1> HIDE RequestedIngresses, PlainObeys DEF Resource, Only
<1>6. \A r \in calls : Obeys(r, on, given)
  BY <1>2, <1>3, <1>4, <1>5
<1> HIDE DEF calls
<1> QED BY <1>1, <1>6 DEF Obey

(* reconcileMonitoring.                                                    *)
LEMMA MonitoringObeys ==
  ASSUME NEW on, NEW given
  PROVE  Obey(reconcileMonitoring(on), on, given)
<1> DEFINE Only(r) == OnlyIf(r, r.reached /\ "prometheus.api" \in on)
           calls == {Only(reconcilePrometheus(on)), Only(reconcilePrometheusRule(on)),
                     Only(reconcileMetricsServiceMonitor(on)),
                     Only(reconcileRepoServerServiceMonitor(on)),
                     Only(reconcileServerMetricsServiceMonitor(on))}
<1>1. reconcileMonitoring(on) \in Seq(calls)
  BY DEF reconcileMonitoring, Guarded
<1> USE RequestedMonitors, PlainObeys
        DEF Plain, Correct, Decides, Right, Resource, Legacy, OnlyIf
<1>2. Obeys(Only(reconcilePrometheus(on)), on, given)
  BY DEF reconcilePrometheus
<1>3. Obeys(Only(reconcilePrometheusRule(on)), on, given)
  BY DEF reconcilePrometheusRule, setResourceWatches, OwnedKinds, MappedKinds
<1>4. /\ Obeys(Only(reconcileMetricsServiceMonitor(on)), on, given)
      /\ Obeys(Only(reconcileRepoServerServiceMonitor(on)), on, given)
      /\ Obeys(Only(reconcileServerMetricsServiceMonitor(on)), on, given)
  BY DEF reconcileMetricsServiceMonitor, reconcileRepoServerServiceMonitor,
         reconcileServerMetricsServiceMonitor, updateServiceMonitorEndpointIfNeeded, Monitor
<1> HIDE RequestedMonitors, PlainObeys DEF Resource, Only
<1>5. \A r \in calls : Obeys(r, on, given)
  BY <1>2, <1>3, <1>4
<1> HIDE DEF calls
<1> QED BY <1>1, <1>5 DEF Obey

(* reconcileApplicationSetController.                                      *)
LEMMA ApplicationSetObeys ==
  ASSUME NEW on, NEW given,
         AppSetEnabled(on) =>
           {AppSetObj("ServiceAccount"), <<"ConfigMap", "argocd-ssh-known-hosts-cm">>,
            <<"ConfigMap", "argocd-tls-certs-cm">>, <<"ConfigMap", "argocd-gpg-keys-cm">>}
             \subseteq given
  PROVE  Obey(reconcileApplicationSetController(on), on, given)
<1> DEFINE calls == {reconcileApplicationSetServiceAccount(on), reconcileApplicationSetRole(on),
                     reconcileApplicationSetRoleBinding(on),
                     reconcileApplicationSetDeployment(on), reconcileApplicationSetService(on),
                     reconcileApplicationSetClusterRole(on),
                     reconcileApplicationSetClusterRoleBinding(on)}
<1>1. reconcileApplicationSetController(on) \in Seq(calls)
  BY DEF reconcileApplicationSetController
<1>2. AppSetEnabled(on) =>
        {AppSetObj("ServiceAccount"), <<"ConfigMap", "argocd-ssh-known-hosts-cm">>,
         <<"ConfigMap", "argocd-tls-certs-cm">>, <<"ConfigMap", "argocd-gpg-keys-cm">>}
          \subseteq given
  OBVIOUS
<1> USE RequestedAppSet DEF Correct, Right, Resource, AppSetObj, AppSetEnabled, MappedKinds
<1>3. Obeys(reconcileApplicationSetServiceAccount(on), on, given)
  BY GroundworkKinds, AccountObeys DEF reconcileApplicationSetServiceAccount, SA
<1>4. /\ Obeys(reconcileApplicationSetRole(on), on, given)
      /\ Obeys(reconcileApplicationSetRoleBinding(on), on, given)
      /\ Obeys(reconcileApplicationSetService(on), on, given)
  BY PlainObeys DEF Plain, reconcileApplicationSetRole, reconcileApplicationSetRoleBinding,
                    reconcileApplicationSetService
<1>5. /\ Obeys(reconcileApplicationSetClusterRole(on), on, given)
      /\ Obeys(reconcileApplicationSetClusterRoleBinding(on), on, given)
  BY PlainObeys DEF Plain, reconcileApplicationSetClusterRole, Unowned,
                    reconcileApplicationSetClusterRoleBinding
<1>6. Obeys(reconcileApplicationSetDeployment(on), on, given)
  <2>1. Bare({AppSetObj("ServiceAccount"), <<"ConfigMap", "argocd-ssh-known-hosts-cm">>,
              <<"ConfigMap", "argocd-tls-certs-cm">>, <<"ConfigMap", "argocd-gpg-keys-cm">>})
    BY DEF Bare
  <2> QED BY <1>2, <2>1, WorkloadObeys
          DEF Workload, Needing, reconcileApplicationSetDeployment, Ancestor, Successor, Depl, Sts
<1> HIDE RequestedAppSet DEF Resource
<1>7. \A r \in calls : Obeys(r, on, given)
  BY <1>3, <1>4, <1>5, <1>6
<1> HIDE DEF calls
<1> QED BY <1>1, <1>7 DEF Obey

(* reconcileNotificationsController.                                       *)
LEMMA NotificationsObey ==
  ASSUME NEW on, NEW given,
         isNotificationsEnabled(on) =>
           {NotifObj("ServiceAccount"), <<"ConfigMap", "argocd-tls-certs-cm">>}
             \subseteq given
  PROVE  Obey(reconcileNotificationsController(on), on, given)
<1> DEFINE reached == NotificationsReached(on)
           Only(r) == OnlyIf(r, r.reached /\ reached)
           plain == {reconcileNotificationsServiceAccount(on), reconcileNotificationsRole(on),
                     reconcileNotificationsRoleBinding(on),
                     reconcileNotificationsClusterRole(on),
                     reconcileNotificationsClusterRoleBinding(on),
                     reconcileNotificationsConfigurationCR(on),
                     reconcileNotificationsSecret(on), reconcileNotificationsDeployment(on),
                     reconcileNotificationsMetricsService(on),
                     reconcileNotificationsServiceMonitor(on)}
           calls == {OnlyIf(r, r.reached /\ reached) : r \in plain}
<1>1. reconcileNotificationsController(on) \in Seq(calls)
  <2>1. PICK s : s = <<reconcileNotificationsServiceAccount(on), reconcileNotificationsRole(on),
                       reconcileNotificationsRoleBinding(on),
                       reconcileNotificationsClusterRole(on),
                       reconcileNotificationsClusterRoleBinding(on),
                       reconcileNotificationsConfigurationCR(on),
                       reconcileNotificationsSecret(on), reconcileNotificationsDeployment(on),
                       reconcileNotificationsMetricsService(on),
                       reconcileNotificationsServiceMonitor(on)>>
    OBVIOUS
  <2>2. s \in Seq(plain)
    BY <2>1
  <2>3. reconcileNotificationsController(on) = Guarded(s, reached)
    BY <2>1, Zenon DEF reconcileNotificationsController
  <2> HIDE DEF plain, reached
  <2> QED BY <2>2, <2>3, GuardedSeq
<1>2. isNotificationsEnabled(on) =>
        {NotifObj("ServiceAccount"), <<"ConfigMap", "argocd-tls-certs-cm">>} \subseteq given
  OBVIOUS
<1> USE RequestedNotifications
        DEF Correct, Decides, Right, Resource, NotifObj, isNotificationsEnabled, MappedKinds,
            OnlyIf, Unowned
<1>3. Obeys(Only(reconcileNotificationsServiceAccount(on)), on, given)
  BY GroundworkKinds, AccountObeys DEF reconcileNotificationsServiceAccount, SA
<1>4. /\ Obeys(Only(reconcileNotificationsRole(on)), on, given)
      /\ Obeys(Only(reconcileNotificationsRoleBinding(on)), on, given)
  BY PlainObeys DEF Plain, reconcileNotificationsRole, reconcileNotificationsRoleBinding
<1>5. /\ Obeys(Only(reconcileNotificationsClusterRole(on)), on, given)
      /\ Obeys(Only(reconcileNotificationsClusterRoleBinding(on)), on, given)
  BY PlainObeys DEF Plain, reconcileNotificationsClusterRole,
                    reconcileNotificationsClusterRoleBinding
<1>6. /\ Obeys(Only(reconcileNotificationsConfigurationCR(on)), on, given)
      /\ Obeys(Only(reconcileNotificationsServiceMonitor(on)), on, given)
  BY PlainObeys DEF Plain, reconcileNotificationsConfigurationCR, setResourceWatches,
                    reconcileNotificationsServiceMonitor
<1>7. Obeys(Only(reconcileNotificationsSecret(on)), on, given)
  <2> DEFINE r == Only(reconcileNotificationsSecret(on))
  <2>1. /\ r.obj = Sec("argocd-notifications-secret") /\ r.needs = {} /\ r.awaits = {}
        /\ r.wanted = ("notifications" \in on) /\ r.doomed = ("notifications" \notin on)
    BY DEF reconcileNotificationsSecret, Sec
  <2> HIDE DEF r
  <2>2. Correct(r, on)
    BY <2>1
  <2>3. Obeys(r, on, given)
    BY <2>1, <2>2, StoreObeys DEF Sec
  <2> QED BY <2>3 DEF r
<1>8. Obeys(Only(reconcileNotificationsDeployment(on)), on, given)
  <2>1. Bare({NotifObj("ServiceAccount"), <<"ConfigMap", "argocd-tls-certs-cm">>})
    BY DEF Bare, NotifObj
  <2> QED BY <1>2, <2>1, WorkloadObeys
          DEF Workload, Needing, reconcileNotificationsDeployment, reconcileDeploymentHelper,
              Ancestor, Successor, Depl, Sts
<1>9. Obeys(Only(reconcileNotificationsMetricsService(on)), on, given)
  BY PlainObeys DEF Plain, reconcileNotificationsMetricsService, Svc, Deviates
<1> HIDE RequestedNotifications DEF Resource, Only, reached
<1>10. \A r \in plain : Obeys(Only(r), on, given)
  BY <1>3, <1>4, <1>5, <1>6, <1>7, <1>8, <1>9
<1>11. \A r \in calls : Obeys(r, on, given)
  BY <1>10, Zenon DEF Only
<1> HIDE DEF calls
<1> QED BY <1>1, <1>11 DEF Obey

(* ReconcileNetworkPolicies.                                               *)
LEMMA NetworkPoliciesObey ==
  ASSUME NEW on, NEW given
  PROVE  Obey(ReconcileNetworkPolicies(on), on, given)
<1> USE RequestedPolicies, PlainObeys
        DEF Plain, Correct, Decides, Right, Resource, Policed, Policy, PoliciesEnabled
<1>1. /\ Obeys(reconcileImageUpdaterNetworkPolicy(on), on, given)
      /\ Obeys(ReconcileRedisNetworkPolicy(on), on, given)
      /\ Obeys(ReconcileRedisHANetworkPolicy(on), on, given)
  BY DEF reconcileImageUpdaterNetworkPolicy, ReconcileRedisNetworkPolicy,
         ReconcileRedisHANetworkPolicy, Deviates, OnlyIf
<1>2. Obey(<<reconcileImageUpdaterNetworkPolicy(on), ReconcileRedisNetworkPolicy(on),
             ReconcileRedisHANetworkPolicy(on)>>, on, given)
  <2> HIDE RequestedPolicies, PlainObeys
  <2> HIDE DEF Resource, Policed, Policy
  <2> DEFINE calls == {reconcileImageUpdaterNetworkPolicy(on), ReconcileRedisNetworkPolicy(on),
                       ReconcileRedisHANetworkPolicy(on)}
  <2>1. <<reconcileImageUpdaterNetworkPolicy(on), ReconcileRedisNetworkPolicy(on),
          ReconcileRedisHANetworkPolicy(on)>> \in Seq(calls)
    OBVIOUS
  <2>2. \A r \in calls : Obeys(r, on, given)
    BY <1>1
  <2> HIDE DEF calls
  <2> QED BY <2>1, <2>2, Zenon DEF Obey
<1>3. CASE PoliciesEnabled(on)
  <2> DEFINE calls == {ReconcileNotificationsControllerNetworkPolicy(on),
                       ReconcileDexServerNetworkPolicy(on),
                       ReconcileApplicationSetControllerNetworkPolicy(on),
                       ReconcileArgoCDServerNetworkPolicy(on),
                       ReconcileArgoCDApplicationControllerNetworkPolicy(on),
                       ReconcileArgoCDRepoServerNetworkPolicy(on)}
             most == <<ReconcileNotificationsControllerNetworkPolicy(on),
                       ReconcileDexServerNetworkPolicy(on),
                       ReconcileApplicationSetControllerNetworkPolicy(on),
                       ReconcileArgoCDServerNetworkPolicy(on),
                       ReconcileArgoCDApplicationControllerNetworkPolicy(on),
                       ReconcileArgoCDRepoServerNetworkPolicy(on)>>
  <2>1. /\ Obeys(ReconcileNotificationsControllerNetworkPolicy(on), on, given)
        /\ Obeys(ReconcileDexServerNetworkPolicy(on), on, given)
        /\ Obeys(ReconcileApplicationSetControllerNetworkPolicy(on), on, given)
    BY <1>3 DEF ReconcileNotificationsControllerNetworkPolicy,
                ReconcileDexServerNetworkPolicy,
                ReconcileApplicationSetControllerNetworkPolicy
  <2>2. /\ Obeys(ReconcileArgoCDServerNetworkPolicy(on), on, given)
        /\ Obeys(ReconcileArgoCDApplicationControllerNetworkPolicy(on), on, given)
        /\ Obeys(ReconcileArgoCDRepoServerNetworkPolicy(on), on, given)
    BY <1>3 DEF ReconcileArgoCDServerNetworkPolicy,
                ReconcileArgoCDApplicationControllerNetworkPolicy,
                ReconcileArgoCDRepoServerNetworkPolicy
  <2> HIDE RequestedPolicies, PlainObeys DEF Resource, Policed, Policy
  <2>3. most \in Seq(calls)
    OBVIOUS
  <2>4. \A r \in calls : Obeys(r, on, given)
    BY <2>1, <2>2
  <2> HIDE DEF calls
  <2>5. Obey(most, on, given)
    BY <2>3, <2>4 DEF Obey
  <2>6. Obey(<<reconcileImageUpdaterNetworkPolicy(on), ReconcileRedisNetworkPolicy(on),
               ReconcileRedisHANetworkPolicy(on)>> \o most, on, given)
    BY <1>2, <2>5, JoinedObey
  <2> QED BY <1>3, <2>6, Zenon DEF ReconcileNetworkPolicies, PoliciesEnabled
<1>4. CASE ~PoliciesEnabled(on)
  <2> DEFINE names == {"notifications-controller", "dex-server",
                       "applicationset-controller", "server", "application-controller",
                       "repo-server", "image-updater"}
             calls == {Legacy(Policy(name), TRUE) : name \in names}
             most == deleteArgoCDNetworkPolicies(on)
  <2>1. \A name \in names : Obeys(Legacy(Policy(name), TRUE), on, given)
    BY <1>4 DEF Legacy
  <2> HIDE RequestedPolicies, PlainObeys DEF Resource, Policed, Policy
  <2>2. most \in Seq(calls)
    <3> DEFINE list == <<"notifications-controller", "dex-server",
                         "applicationset-controller", "server", "application-controller",
                         "repo-server", "image-updater">>
    <3>1. DOMAIN list = 1..7 /\ \A i \in 1..7 : list[i] \in names
      OBVIOUS
    <3>2. most = [i \in DOMAIN list |-> Legacy(Policy(list[i]), TRUE)]
      BY DEF deleteArgoCDNetworkPolicies
    <3> HIDE DEF list, names, most
    <3>3. \A i \in 1..7 : Legacy(Policy(list[i]), TRUE) \in calls
      BY <3>1
    <3> HIDE DEF calls
    <3>4. most \in [1..7 -> calls]
      BY <3>1, <3>2, <3>3
    <3>5. 7 \in Nat
      OBVIOUS
    <3> QED BY <3>4, <3>5, SeqDef, Zenon
  <2>3. \A r \in calls : Obeys(r, on, given)
    BY <2>1
  <2> HIDE DEF calls
  <2>4. Obey(most, on, given)
    BY <2>2, <2>3 DEF Obey
  <2>5. Obey(<<reconcileImageUpdaterNetworkPolicy(on), ReconcileRedisNetworkPolicy(on),
               ReconcileRedisHANetworkPolicy(on)>> \o most, on, given)
    BY <1>2, <2>4, JoinedObey
  <2> QED BY <1>4, <2>5, Zenon DEF ReconcileNetworkPolicies, PoliciesEnabled
<1> QED BY <1>3, <1>4

(* reconcileImageUpdaterController.                                        *)
LEMMA ImageUpdaterObeys ==
  ASSUME NEW on, NEW given,
         UpdaterEnabled(on) =>
           {UpdaterObj("ServiceAccount"), <<"ConfigMap", "argocd-tls-certs-cm">>}
             \subseteq given
  PROVE  Obey(reconcileImageUpdaterController(on), on, given)
<1> DEFINE api == "image-updater.api" \in on
           Good(r) == Poised(r, on, given, api)
<1> HIDE DEF api
<1> USE DEF UpdaterObj, UpdaterEnabled, MappedKinds
<1>1. Good(reconcileImageUpdaterServiceAccount(on))
  <2> DEFINE r == reconcileImageUpdaterServiceAccount(on)
  <2>1. /\ DOMAIN r = CallFields /\ r.obj = SA("image-updater") /\ r.needs = {}
        /\ r.doomed = ("image-updater" \notin on) /\ r.late = FALSE
    BY DEF Resource, CallFields, Unowned, reconcileRoleHelper, reconcileRoleBindingHelper, Legacy,
           reconcileImageUpdaterServiceAccount, SA
  <2> HIDE DEF r
  <2>2. Obeys(r, on, given)
    <3>1. r.obj \in OwnAccounts(on) \cup Groundwork(on) => UpdaterEnabled(on)
      BY <2>1, GroundworkKinds
    <3>2. r.obj \in OwnAccounts(on) \cup Groundwork(on) => ~r.doomed /\ ~r.late
      BY <2>1, <3>1
    <3>3. r.obj[1] = "ServiceAccount" /\ r.needs = {}
      BY <2>1 DEF SA
    <3> QED BY <3>2, <3>3, AccountObeys
  <2>3. Good(r)
    BY <2>1, <2>2 DEF Poised, SA, Ancestor, Successor, Depl, Sts
  <2> QED BY <2>3 DEF r
<1>2. ASSUME NEW r \in {reconcileImageUpdaterRole(on), reconcileImageUpdaterRoleBinding(on)}
      PROVE  Good(r)
  <2>1. /\ DOMAIN r = CallFields /\ \E kind \in {"Role", "RoleBinding"} : r.obj = UpdaterObj(kind)
        /\ r.needs = {} /\ r.awaits = {}
        /\ r.wanted = ("image-updater" \in on) /\ r.doomed = ("image-updater" \notin on)
    BY DEF Resource, CallFields, Unowned, reconcileRoleHelper, reconcileRoleBindingHelper, Legacy,
           reconcileImageUpdaterRole, reconcileImageUpdaterRoleBinding
  <2>2. api => Correct(r, on)
    BY <2>1, RequestedUpdater DEF Correct, Right, api
  <2> QED BY <2>1, <2>2, PoisedPlain DEF Plain
<1>3. ASSUME NEW r \in {reconcileImageUpdaterClusterRole(on),
                        reconcileImageUpdaterClusterRoleBinding(on)}
      PROVE  Good(r)
  <2>1. /\ DOMAIN r = CallFields /\ \E kind \in MappedKinds : r.obj = UpdaterObj(kind)
        /\ r.needs = {} /\ r.awaits = {}
        /\ r.wanted = ("image-updater" \in on /\ "image-updater.all" \in on)
        /\ r.doomed = ~("image-updater" \in on /\ "image-updater.all" \in on)
    BY DEF Resource, CallFields, Unowned, reconcileRoleHelper, reconcileRoleBindingHelper, Legacy,
           reconcileImageUpdaterClusterRole, reconcileImageUpdaterClusterRoleBinding, WatchesAll
  <2>2. api => Correct(r, on)
    BY <2>1, RequestedUpdater DEF Correct, Right, api
  <2> QED BY <2>1, <2>2, PoisedPlain DEF Plain
<1>4. ASSUME NEW r \in {reconcileImageUpdaterRoleForNamespace(on),
                        reconcileImageUpdaterRoleBindingForNamespace(on)}, NEW c
      PROVE  Poised(r, on, given, c)
  <2>1. ASSUME NEW q, NEW kind \in {"Role", "RoleBinding"}, NEW w, NEW m, NEW fields,
               q = Unowned(Resource(<<kind, "image-updater", "watched">>, w, m, fields))
        PROVE  /\ DOMAIN q = CallFields /\ q.obj[1] \in {"Role", "RoleBinding"} /\ ~q.owned
               /\ q.needs = {} /\ q.awaits = {}
    BY <2>1 DEF Resource, CallFields, Unowned
  <2>2. /\ DOMAIN r = CallFields /\ r.obj[1] \in {"Role", "RoleBinding"} /\ ~r.owned
        /\ r.needs = {} /\ r.awaits = {}
    BY <2>1 DEF reconcileRoleHelper, reconcileRoleBindingHelper,
                reconcileImageUpdaterRoleForNamespace,
                reconcileImageUpdaterRoleBindingForNamespace
  <2>3. Correct(r, on)
    BY <2>2 DEF Correct, Decides, setResourceWatches
  <2> QED BY <2>2, <2>3, PoisedPlain DEF Plain
<1>5. ASSUME NEW kind \in {"Role", "RoleBinding"}, NEW c
      PROVE  Poised(Legacy(<<kind, "image-updater", "watched">>, TRUE), on, given, c)
  <2> DEFINE r == Legacy(<<kind, "image-updater", "watched">>, TRUE)
  <2>1. /\ DOMAIN r = CallFields /\ r.obj = <<kind, "image-updater", "watched">> /\ r.doomed = TRUE
        /\ r.needs = {} /\ r.awaits = {}
    BY DEF Resource, CallFields, Unowned, reconcileRoleHelper, reconcileRoleBindingHelper, Legacy
  <2> HIDE DEF r
  <2>2. Correct(r, on)
    BY <2>1, RequestedUpdater DEF Correct, Right, api
  <2>3. Poised(r, on, given, c)
    BY <2>1, <2>2, PoisedPlain DEF Plain
  <2> QED BY <2>3 DEF r
<1>6. ASSUME NEW kind \in MappedKinds
      PROVE  Poised(Legacy(UpdaterObj(kind), TRUE), on, given, ~WatchesAll(on) /\ api)
  <2> DEFINE r == Legacy(UpdaterObj(kind), TRUE)
  <2>1. /\ DOMAIN r = CallFields /\ r.obj = UpdaterObj(kind) /\ r.doomed = TRUE
        /\ r.needs = {} /\ r.awaits = {}
    BY DEF Resource, CallFields, Unowned, reconcileRoleHelper, reconcileRoleBindingHelper, Legacy
  <2> HIDE DEF r
  <2>2. ~WatchesAll(on) => Correct(r, on)
    BY <2>1, RequestedUpdater DEF Correct, Right, api, WatchesAll
  <2>3. Plain(r)
    BY <2>1 DEF Plain
  <2> HIDE DEF UpdaterObj, MappedKinds
  <2>4. Poised(r, on, given, ~WatchesAll(on) /\ api)
    BY <2>1, <2>2, <2>3, PoisedPlain
  <2> QED BY <2>4 DEF r
<1>7. ASSUME NEW r \in {reconcileImageUpdaterSecret(on),
                        reconcileImageUpdaterConfigMap("argocd-image-updater-config", on),
                        reconcileImageUpdaterConfigMap("argocd-image-updater-ssh-config", on)}
      PROVE  Good(r)
  <2>1. /\ DOMAIN r = CallFields
        /\ r.obj \in {Sec("argocd-image-updater-secret"), CfgMap("argocd-image-updater-config"),
                      CfgMap("argocd-image-updater-ssh-config")}
        /\ r.needs = {} /\ r.awaits = {}
        /\ r.wanted = ("image-updater" \in on) /\ r.doomed = ("image-updater" \notin on)
    BY DEF Resource, CallFields, Unowned, reconcileRoleHelper, reconcileRoleBindingHelper, Legacy,
           reconcileImageUpdaterSecret, reconcileImageUpdaterConfigMap, Sec, CfgMap,
           reconcileSecretConfigMapHelper
  <2>2. api => Correct(r, on)
    BY <2>1, RequestedUpdater DEF Correct, Right, api
  <2>3. api => Obeys(r, on, given)
    BY <2>1, <2>2, StoreObeys DEF Sec, CfgMap
  <2> QED BY <2>1, <2>3 DEF Poised, Sec, CfgMap, Ancestor, Successor, Depl, Sts
<1>8. Good(reconcileImageUpdaterDeployment(on))
  <2> DEFINE r == reconcileImageUpdaterDeployment(on)
             needs == {UpdaterObj("ServiceAccount"), <<"ConfigMap", "argocd-tls-certs-cm">>}
  <2>1. /\ DOMAIN r = CallFields /\ r.obj = UpdaterObj("Deployment") /\ r.needs = needs
        /\ r.awaits = {} /\ r.wanted = ("image-updater" \in on)
        /\ r.doomed = ("image-updater" \notin on)
    BY DEF Resource, CallFields, Unowned, reconcileRoleHelper, reconcileRoleBindingHelper, Legacy,
           reconcileImageUpdaterDeployment, Needing, Immutable
  <2>2. (UpdaterEnabled(on) => needs \subseteq given) /\ Bare(needs)
    BY DEF Bare, UpdaterObj
  <2> HIDE DEF r, needs
  <2>3. Workload(r, given)
    <3>1. UpdaterObj("Deployment") \notin {Ancestor, Successor}
      BY DEF Ancestor, Successor, Depl, Sts
    <3>2. (r.wanted => needs \subseteq given) /\ Bare(needs)
      BY <2>1, <2>2
    <3> QED BY <2>1, <3>1, <3>2 DEF Workload
  <2>4. api => Correct(r, on)
    BY <2>1, RequestedUpdater DEF Correct, Right, api
  <2>5. api => Obeys(r, on, given)
    BY <2>3, <2>4, WorkloadObeys
  <2>6. Good(r)
    BY <2>1, <2>3, <2>5 DEF Poised, Workload
  <2> QED BY <2>6 DEF r
<1>9. ~UpdaterEnabled(on) => Good(Legacy(<<"NetworkPolicy", "image-updater">>, TRUE))
  <2> DEFINE r == Legacy(<<"NetworkPolicy", "image-updater">>, TRUE)
  <2>1. /\ DOMAIN r = CallFields /\ r.obj = Policy("image-updater") /\ r.doomed = TRUE
        /\ r.needs = {} /\ r.awaits = {}
    BY DEF Resource, CallFields, Unowned, reconcileRoleHelper, reconcileRoleBindingHelper, Legacy,
           Policy
  <2> HIDE DEF r
  <2>2. ~UpdaterEnabled(on) => Correct(r, on)
    BY <2>1, RequestedPolicies DEF Correct, Right
  <2>3. ~UpdaterEnabled(on) => Good(r)
    BY <2>1, <2>2, PoisedPlain DEF Plain, Policy
  <2> QED BY <2>3 DEF r
<1>10. \A condition : Good(Refused("image-updater", condition))
  BY RefusedObeys DEF Poised, Refused, Resource, CallFields, Ancestor, Successor, Depl, Sts
<1> HIDE DEF UpdaterObj, UpdaterEnabled, MappedKinds
<1>11. AllPoised(ConfigOf(on), on, given, api)
  <2> DEFINE calls == {reconcileImageUpdaterSecret(on),
                       reconcileImageUpdaterConfigMap("argocd-image-updater-config", on),
                       reconcileImageUpdaterConfigMap("argocd-image-updater-ssh-config", on)}
  <2>1. ConfigOf(on) \in Seq(calls)
    BY DEF ConfigOf
  <2> QED BY <1>7, <2>1 DEF AllPoised
<1>12. AllPoised(pruneImageUpdaterNamespaceRBAC(on), on, given, api)
  <2>1. \A c : AllPoised(<<Legacy(<<"Role", "image-updater", "watched">>, TRUE),
                          Legacy(<<"RoleBinding", "image-updater", "watched">>, TRUE)>>,
                        on, given, c)
    BY <1>5, PoisedCalls
  <2> QED BY <2>1, GuardedPoised, Zenon DEF pruneImageUpdaterNamespaceRBAC
<1>13. CASE UpdaterEnabled(on)
  <2> DEFINE account == <<reconcileImageUpdaterServiceAccount(on)>>
             check == Refused("image-updater", WatchesAll(on) /\ "cluster-scoped" \notin on)
             roles == <<check, reconcileImageUpdaterRole(on),
                        reconcileImageUpdaterRoleBinding(on)>>
             wide == Guarded(<<reconcileImageUpdaterClusterRole(on),
                               reconcileImageUpdaterClusterRoleBinding(on)>>, WatchesAll(on))
             watched == Guarded(<<reconcileImageUpdaterRoleForNamespace(on),
                                  reconcileImageUpdaterRoleBindingForNamespace(on)>>,
                                WatchesList(on))
             last == <<reconcileImageUpdaterDeployment(on)>>
  <2>1. AllPoised(account, on, given, api) /\ AllPoised(last, on, given, api)
    BY <1>1, <1>8, PoisedCalls
  <2>2. AllPoised(roles, on, given, api)
    <3>1. Poised(check, on, given, api)
      BY <1>10
    <3> HIDE DEF check
    <3>2. roles \in Seq({check, reconcileImageUpdaterRole(on),
                         reconcileImageUpdaterRoleBinding(on)})
      OBVIOUS
    <3> HIDE DEF roles
    <3>3. AllPoised(roles, on, given, api)
      BY <1>2, <3>1, <3>2 DEF AllPoised
    <3> QED BY <3>3
  <2>3. AllPoised(wide, on, given, api)
    <3>1. /\ Poised(reconcileImageUpdaterClusterRole(on), on, given, WatchesAll(on) /\ api)
          /\ Poised(reconcileImageUpdaterClusterRoleBinding(on), on, given,
                    WatchesAll(on) /\ api)
      BY <1>3 DEF Poised
    <3> QED BY <3>1, PoisedCalls, GuardedPoised
  <2>4. AllPoised(watched, on, given, api)
    BY <1>4, PoisedCalls, GuardedPoised
  <2>5. AllPoised(deleteImageUpdaterClusterRBAC(on), on, given, api)
    <3>1. /\ Poised(Legacy(UpdaterObj("ClusterRole"), TRUE), on, given, ~WatchesAll(on) /\ api)
          /\ Poised(Legacy(UpdaterObj("ClusterRoleBinding"), TRUE), on, given,
                    ~WatchesAll(on) /\ api)
      BY <1>6 DEF MappedKinds
    <3> QED BY <3>1, PoisedCalls, GuardedPoised DEF deleteImageUpdaterClusterRBAC
  <2> HIDE DEF account, roles, wide, watched, last
  <2>6. AllPoised(account \o deleteImageUpdaterClusterRBAC(on) \o roles, on, given, api)
    BY <2>1, <2>2, <2>5, JoinedPoised
  <2>7. AllPoised(account \o deleteImageUpdaterClusterRBAC(on) \o roles \o wide \o watched,
                  on, given, api)
    BY <2>3, <2>4, <2>6, JoinedPoised
  <2>8. AllPoised(account \o deleteImageUpdaterClusterRBAC(on) \o roles \o wide \o watched
                    \o pruneImageUpdaterNamespaceRBAC(on) \o ConfigOf(on) \o last,
                  on, given, api)
    BY <1>11, <1>12, <2>1, <2>7, JoinedPoised
  <2>9. AllPoised(reconcileImageUpdaterControllerEnabled(on), on, given, api)
    BY <2>8, Zenon DEF reconcileImageUpdaterControllerEnabled, account, roles, check, wide,
                       watched, last
  <2>10. reconcileImageUpdaterController(on)
           = Guarded(reconcileImageUpdaterControllerEnabled(on), api)
    BY <1>13 DEF reconcileImageUpdaterController, api
  <2> QED BY <2>9, <2>10, GuardedObey
<1>14. CASE ~UpdaterEnabled(on)
  <2> DEFINE policy == Legacy(<<"NetworkPolicy", "image-updater">>, TRUE)
             calls == <<policy,
               reconcileImageUpdaterDeployment(on), reconcileImageUpdaterRoleBinding(on),
               reconcileImageUpdaterClusterRoleBinding(on),
               reconcileImageUpdaterServiceAccount(on),
               reconcileImageUpdaterRole(on), reconcileImageUpdaterClusterRole(on)>>
  <2>1. Poised(policy, on, given, api)
    BY <1>9, <1>14
  <2> HIDE DEF policy
  <2>2. calls \in Seq({policy,
               reconcileImageUpdaterDeployment(on), reconcileImageUpdaterRoleBinding(on),
               reconcileImageUpdaterClusterRoleBinding(on),
               reconcileImageUpdaterServiceAccount(on),
               reconcileImageUpdaterRole(on), reconcileImageUpdaterClusterRole(on)})
    OBVIOUS
  <2> HIDE DEF calls
  <2>3. AllPoised(calls, on, given, api)
    BY <1>1, <1>2, <1>3, <1>8, <2>1, <2>2 DEF AllPoised
  <2>4. AllPoised(calls \o pruneImageUpdaterNamespaceRBAC(on) \o ConfigOf(on), on, given, api)
    BY <1>11, <1>12, <2>3, JoinedPoised
  <2>5. AllPoised(reconcileImageUpdaterControllerDisabled(on), on, given, api)
    BY <2>4, Zenon DEF reconcileImageUpdaterControllerDisabled, calls, policy
  <2>6. reconcileImageUpdaterController(on)
           = Guarded(reconcileImageUpdaterControllerDisabled(on), api)
    BY <1>14 DEF reconcileImageUpdaterController, api
  <2> QED BY <2>5, <2>6, GuardedObey
<1> QED BY <1>13, <1>14
(* The calls of the principal and of the agent are alike. *)
Sides == {Principal, AgentSide}

DeploymentOf(side, on, manifest, compared) ==
  Immutable(Needing(Resource(<<"Deployment", side>>, side \in on, manifest, compared),
                    {<<"ServiceAccount", side>>}), {"selector"})

(* What both sides of the agent have.                                      *)
LEMMA SideObeys ==
  ASSUME NEW on, NEW given, NEW side \in Sides, side \in on => SA(side) \in given
  PROVE  /\ Obeys(ServiceAccountOf(side, side \in on), on, given)
         /\ Obeys(RoleOf(side, side \in on, on), on, given)
         /\ Obeys(RoleBindingOf(side, side \in on, on), on, given)
         /\ \A rules : Obeys(ClusterRoleOf(side, side \in on, rules, on), on, given)
         /\ Obeys(ClusterRoleBindingOf(side, side \in on, on), on, given)
         /\ \A port \in {"metrics", "healthz"} :
              Obeys(ServiceOf(side, port, side \in on), on, given)
         /\ Obeys(ServiceMonitorOf(side, side \in on, on), on, given)
         /\ \A m, fields : Obeys(DeploymentOf(side, on, m, fields), on, given)
<1> USE DEF Sides
<1>1. /\ "agent-principal" = Principal /\ "agent-agent" = AgentSide
      /\ hasPrincipal(on) = (Principal \in on) /\ hasAgent(on) = (AgentSide \in on)
  BY DEF Principal, AgentSide, hasPrincipal, hasAgent
<1>2. Obeys(ServiceAccountOf(side, side \in on), on, given)
  <2> DEFINE r == ServiceAccountOf(side, side \in on)
  <2>1. /\ r.obj = SA(side) /\ r.obj[1] = "ServiceAccount" /\ r.needs = {}
        /\ r.doomed = (side \notin on) /\ r.late = FALSE
    BY DEF ServiceAccountOf, Resource, SA
  <2> HIDE DEF r
  <2>2. r.obj \in OwnAccounts(on) \cup Groundwork(on) => side \in on
    BY <1>1, <2>1, GroundworkKinds
  <2>3. r.obj \in OwnAccounts(on) \cup Groundwork(on) => ~r.doomed /\ ~r.late
    BY <2>1, <2>2
  <2>4. Obeys(r, on, given)
    BY <2>1, <2>3, AccountObeys
  <2> QED BY <2>4 DEF r
<1>3. /\ Obeys(RoleOf(side, side \in on, on), on, given)
      /\ Obeys(RoleBindingOf(side, side \in on, on), on, given)
  <2> USE RequestedAgent, PlainObeys DEF Plain, Correct, Right, Resource, Immutable
  <2>1. Obeys(RoleOf(side, side \in on, on), on, given)
    BY DEF RoleOf
  <2>2. Obeys(RoleBindingOf(side, side \in on, on), on, given)
    BY DEF RoleBindingOf
  <2> QED BY <2>1, <2>2
<1>4. ASSUME NEW rules
      PROVE  /\ Obeys(ClusterRoleOf(side, side \in on, rules, on), on, given)
             /\ Obeys(ClusterRoleBindingOf(side, side \in on, on), on, given)
  <2>1. \A kind \in MappedKinds :
          <<kind, side>> \in Requested(on) <=> ClusterWide(side \in on, on)
    BY RequestedAgent DEF ClusterWide, Custom
  <2> USE <2>1, PlainObeys DEF Plain, Correct, Right, Resource, Unowned, MappedKinds
  <2>2. Obeys(ClusterRoleOf(side, side \in on, rules, on), on, given)
    BY DEF ClusterRoleOf
  <2>3. Obeys(ClusterRoleBindingOf(side, side \in on, on), on, given)
    BY DEF ClusterRoleBindingOf
  <2> QED BY <2>2, <2>3
<1>5. /\ \A port \in {"metrics", "healthz"} :
           Obeys(ServiceOf(side, port, side \in on), on, given)
      /\ Obeys(ServiceMonitorOf(side, side \in on, on), on, given)
  <2> USE RequestedAgent, PlainObeys DEF Plain, Correct, Decides, Right, Resource, OnlyIf
  <2>1. ASSUME NEW port \in {"metrics", "healthz"}
        PROVE  Obeys(ServiceOf(side, port, side \in on), on, given)
    BY DEF ServiceOf
  <2>2. Obeys(ServiceMonitorOf(side, side \in on, on), on, given)
    <3> DEFINE r == ServiceMonitorOf(side, side \in on, on)
    <3>1. /\ r.obj = <<"ServiceMonitor", side, "metrics">> /\ r.needs = {} /\ r.awaits = {}
          /\ r.reached = ("prometheus.api" \in on)
          /\ r.wanted = (side \in on /\ "prometheus" \in on)
          /\ r.doomed = ~(side \in on /\ "prometheus" \in on)
      BY DEF ServiceMonitorOf
    <3> HIDE DEF r
    <3>2. r.obj \in Requested(on)
            <=> side \in on /\ "prometheus" \in on /\ "prometheus.api" \in on
      BY <3>1
    <3> HIDE RequestedAgent, PlainObeys DEF Resource, OnlyIf
    <3>3. Correct(r, on)
      BY <3>1, <3>2
    <3>4. Obeys(r, on, given)
      BY <3>1, <3>3, PlainObeys
    <3> QED BY <3>4 DEF r
  <2> QED BY <2>1, <2>2
<1>6. ASSUME NEW r, NEW m, NEW fields,
              r = DeploymentOf(side, on, m, fields)
       PROVE  Obeys(r, on, given)
  <2>1. /\ r.obj = <<"Deployment", side>> /\ r.awaits = {} /\ r.wanted = (side \in on)
        /\ r.doomed = (side \notin on) /\ r.needs = {SA(side)}
    BY <1>6 DEF DeploymentOf, Immutable, Needing, Resource, SA
  <2>2. side \in on => SA(side) \in given
    OBVIOUS
  <2>3. <<"Deployment", side>> \notin {Ancestor, Successor}
    BY DEF Ancestor, Successor, Depl, Sts, Principal, AgentSide
  <2>4. Workload(r, given)
    <3>1. r.obj[1] = "Deployment" /\ r.obj \notin {Ancestor, Successor}
      BY <2>1, <2>3
    <3>2. (r.wanted => r.needs \subseteq given) /\ Bare(r.needs)
      <4>1. Bare({SA(side)})
        BY DEF Bare, SA
      <4> QED BY <2>1, <2>2, <4>1
    <3> QED BY <2>1, <3>1, <3>2 DEF Workload
  <2>5. Correct(r, on)
    BY <2>1, RequestedAgent DEF Correct, Right
  <2> QED BY <2>4, <2>5, WorkloadObeys
<1> QED BY <1>2, <1>3, <1>4, <1>5, <1>6

PrincipalCalls(on) ==
  {Refused("agent", AgentConflict(on)), ReconcilePrincipalServiceAccount(on),
   ReconcilePrincipalRole(on), ReconcilePrincipalClusterRoles(on),
   ReconcilePrincipalRoleBinding(on), ReconcilePrincipalClusterRoleBinding(on),
   ReconcilePrincipalService(on), ReconcilePrincipalMetricsService(on),
   ReconcilePrincipalServiceMonitor(on), ReconcilePrincipalRedisProxyService(on),
   ReconcilePrincipalResourceProxyService(on), ReconcilePrincipalHealthzService(on),
   ReconcilePrincipalNetworkPolicy(on), ReconcilePrincipalRoute(on),
   ReconcilePrincipalDeployment(on)}

AgentCalls(on) ==
  {ReconcileAgentServiceAccount(on), ReconcileAgentRole(on),
   ReconcileAgentClusterRoles(on), ReconcileAgentRoleBinding(on),
   ReconcileAgentClusterRoleBinding(on), ReconcileAgentMetricsService(on),
   ReconcileAgentServiceMonitor(on), ReconcileAgentHealthzService(on),
   ReconcileAgentDeployment(on)}

(* The calls of the principal.                                             *)
LEMMA PrincipalObeys ==
  ASSUME NEW on, NEW given, Principal \in on => SA(Principal) \in given
  PROVE  \A r \in PrincipalCalls(on) : Obeys(r, on, given)
<1>1. hasPrincipal(on) = (Principal \in on) /\ Principal \in Sides
  BY DEF hasPrincipal, Sides
<1>2. \A condition : Obeys(Refused("agent", condition), on, given)
  BY RefusedObeys
<1>3. /\ Obeys(ReconcilePrincipalServiceAccount(on), on, given)
      /\ Obeys(ReconcilePrincipalRole(on), on, given)
      /\ Obeys(ReconcilePrincipalRoleBinding(on), on, given)
  BY <1>1, SideObeys DEF ReconcilePrincipalServiceAccount, ReconcilePrincipalRole,
                         ReconcilePrincipalRoleBinding
<1>4. /\ Obeys(ReconcilePrincipalClusterRoles(on), on, given)
      /\ Obeys(ReconcilePrincipalClusterRoleBinding(on), on, given)
  BY <1>1, SideObeys DEF ReconcilePrincipalClusterRoles, ReconcilePrincipalClusterRoleBinding
<1>5. /\ Obeys(ReconcilePrincipalMetricsService(on), on, given)
      /\ Obeys(ReconcilePrincipalServiceMonitor(on), on, given)
      /\ Obeys(ReconcilePrincipalHealthzService(on), on, given)
  BY <1>1, SideObeys DEF ReconcilePrincipalMetricsService, ReconcilePrincipalServiceMonitor,
                         ReconcilePrincipalHealthzService
<1>6. ASSUME NEW port \in {"redisproxy", "resource-proxy"}
      PROVE  Obeys(ServiceOf(Principal, port, Principal \in on), on, given)
  BY RequestedPrincipal, PlainObeys DEF Plain, Correct, Right, Resource, ServiceOf
<1>7. Obeys(ReconcilePrincipalService(on), on, given)
  BY RequestedPrincipal, PlainObeys
     DEF Plain, Correct, Right, Resource, ReconcilePrincipalService, hasPrincipal
<1>8. Obeys(ReconcilePrincipalNetworkPolicy(on), on, given)
  BY RequestedPrincipal, PlainObeys
     DEF Plain, Correct, Right, Resource, ReconcilePrincipalNetworkPolicy, hasPrincipal, Policy
<1>9. Obeys(ReconcilePrincipalRoute(on), on, given)
  BY RequestedPrincipal, PlainObeys
     DEF Plain, Correct, Decides, Right, Resource, ReconcilePrincipalRoute, hasPrincipal, Rt,
         OnlyIf, RouteAPI
<1>10. /\ Obeys(ReconcilePrincipalRedisProxyService(on), on, given)
       /\ Obeys(ReconcilePrincipalResourceProxyService(on), on, given)
  BY <1>1, <1>6 DEF ReconcilePrincipalRedisProxyService, ReconcilePrincipalResourceProxyService
<1>11. Obeys(ReconcilePrincipalDeployment(on), on, given)
  BY <1>1, SideObeys DEF ReconcilePrincipalDeployment, DeploymentOf
<1> QED BY <1>2, <1>3, <1>4, <1>5, <1>7, <1>8, <1>9, <1>10, <1>11 DEF PrincipalCalls

(* The calls of the agent.                                                 *)
LEMMA AgentObeys ==
  ASSUME NEW on, NEW given, AgentSide \in on => SA(AgentSide) \in given
  PROVE  \A r \in AgentCalls(on) : Obeys(r, on, given)
<1>1. hasAgent(on) = (AgentSide \in on) /\ AgentSide \in Sides
  BY DEF hasAgent, Sides
<1>2. /\ Obeys(ReconcileAgentServiceAccount(on), on, given)
      /\ Obeys(ReconcileAgentRole(on), on, given)
      /\ Obeys(ReconcileAgentRoleBinding(on), on, given)
  BY <1>1, SideObeys DEF ReconcileAgentServiceAccount, ReconcileAgentRole,
                         ReconcileAgentRoleBinding
<1>3. /\ Obeys(ReconcileAgentClusterRoles(on), on, given)
      /\ Obeys(ReconcileAgentClusterRoleBinding(on), on, given)
  BY <1>1, SideObeys DEF ReconcileAgentClusterRoles, ReconcileAgentClusterRoleBinding
<1>4. /\ Obeys(ReconcileAgentMetricsService(on), on, given)
      /\ Obeys(ReconcileAgentServiceMonitor(on), on, given)
      /\ Obeys(ReconcileAgentHealthzService(on), on, given)
  BY <1>1, SideObeys DEF ReconcileAgentMetricsService, ReconcileAgentServiceMonitor,
                         ReconcileAgentHealthzService
<1>5. Obeys(ReconcileAgentDeployment(on), on, given)
  BY <1>1, SideObeys DEF ReconcileAgentDeployment, DeploymentOf
<1> QED BY <1>2, <1>3, <1>4, <1>5 DEF AgentCalls
-----------------------------------------------------------------------------
(* The order of the calls. A call that is not left out, and whose error    *)
(* ends the pass, ensures that its object exists once the pass is past it. *)
Ensures(r) ==
  /\ r.reached /\ r.wanted /\ ~r.doomed /\ ~r.late /\ ~r.logged
  /\ r.unless = {} /\ r.awaits = {} /\ r.follows = <<>> /\ r.defers = <<>>

Provides(r, n) == r.obj = n /\ (n = Ancestor \/ Ensures(r))

(* What a call relies on is given, or provided by an earlier call. *)
InOrder(calls, given) ==
  \A i \in DOMAIN calls : \A n \in Relies(calls[i]) \ given :
    \E j \in DOMAIN calls : j < i /\ Provides(calls[j], n)

Supplies(calls, objs) ==
  \A n \in objs : \E j \in DOMAIN calls : Provides(calls[j], n)

(* Calls that obey are in order, given the same.                           *)
LEMMA ObeyInOrder ==
  ASSUME NEW on, NEW given, NEW s, Obey(s, on, given)
  PROVE  InOrder(s, given)
<1>1. PICK S : s \in Seq(S) /\ \A r \in S : Obeys(r, on, given)
  BY DEF Obey
<1>2. \A i \in DOMAIN s : s[i] \in S
  BY <1>1
<1>3. \A i \in DOMAIN s : Relies(s[i]) \subseteq given
  BY <1>1, <1>2 DEF Obeys
<1> QED BY <1>3 DEF InOrder

(* What a call provides to all that rely on it need not be given.          *)
LEMMA ProvidedEarlier ==
  ASSUME NEW given, NEW n, NEW s, DOMAIN s \subseteq Nat, InOrder(s, given \cup {n}),
         NEW k \in DOMAIN s, Provides(s[k], n),
         \A i \in DOMAIN s : i <= k => n \notin Relies(s[i])
  PROVE  InOrder(s, given)
<1>1. SUFFICES ASSUME NEW i \in DOMAIN s, NEW m \in Relies(s[i]) \ given
               PROVE  \E j \in DOMAIN s : j < i /\ Provides(s[j], m)
  BY DEF InOrder
<1>2. CASE m = n
  <2>1. k < i
    BY <1>2
  <2> QED BY <1>2, <2>1
<1>3. CASE m # n
  BY <1>3 DEF InOrder
<1> QED BY <1>2, <1>3

(* Sequences joined: what the first supplies is given to the second. *)
LEMMA JoinedSupplies ==
  ASSUME NEW on, NEW s, NEW t, Fits(s, on), Fits(t, on), NEW objs,
         Supplies(s, objs) \/ Supplies(t, objs)
  PROVE  Supplies(s \o t, objs)
<1>1. SUFFICES ASSUME NEW n \in objs
               PROVE  \E j \in DOMAIN (s \o t) : Provides((s \o t)[j], n)
  BY DEF Supplies
<1>2. /\ Len(s) \in Nat /\ DOMAIN s = 1..Len(s) /\ DOMAIN t = 1..Len(t) /\ Len(t) \in Nat
      /\ DOMAIN (s \o t) = 1..(Len(s) + Len(t))
      /\ \A i \in 1..Len(s) : (s \o t)[i] = s[i]
      /\ \A i \in 1..Len(t) : (s \o t)[Len(s) + i] = t[i]
  BY Concatenated
<1>3. CASE Supplies(s, objs)
  <2>1. PICK j \in DOMAIN s : Provides(s[j], n)
    BY <1>3 DEF Supplies
  <2>2. j \in DOMAIN (s \o t) /\ (s \o t)[j] = s[j]
    BY <1>2
  <2> QED BY <2>1, <2>2
<1>4. CASE Supplies(t, objs)
  <2>1. PICK j \in DOMAIN t : Provides(t[j], n)
    BY <1>4 DEF Supplies
  <2>2. Len(s) + j \in DOMAIN (s \o t) /\ (s \o t)[Len(s) + j] = t[j]
    BY <1>2
  <2> QED BY <2>1, <2>2
<1> QED BY <1>3, <1>4

(* So the two are in order.                                                *)
LEMMA JoinedInOrder ==
  ASSUME NEW on, NEW s, NEW t, Fits(s, on), Fits(t, on), NEW objs,
         InOrder(s, {}), Supplies(s, objs), InOrder(t, objs)
  PROVE  InOrder(s \o t, {})
<1> DEFINE st == s \o t
<1>1. SUFFICES ASSUME NEW i \in DOMAIN st, NEW n \in Relies(st[i])
               PROVE  \E j \in DOMAIN st : j < i /\ Provides(st[j], n)
  BY DEF InOrder
<1>2. /\ Len(s) \in Nat /\ DOMAIN s = 1..Len(s) /\ DOMAIN t = 1..Len(t) /\ Len(t) \in Nat
      /\ DOMAIN st = 1..(Len(s) + Len(t))
      /\ \A k \in 1..Len(s) : st[k] = s[k]
      /\ \A k \in 1..Len(t) : st[Len(s) + k] = t[k]
  BY Concatenated
<1> HIDE DEF st
<1>3. CASE i \in 1..Len(s)
  <2>1. n \in Relies(s[i])
    BY <1>2, <1>3
  <2>2. PICK j \in DOMAIN s : j < i /\ Provides(s[j], n)
    BY <1>2, <1>3, <2>1 DEF InOrder
  <2>3. j \in DOMAIN st /\ st[j] = s[j]
    BY <1>2
  <2> QED BY <2>2, <2>3
<1>4. CASE i \notin 1..Len(s)
  <2>1. PICK k \in 1..Len(t) : i = Len(s) + k /\ st[i] = t[k]
    <3>1. i - Len(s) \in 1..Len(t) /\ i = Len(s) + (i - Len(s))
      BY <1>2, <1>4
    <3> QED BY <1>2, <3>1
  <2>2. CASE n \in objs
    <3>1. PICK j \in DOMAIN s : Provides(s[j], n)
      BY <2>2 DEF Supplies
    <3>2. j \in DOMAIN st /\ st[j] = s[j] /\ j < i
      BY <1>2, <2>1
    <3> QED BY <3>1, <3>2
  <2>3. CASE n \notin objs
    <3>1. PICK j \in DOMAIN t : j < k /\ Provides(t[j], n)
      BY <1>2, <2>1, <2>3 DEF InOrder
    <3>2. Len(s) + j \in DOMAIN st /\ st[Len(s) + j] = t[j] /\ Len(s) + j < i
      BY <1>2, <2>1, <3>1
    <3> QED BY <3>1, <3>2
  <2> QED BY <2>2, <2>3
<1> QED BY <1>3, <1>4

(* Calls that supply the groundwork, and calls that may follow them. *)
Ready(calls, on) ==
  Fits(calls, on) /\ InOrder(calls, {}) /\ Supplies(calls, Groundwork(on))
MayFollow(calls, on) == Fits(calls, on) /\ InOrder(calls, Groundwork(on))

(* One after the other.                                                    *)
LEMMA ReadyJoined ==
  ASSUME NEW on, NEW s, NEW t, Ready(s, on), MayFollow(t, on)
  PROVE  Ready(s \o t, on)
BY JoinedFit, JoinedInOrder, JoinedSupplies DEF Ready, MayFollow

(* The positions of calls are numbers.                                     *)
LEMMA FitsDomain ==
  ASSUME NEW on, NEW s, Fits(s, on)
  PROVE  DOMAIN s \subseteq Nat
BY DEF Fits

(* A component whose first call creates the service account. *)
LEMMA AccountFirst ==
  ASSUME NEW on, NEW s, NEW n, Fits(s, on), Obey(s, on, Groundwork(on) \cup {n}),
         1 \in DOMAIN s, Provides(s[1], n), n # Ancestor, s[1].needs = {}
  PROVE  MayFollow(s, on)
<1>1. InOrder(s, Groundwork(on) \cup {n})
  BY ObeyInOrder
<1>2. DOMAIN s \subseteq Nat /\ \A i \in DOMAIN s : i <= 1 => i = 1
  <2>1. PICK S : s \in Seq(S)
    BY DEF Fits
  <2> QED BY <2>1
<1>3. n \notin Relies(s[1])
  BY DEF Relies
<1> QED BY <1>1, <1>2, <1>3, ProvidedEarlier DEF MayFollow

(* Calls that need the groundwork only.                                    *)
LEMMA ObeyFollows ==
  ASSUME NEW on, NEW s, Fits(s, on), Obey(s, on, Groundwork(on))
  PROVE  MayFollow(s, on)
BY ObeyInOrder DEF MayFollow

(* The length of a sequence of calls is a number.                          *)
LEMMA LengthOf ==
  ASSUME NEW S, NEW s \in Seq(S), NEW n \in Nat, DOMAIN s = 1..n
  PROVE  Len(s) = n
<1>1. 1..Len(s) = 1..n /\ Len(s) \in Nat
  OBVIOUS
<1>2. (n \in 1..n \/ n = 0) /\ (Len(s) \in 1..Len(s) \/ Len(s) = 0)
  BY <1>1
<1>3. n <= Len(s) /\ Len(s) <= n
  BY <1>1, <1>2
<1> QED BY <1>1, <1>3

(* A call after a sequence.                                                *)
LEMMA Appended ==
  ASSUME NEW on, NEW s, NEW t, Fits(s, on), Fits(t, on), Len(s) = 1
  PROVE  /\ DOMAIN (s \o t) = 1..(Len(t) + 1) /\ (s \o t)[1] = s[1]
         /\ \A i \in 1..Len(t) : (s \o t)[i + 1] = t[i]
<1>2. /\ Len(s) \in Nat /\ DOMAIN s = 1..Len(s) /\ DOMAIN t = 1..Len(t) /\ Len(t) \in Nat
      /\ DOMAIN (s \o t) = 1..(Len(s) + Len(t))
      /\ \A i \in 1..Len(s) : (s \o t)[i] = s[i]
      /\ \A i \in 1..Len(t) : (s \o t)[Len(s) + i] = t[i]
  BY Concatenated
<1>3. \A i \in 1..Len(t) : Len(s) + i = i + 1
  BY <1>2
<1>4. 1 \in 1..Len(s) /\ Len(s) + Len(t) = Len(t) + 1
  BY <1>2
<1> QED BY <1>2, <1>3, <1>4

(* Single sign-on: the service account of Dex comes before its Deployment. *)
LEMMA DexInOrder ==
  ASSUME NEW on
  PROVE  InOrder(reconcileSSO(reconcileArgoConfigMap(on), on), {})
<1> DEFINE s == reconcileSSO(reconcileArgoConfigMap(on), on)
           n == SA("dex-server")
           first == DexPermissions(on) \o <<reconcileDexServiceAccount(on)>>
           last == <<reconcileDexService(on), reconcileDexDeployment(on)>>
           dex == reconcileDexResources(reconcileArgoConfigMap(on), on)
           Only(r) == OnlyIf(r, r.reached /\ UseDex(on))
<1>1. /\ Fits(s, on) /\ Fits(dex, on) /\ Fits(first, on) /\ Fits(last, on)
      /\ Fits(reconcileArgoConfigMap(on), on)
  BY ConfigMapsFit, DexFits
<1>2. Obey(s, on, {n}) /\ (~UseDex(on) => Obey(s, on, {}))
  BY ArgoConfigMapObeys, DexObeys
<1>3. CASE ~UseDex(on)
  BY <1>2, <1>3, ObeyInOrder
<1>4. CASE UseDex(on)
  <2>1. /\ DOMAIN first = 1..8 /\ first[1] = DexRole(on)
        /\ first[2] = Logged(DexServiceAccount(on)) /\ first[3] = Logged(DexRole(on))
        /\ first[4] = Logged(DexRoleBinding(on)) /\ first[5] = DexServiceAccount(on)
    BY DEF DexPermissions, reconcileServiceAccountPermissions
  <2>2. dex = first \o reconcileArgoConfigMap(on) \o last
    BY DEF reconcileDexResources
  <2> HIDE DEF first, last, dex
  <2>3. Len(dex) \in Nat /\ Len(dex) >= 5 /\ \A i \in 1..5 : dex[i] = first[i]
    <3>1. Len(first) = 8
      <4>1. PICK S : first \in Seq(S)
        BY <1>1 DEF Fits
      <4> QED BY <2>1, <4>1, LengthOf
    <3>2. /\ DOMAIN (first \o reconcileArgoConfigMap(on))
               = 1..(8 + Len(reconcileArgoConfigMap(on)))
          /\ Len(reconcileArgoConfigMap(on)) \in Nat
          /\ \A i \in 1..8 : (first \o reconcileArgoConfigMap(on))[i] = first[i]
      <4>1. PICK argo : argo = reconcileArgoConfigMap(on)
        OBVIOUS
      <4>2. Fits(argo, on) /\ Fits(first, on)
        BY <1>1, <4>1
      <4>3. /\ DOMAIN (first \o argo) = 1..(Len(first) + Len(argo)) /\ Len(argo) \in Nat
            /\ \A i \in 1..Len(first) : (first \o argo)[i] = first[i]
        BY <4>2, Concatenated
      <4> QED BY <3>1, <4>1, <4>3
    <3>3. PICK most : most = first \o reconcileArgoConfigMap(on)
      OBVIOUS
    <3>4. Fits(most, on)
      BY <1>1, <3>3, JoinedFit
    <3>5. /\ Len(most) \in Nat /\ DOMAIN most = 1..Len(most)
          /\ DOMAIN (most \o last) = 1..(Len(most) + Len(last)) /\ Len(last) \in Nat
          /\ \A i \in 1..Len(most) : (most \o last)[i] = most[i]
      BY <1>1, <3>4, Concatenated
    <3>6. 1..Len(most) = 1..(8 + Len(reconcileArgoConfigMap(on)))
      BY <3>2, <3>3, <3>5
    <3>7. \A i \in 1..5 : i \in 1..Len(most) /\ most[i] = first[i]
      BY <3>2, <3>3, <3>6
    <3>8. dex = most \o last /\ Len(dex) \in Nat /\ DOMAIN dex = 1..Len(dex)
      <4>1. PICK S : dex \in Seq(S)
        BY <1>1 DEF Fits
      <4> QED BY <2>2, <3>3, <4>1
    <3>9. \A i \in 1..5 : i \in DOMAIN dex /\ dex[i] = first[i]
      BY <3>5, <3>7, <3>8
    <3>10. 5 \in 1..Len(dex)
      BY <3>8, <3>9
    <3> QED BY <3>8, <3>9, <3>10
  <2>4. /\ s[1] = Refused("sso", IllegalSSO(on)) /\ DOMAIN s = 1..(Len(dex) + 1)
        /\ \A i \in 1..5 : s[i + 1] = Only(first[i])
    <3>1. PICK g : g = Guarded(dex, UseDex(on))
      OBVIOUS
    <3>2. Fits(g, on)
      BY <1>1, <3>1, GuardedFit
    <3>3. DOMAIN dex = 1..Len(dex)
      <4>1. PICK S : dex \in Seq(S)
        BY <1>1 DEF Fits
      <4> QED BY <4>1
    <3>4. DOMAIN g = 1..Len(dex) /\ \A i \in 1..Len(dex) : g[i] = Only(dex[i])
      BY <3>1, <3>3 DEF Guarded
    <3>5. Len(g) = Len(dex)
      <4>1. PICK S : g \in Seq(S)
        BY <3>2 DEF Fits
      <4> QED BY <2>3, <3>4, <4>1, LengthOf
    <3> DEFINE r == Refused("sso", IllegalSSO(on))
    <3>6. s = <<r>> \o g
      BY <3>1 DEF reconcileSSO, dex
    <3>7. Fit(r, on)
      BY RefusedFits
    <3> HIDE DEF s, r, Only
    <3>8. PICK one : one = <<r>>
      OBVIOUS
    <3>9. Fits(one, on) /\ Len(one) = 1 /\ one[1] = r
      BY <3>7, <3>8, SingleFits
    <3>10. /\ DOMAIN (one \o g) = 1..(Len(g) + 1) /\ (one \o g)[1] = one[1]
           /\ \A i \in 1..Len(g) : (one \o g)[i + 1] = g[i]
      BY <3>2, <3>9, Appended
    <3>11. s = one \o g
      BY <3>6, <3>8
    <3>12. \A i \in 1..5 : i \in 1..Len(g) /\ g[i] = Only(first[i])
      BY <2>3, <3>4, <3>5
    <3>13. s[1] = r /\ DOMAIN s = 1..(Len(dex) + 1) /\ \A i \in 1..5 : s[i + 1] = Only(first[i])
      BY <3>5, <3>9, <3>10, <3>11, <3>12
    <3> QED BY <3>13 DEF r
  <2> HIDE DEF s
  <2>5. /\ s[2] = Only(DexRole(on)) /\ s[3] = Only(Logged(DexServiceAccount(on)))
        /\ s[4] = Only(Logged(DexRole(on))) /\ s[5] = Only(Logged(DexRoleBinding(on)))
        /\ s[6] = Only(DexServiceAccount(on))
    <3> HIDE DEF Only
    <3>1. /\ s[2] = Only(first[1]) /\ s[3] = Only(first[2]) /\ s[4] = Only(first[3])
          /\ s[5] = Only(first[4]) /\ s[6] = Only(first[5])
      BY <2>4
    <3> QED BY <2>1, <3>1
  <2>6. \A i \in 1..6 : s[i].needs = {}
    <3>1. s[1].needs = {}
      BY <2>4 DEF Refused, Resource
    <3>2. s[2].needs = {} /\ s[4].needs = {}
      BY <2>5 DEF OnlyIf, DexRole, Resource, Logged
    <3>3. s[3].needs = {} /\ s[6].needs = {}
      BY <2>5 DEF OnlyIf, DexServiceAccount, Resource, Logged
    <3>4. s[5].needs = {}
      BY <2>5 DEF OnlyIf, DexRoleBinding, Resource, Logged
    <3> QED BY <3>1, <3>2, <3>3, <3>4
  <2>7. Provides(s[6], n)
    <3>1. /\ s[6].obj = n /\ s[6].reached = (TRUE /\ UseDex(on)) /\ s[6].wanted = UseDex(on)
          /\ s[6].doomed = ~UseDex(on) /\ s[6].late = FALSE /\ s[6].logged = FALSE
          /\ s[6].unless = {} /\ s[6].awaits = {} /\ s[6].follows = <<>> /\ s[6].defers = <<>>
      BY <2>5 DEF OnlyIf, DexServiceAccount, Resource, SA
    <3> QED BY <1>4, <3>1 DEF Provides, Ensures
  <2>8. n # Ancestor
    BY DEF Ancestor, SA, Depl
  <2>9. DOMAIN s \subseteq Nat /\ 6 \in DOMAIN s /\ \A i \in DOMAIN s : i >= 1
    BY <2>3, <2>4
  <2>10. \A i \in DOMAIN s : i <= 6 => n \notin Relies(s[i])
    BY <2>6, <2>8, <2>9 DEF Relies
  <2>11. InOrder(s, {} \cup {n})
    BY <1>2, ObeyInOrder
  <2> HIDE DEF n
  <2>12. \A given : InOrder(s, given \cup {n}) => InOrder(s, given)
    BY <2>7, <2>9, <2>10, ProvidedEarlier
  <2>13. InOrder(s, {} \cup {n}) => InOrder(s, {})
    BY <2>12
  <2> QED BY <2>11, <2>13 DEF s
<1> QED BY <1>3, <1>4

(* Which calls provide the groundwork. *)
LEMMA PlainEnsures ==
  ASSUME NEW o, NEW w, NEW m, NEW fields, w
  PROVE  Provides(Resource(o, w, m, fields), o)
<1> DEFINE r == Resource(o, w, m, fields)
<1>1. /\ r.obj = o /\ r.reached = TRUE /\ r.wanted = w /\ r.doomed = ~w /\ r.late = FALSE
      /\ r.logged = FALSE /\ r.unless = {} /\ r.awaits = {} /\ r.follows = <<>>
      /\ r.defers = <<>>
  BY DEF Resource
<1> HIDE DEF r
<1>2. Provides(r, o)
  BY <1>1 DEF Provides, Ensures
<1> QED BY <1>2 DEF r

(* A sequence supplies what one of its calls ensures.                      *)
LEMMA SuppliedOne ==
  ASSUME NEW s, NEW j \in DOMAIN s, NEW n, Provides(s[j], n)
  PROVE  Supplies(s, {n})
BY DEF Supplies

(* A sequence supplies what its calls ensure, object by object.            *)
LEMMA SuppliedAll ==
  ASSUME NEW s, NEW objs, \A n \in objs : Supplies(s, {n})
  PROVE  Supplies(s, objs)
BY DEF Supplies

(* reconcileServiceAccounts supplies the service accounts.                 *)
LEMMA AccountsSupplied ==
  ASSUME NEW on
  PROVE  /\ \A name \in {"application-controller", "server", "redis", "redis-ha"} :
              Supplies(reconcileRoleBindings(on), {SA(name)})
         /\ UseDex(on) => Supplies(reconcileRoleBindings(on), {SA("dex-server")})
<1>1. /\ Components[1] = "application-controller" /\ Components[2] = "dex-server"
      /\ Components[3] = "server" /\ Components[4] = "redis-ha" /\ Components[5] = "redis"
  BY DEF Components
<1>2. \A name : Fits(reconcileRoleBinding(name, on), on)
  BY AccessFits
<1>3. ASSUME NEW name, name = "dex-server" => UseDex(on)
      PROVE  Supplies(reconcileRoleBinding(name, on), {SA(name)})
  <2>1. Provides(reconcileServiceAccount(name, on), SA(name))
    BY <1>3, PlainEnsures DEF reconcileServiceAccount, SA, UseDex
  <2>2. /\ 1 \in DOMAIN reconcileRoleBinding(name, on)
        /\ reconcileRoleBinding(name, on)[1] = reconcileServiceAccount(name, on)
    BY DEF reconcileRoleBinding
  <2> QED BY <2>1, <2>2, SuppliedOne
<1> DEFINE b1 == reconcileRoleBinding(Components[1], on)
           b2 == reconcileRoleBinding(Components[2], on)
           b3 == reconcileRoleBinding(Components[3], on)
           b4 == reconcileRoleBinding(Components[4], on)
           b5 == reconcileRoleBinding(Components[5], on)
<1>4. /\ Fits(b1, on) /\ Fits(b2, on) /\ Fits(b3, on) /\ Fits(b4, on) /\ Fits(b5, on)
  BY <1>2
<1>5. /\ Supplies(b1, {SA("application-controller")})
      /\ UseDex(on) => Supplies(b2, {SA("dex-server")})
      /\ Supplies(b3, {SA("server")}) /\ Supplies(b4, {SA("redis-ha")})
      /\ Supplies(b5, {SA("redis")})
  BY <1>1, <1>3
<1> HIDE DEF b1, b2, b3, b4, b5
<1>6. /\ Fits(b1 \o b2, on) /\ Fits(b1 \o b2 \o b3, on) /\ Fits(b1 \o b2 \o b3 \o b4, on)
  BY <1>4, JoinedFit
<1>7. /\ Supplies(b1 \o b2 \o b3 \o b4 \o b5, {SA("application-controller")})
      /\ UseDex(on) => Supplies(b1 \o b2 \o b3 \o b4 \o b5, {SA("dex-server")})
      /\ Supplies(b1 \o b2 \o b3 \o b4 \o b5, {SA("server")})
      /\ Supplies(b1 \o b2 \o b3 \o b4 \o b5, {SA("redis-ha")})
      /\ Supplies(b1 \o b2 \o b3 \o b4 \o b5, {SA("redis")})
  BY <1>4, <1>5, <1>6, JoinedSupplies
<1>8. reconcileRoleBindings(on) = b1 \o b2 \o b3 \o b4 \o b5
  BY DEF reconcileRoleBindings, b1, b2, b3, b4, b5
<1> QED BY <1>7, <1>8

(* reconcileSecrets and reconcileConfigMaps supply the rest.               *)
LEMMA StoresSupplied ==
  ASSUME NEW on
  PROVE  /\ Supplies(reconcileSecrets(on), {RedisAuth})
         /\ \A name \in {"argocd-ssh-known-hosts-cm", "argocd-tls-certs-cm",
                         "argocd-gpg-keys-cm"} :
              Supplies(reconcileConfigMaps(on), {CM(name)})
         /\ HA(on) => /\ Supplies(reconcileConfigMaps(on), {CM("redis-ha")})
                      /\ Supplies(reconcileConfigMaps(on), {CM("redis-ha-health")})
<1>1. Supplies(reconcileSecrets(on), {RedisAuth})
  <2>1. Provides(reconcileRedisInitialPasswordSecret(on), RedisAuth)
    BY PlainEnsures DEF reconcileRedisInitialPasswordSecret, Generated, Sec, RedisAuth
  <2>2. /\ 2 \in DOMAIN reconcileClusterSecrets(on)
        /\ reconcileClusterSecrets(on)[2] = reconcileRedisInitialPasswordSecret(on)
    BY DEF reconcileClusterSecrets
  <2>3. Supplies(reconcileClusterSecrets(on), {RedisAuth})
    BY <2>1, <2>2, SuppliedOne
  <2>4. Fits(reconcileClusterSecrets(on), on) /\ Fits(<<reconcileArgoSecret(on)>>, on)
    BY SecretsFit
  <2> QED BY <2>3, <2>4, JoinedSupplies DEF reconcileSecrets
<1>2. /\ Provides(reconcileSSHKnownHosts(on), CM("argocd-ssh-known-hosts-cm"))
      /\ Provides(reconcileTLSCerts(on), CM("argocd-tls-certs-cm"))
      /\ Provides(reconcileGPGKeysConfigMap(on), CM("argocd-gpg-keys-cm"))
  BY PlainEnsures
     DEF reconcileSSHKnownHosts, reconcileTLSCerts, reconcileGPGKeysConfigMap, InitialData,
         CfgMap, CM
<1>3. HA(on) => /\ Provides(reconcileRedisHAConfigMap(on), CM("redis-ha"))
                /\ Provides(reconcileRedisHAHealthConfigMap(on), CM("redis-ha-health"))
  BY PlainEnsures
     DEF reconcileRedisHAConfigMap, reconcileRedisHAHealthConfigMap, CfgMap, CM
<1> DEFINE c == reconcileConfigMaps(on)
           redis == reconcileRedisConfiguration(on)
           others == OtherConfigMaps(on)
<1>4. /\ {1, 2} \subseteq DOMAIN redis /\ {2, 3, 5} \subseteq DOMAIN others
      /\ redis[1] = reconcileRedisHAConfigMap(on)
      /\ redis[2] = reconcileRedisHAHealthConfigMap(on)
      /\ others[2] = reconcileSSHKnownHosts(on) /\ others[3] = reconcileTLSCerts(on)
      /\ others[5] = reconcileGPGKeysConfigMap(on)
  BY DEF reconcileRedisConfiguration, OtherConfigMaps
<1>5. c = reconcileArgoConfigMap(on) \o redis \o others
  BY DEF reconcileConfigMaps, OtherConfigMaps
<1>6. Fits(reconcileArgoConfigMap(on), on) /\ Fits(redis, on) /\ Fits(others, on)
  BY ConfigMapsFit
<1> HIDE DEF c, redis, others
<1>7. /\ Supplies(others, {CM("argocd-ssh-known-hosts-cm")})
      /\ Supplies(others, {CM("argocd-tls-certs-cm")})
      /\ Supplies(others, {CM("argocd-gpg-keys-cm")})
      /\ HA(on) => Supplies(redis, {CM("redis-ha")}) /\ Supplies(redis, {CM("redis-ha-health")})
  BY <1>2, <1>3, <1>4, SuppliedOne
<1>8. Fits(reconcileArgoConfigMap(on) \o redis, on)
  BY <1>6, JoinedFit
<1>9. /\ Supplies(c, {CM("argocd-ssh-known-hosts-cm")})
      /\ Supplies(c, {CM("argocd-tls-certs-cm")}) /\ Supplies(c, {CM("argocd-gpg-keys-cm")})
      /\ HA(on) => Supplies(c, {CM("redis-ha")}) /\ Supplies(c, {CM("redis-ha-health")})
  BY <1>5, <1>6, <1>7, <1>8, JoinedSupplies
<1> QED BY <1>1, <1>9 DEF c

(* What comes before the Services supplies the groundwork.                 *)
LEMMA EarlyReady ==
  ASSUME NEW on
  PROVE  Ready(reconcileSSO(reconcileArgoConfigMap(on), on)
                 \o reconcileRoles(on)
                 \o reconcileRoleBindings(on)
                 \o reconcileServiceAccounts(on)
                 \o reconcileCertificateAuthority(on)
                 \o reconcileSecrets(on)
                 \o reconcileConfigMaps(on), on)
<1> DEFINE s1 == reconcileSSO(reconcileArgoConfigMap(on), on)
           s2 == reconcileRoles(on)
           s3 == reconcileRoleBindings(on)
           s4 == reconcileServiceAccounts(on)
           s5 == reconcileCertificateAuthority(on)
           s6 == reconcileSecrets(on)
           s7 == reconcileConfigMaps(on)
<1>1. Fits(s1, on) /\ Fits(s7, on)
  BY ConfigMapsFit, DexFits
<1>2. Fits(s2, on) /\ Fits(s3, on) /\ Fits(s4, on) /\ Fits(s5, on) /\ Fits(s6, on)
  BY AccessFits, SecretsFit
<1>3. InOrder(s1, {})
  BY DexInOrder
<1>4. /\ InOrder(s2, {}) /\ InOrder(s3, {}) /\ InOrder(s4, {}) /\ InOrder(s5, {})
      /\ InOrder(s6, {}) /\ InOrder(s7, {})
  BY AccessObeys, SecretsObey, ConfigMapsObey, ObeyInOrder
<1>5. /\ \A name \in {"application-controller", "server", "redis", "redis-ha"} :
              Supplies(s3, {SA(name)})
      /\ UseDex(on) => Supplies(s3, {SA("dex-server")})
  BY AccountsSupplied
<1>6. /\ Supplies(s6, {RedisAuth})
      /\ \A name \in {"argocd-ssh-known-hosts-cm", "argocd-tls-certs-cm",
                         "argocd-gpg-keys-cm"} : Supplies(s7, {CM(name)})
      /\ HA(on) => Supplies(s7, {CM("redis-ha")}) /\ Supplies(s7, {CM("redis-ha-health")})
  BY StoresSupplied
<1>7. \A n \in Groundwork(on) : Supplies(s3, {n}) \/ Supplies(s6, {n}) \/ Supplies(s7, {n})
  <2> HIDE DEF s3, s6, s7
  <2> QED BY <1>5, <1>6 DEF Groundwork
<1> HIDE DEF s1, s2, s3, s4, s5, s6, s7
<1>8. \A s : Supplies(s, {})
  BY DEF Supplies
<1>9. \A s, t : Fits(s, on) /\ Fits(t, on) /\ InOrder(s, {}) /\ InOrder(t, {})
                  => Fits(s \o t, on) /\ InOrder(s \o t, {})
  BY <1>8, JoinedFit, JoinedInOrder
<1>10. /\ Fits(s1 \o s2, on) /\ Fits(s1 \o s2 \o s3, on) /\ Fits(s1 \o s2 \o s3 \o s4, on)
       /\ Fits(s1 \o s2 \o s3 \o s4 \o s5, on)
       /\ Fits(s1 \o s2 \o s3 \o s4 \o s5 \o s6, on)
       /\ Fits(s1 \o s2 \o s3 \o s4 \o s5 \o s6 \o s7, on)
       /\ InOrder(s1 \o s2 \o s3 \o s4 \o s5 \o s6 \o s7, {})
  BY <1>1, <1>2, <1>3, <1>4, <1>9
<1>11. ASSUME NEW n \in Groundwork(on)
       PROVE  Supplies(s1 \o s2 \o s3 \o s4 \o s5 \o s6 \o s7, {n})
  <2>1. CASE Supplies(s3, {n})
    BY <1>1, <1>2, <1>10, <2>1, JoinedSupplies
  <2>2. CASE Supplies(s6, {n})
    BY <1>1, <1>2, <1>10, <2>2, JoinedSupplies
  <2>3. CASE Supplies(s7, {n})
    BY <1>1, <1>2, <1>10, <2>3, JoinedSupplies
  <2> QED BY <1>7, <2>1, <2>2, <2>3
<1>12. Ready(s1 \o s2 \o s3 \o s4 \o s5 \o s6 \o s7, on)
  BY <1>10, <1>11, SuppliedAll DEF Ready
<1> QED BY <1>12, Zenon DEF s1, s2, s3, s4, s5, s6, s7

(* The StatefulSets: the Deployment of an earlier version is looked at     *)
(* before the StatefulSet of the controller is created.                    *)
LEMMA StatefulSetsFollow ==
  ASSUME NEW on
  PROVE  MayFollow(reconcileStatefulSets(on), on)
<1> DEFINE c == reconcileApplicationControllerStatefulSet(on)
           s == reconcileStatefulSets(on)
<1>1. Fits(s, on) /\ Obey(s, on, Groundwork(on) \cup {Ancestor})
  BY StatefulSetsFit, StatefulSetsObey
<1>2. /\ {1, 2, 3} \subseteq DOMAIN s /\ s[1] = c[1] /\ s[2] = c[2] /\ s[3] = c[3]
  BY DEF reconcileStatefulSets, reconcileApplicationControllerStatefulSet, OldName,
         reconcileRedisStatefulSet
<1>10. c[1] = containsInvalidImage(on)
  BY DEF reconcileApplicationControllerStatefulSet
<1>11. c[2].obj = Outdated /\ c[2].needs = {}
  BY DEF reconcileApplicationControllerStatefulSet, OldName, Legacy, Resource, Outdated,
         Needing, Sts
<1>12. c[3].obj = Ancestor /\ c[3].needs = {}
  BY DEF reconcileApplicationControllerStatefulSet, Legacy, Resource, Ancestor, Depl,
         NotAfterDeleting, Unless
<1>3. s[1].needs = {} /\ s[1].fails = TRUE
  BY <1>2, <1>10 DEF containsInvalidImage, OnlyIf, Legacy, Resource
<1> HIDE DEF s, c
<1>4. Outdated # Successor /\ Ancestor # Successor
  BY DEF Outdated, Successor, Ancestor, Sts, Depl
<1>8. 3 \in DOMAIN s /\ DOMAIN s \subseteq Nat /\ \A i \in DOMAIN s : i >= 1
  <2>1. PICK S : s \in Seq(S)
    BY <1>1 DEF Fits
  <2> QED BY <1>2, <2>1
<1>5. \A i \in DOMAIN s : i <= 3 => Ancestor \notin Relies(s[i])
  <2>1. ASSUME NEW i \in DOMAIN s, i <= 3 PROVE i \in {1, 2, 3}
    BY <1>8, <2>1
  <2>2. \A i \in {1, 2, 3} : Ancestor \notin Relies(s[i])
    BY <1>2, <1>3, <1>4, <1>11, <1>12 DEF Relies
  <2> QED BY <2>1, <2>2
<1>6. Provides(s[3], Ancestor)
  BY <1>2, <1>12 DEF Provides
<1>7. InOrder(s, Groundwork(on) \cup {Ancestor})
  BY <1>1, ObeyInOrder
<1>9. InOrder(s, Groundwork(on))
  BY <1>5, <1>6, <1>7, <1>8, ProvidedEarlier
<1> QED BY <1>1, <1>9 DEF MayFollow, s

(* reconcileApplicationSetController has its service account first.        *)
LEMMA ApplicationSetFollows ==
  ASSUME NEW on
  PROVE  MayFollow(reconcileApplicationSetController(on), on)
<1> DEFINE s == reconcileApplicationSetController(on)
           n == AppSetObj("ServiceAccount")
<1>1. Fits(s, on)
  BY ApplicationSetFits
<1>2. {<<"ConfigMap", "argocd-ssh-known-hosts-cm">>, <<"ConfigMap", "argocd-tls-certs-cm">>,
       <<"ConfigMap", "argocd-gpg-keys-cm">>} \subseteq Groundwork(on)
  BY DEF Groundwork, CM
<1>3. CASE ~AppSetEnabled(on)
  BY <1>1, <1>3, ApplicationSetObeys, ObeyFollows
<1>4. CASE AppSetEnabled(on)
  <2>1. 1 \in DOMAIN s /\ s[1] = reconcileApplicationSetServiceAccount(on)
    BY DEF reconcileApplicationSetController
  <2>2. Provides(s[1], n)
    BY <1>4, <2>1, PlainEnsures DEF reconcileApplicationSetServiceAccount
  <2>3. s[1].needs = {}
    BY <2>1 DEF reconcileApplicationSetServiceAccount, Resource
  <2>4. n # Ancestor
    BY DEF AppSetObj, Ancestor, Depl
  <2>5. Obey(s, on, Groundwork(on) \cup {n})
    BY <1>2, ApplicationSetObeys
  <2> HIDE DEF s, n
  <2>6. MayFollow(s, on)
    BY <1>1, <2>1, <2>2, <2>3, <2>4, <2>5, AccountFirst
  <2> QED BY <2>6 DEF s
<1> QED BY <1>3, <1>4

(* reconcileNotificationsController has its service account first.         *)
LEMMA NotificationsFollow ==
  ASSUME NEW on
  PROVE  MayFollow(reconcileNotificationsController(on), on)
<1> DEFINE s == reconcileNotificationsController(on)
           n == NotifObj("ServiceAccount")
<1>1. Fits(s, on)
  BY NotificationsFit
<1>2. <<"ConfigMap", "argocd-tls-certs-cm">> \in Groundwork(on)
  BY DEF Groundwork, CM
<1>3. CASE ~isNotificationsEnabled(on)
  BY <1>1, <1>3, NotificationsObey, ObeyFollows
<1>4. CASE isNotificationsEnabled(on)
  <2> DEFINE account == reconcileNotificationsServiceAccount(on)
  <2>1. 1 \in DOMAIN s /\ s[1] = OnlyIf(account, account.reached /\ NotificationsReached(on))
    BY DEF reconcileNotificationsController, Guarded
  <2>2. NotificationsReached(on)
    BY <1>4 DEF NotificationsReached, isNotificationsEnabled
  <2>3. /\ s[1].obj = n /\ s[1].reached = (TRUE /\ NotificationsReached(on))
        /\ s[1].wanted = isNotificationsEnabled(on) /\ s[1].doomed = ~isNotificationsEnabled(on)
        /\ s[1].late = FALSE /\ s[1].logged = FALSE /\ s[1].needs = {}
        /\ s[1].unless = {} /\ s[1].awaits = {} /\ s[1].follows = <<>> /\ s[1].defers = <<>>
    BY <2>1 DEF OnlyIf, reconcileNotificationsServiceAccount, Resource
  <2>4. n # Ancestor
    BY DEF NotifObj, Ancestor, Depl
  <2>5. Obey(s, on, Groundwork(on) \cup {n})
    BY <1>2, NotificationsObey
  <2> HIDE DEF s, n
  <2>6. Provides(s[1], n)
    BY <1>4, <2>2, <2>3 DEF Provides, Ensures
  <2>7. MayFollow(s, on)
    BY <1>1, <2>1, <2>3, <2>4, <2>5, <2>6, AccountFirst
  <2> QED BY <2>7 DEF s
<1> QED BY <1>3, <1>4

(* reconcileImageUpdaterController has its service account first.          *)
LEMMA ImageUpdaterFollows ==
  ASSUME NEW on
  PROVE  MayFollow(reconcileImageUpdaterController(on), on)
<1> DEFINE s == reconcileImageUpdaterController(on)
           n == UpdaterObj("ServiceAccount")
           api == "image-updater.api" \in on
           enabled == reconcileImageUpdaterControllerEnabled(on)
           account == reconcileImageUpdaterServiceAccount(on)
<1>1. Fits(s, on) /\ Starts(account, enabled, on)
  BY ImageUpdaterFits
<1>2. <<"ConfigMap", "argocd-tls-certs-cm">> \in Groundwork(on)
  BY DEF Groundwork, CM
<1>3. CASE ~UpdaterEnabled(on)
  BY <1>1, <1>3, ImageUpdaterObeys, ObeyFollows
<1>4. CASE UpdaterEnabled(on)
  <2>1. Obey(s, on, Groundwork(on) \cup {n})
    BY <1>2, ImageUpdaterObeys
  <2>2. s = Guarded(enabled, api)
    BY <1>4 DEF reconcileImageUpdaterController
  <2>3. /\ account.obj = n /\ account.reached = TRUE /\ account.wanted = UpdaterEnabled(on)
        /\ account.doomed = ~UpdaterEnabled(on) /\ account.late = FALSE
        /\ account.logged = FALSE /\ account.needs = {} /\ account.unless = {}
        /\ account.awaits = {} /\ account.follows = <<>> /\ account.defers = <<>>
    BY DEF reconcileImageUpdaterServiceAccount, Resource
  <2>4. DOMAIN account = CallFields
    BY DEF reconcileImageUpdaterServiceAccount, Resource, CallFields
  <2>5. n # Ancestor
    BY DEF UpdaterObj, Ancestor, Depl
  <2> HIDE DEF s, n, api, enabled, account
  <2>6. /\ DOMAIN s = DOMAIN enabled
        /\ \A i \in DOMAIN enabled : s[i] = OnlyIf(enabled[i], enabled[i].reached /\ api)
    BY <2>2 DEF Guarded
  <2>7. CASE api
    <3>1. 1 \in DOMAIN s /\ s[1] = OnlyIf(account, account.reached /\ api)
      BY <1>1, <2>6 DEF Starts
    <3>2. /\ s[1].obj = n /\ s[1].reached = (TRUE /\ api)
          /\ s[1].wanted = UpdaterEnabled(on) /\ s[1].doomed = ~UpdaterEnabled(on)
          /\ s[1].late = FALSE /\ s[1].logged = FALSE /\ s[1].needs = {}
          /\ s[1].unless = {} /\ s[1].awaits = {} /\ s[1].follows = <<>> /\ s[1].defers = <<>>
      BY <2>3, <2>4, <3>1 DEF OnlyIf, CallFields
    <3>3. Provides(s[1], n)
      BY <1>4, <2>7, <3>2 DEF Provides, Ensures
    <3>4. MayFollow(s, on)
      BY <1>1, <2>1, <2>5, <3>1, <3>2, <3>3, AccountFirst
    <3> QED BY <3>4 DEF s
  <2>8. CASE ~api
    <3>1. InOrder(s, Groundwork(on) \cup {n})
      BY <2>1, ObeyInOrder
    <3>2. ASSUME NEW i \in DOMAIN s PROVE n \notin Relies(s[i])
      <4>1. Fit(enabled[i], on)
        <5>1. PICK S : enabled \in Seq(S) /\ \A r \in S : Fit(r, on)
          BY <1>1 DEF Starts, Fits
        <5> QED BY <2>6, <3>2, <5>1
      <4>2. s[i].reached = (enabled[i].reached /\ api)
        BY <2>6, <3>2, <4>1 DEF OnlyIf, Fit, CallFields
      <4> QED BY <2>5, <2>8, <4>2 DEF Relies
    <3>3. InOrder(s, Groundwork(on))
      BY <3>1, <3>2 DEF InOrder
    <3> QED BY <1>1, <3>3 DEF MayFollow, s
  <2> QED BY <2>7, <2>8
<1> QED BY <1>3, <1>4

(* Each side of the agent has its service account first.                   *)
LEMMA AgentFollows ==
  ASSUME NEW on
  PROVE  /\ MayFollow(reconcileArgoCDAgent(on), on)
         /\ Obey(reconcileArgoCDAgent(on), on, OwnAccounts(on))
<1> DEFINE s == reconcileArgoCDAgent(on)
           ofPrincipal == {n \in {SA(Principal)} : Principal \in on}
           ofAgent == {n \in {SA(AgentSide)} : AgentSide \in on}
<1>1. Fits(s, on)
  BY AgentFits
<1>2. DOMAIN s = 1..24
  BY DEF reconcileArgoCDAgent
<1>3. \A i \in 1..24 : /\ i <= 15 => s[i] \in PrincipalCalls(on)
                       /\ i > 15 => s[i] \in AgentCalls(on)
  BY DEF reconcileArgoCDAgent, PrincipalCalls, AgentCalls
<1>4. /\ s[1] = Refused("agent", AgentConflict(on))
      /\ s[2] = ReconcilePrincipalServiceAccount(on) /\ s[16] = ReconcileAgentServiceAccount(on)
  BY DEF reconcileArgoCDAgent
<1>5. \A r \in PrincipalCalls(on) : Obeys(r, on, ofPrincipal)
  BY PrincipalObeys
<1>6. \A r \in AgentCalls(on) : Obeys(r, on, ofAgent)
  BY AgentObeys
<1>7. s[1].needs = {} /\ s[2].needs = {} /\ s[16].needs = {}
  BY <1>4 DEF Refused, Resource, ReconcilePrincipalServiceAccount,
              ReconcileAgentServiceAccount, ServiceAccountOf
<1>8. /\ Principal \in on => Provides(s[2], SA(Principal))
      /\ AgentSide \in on => Provides(s[16], SA(AgentSide))
  BY <1>4, PlainEnsures
     DEF ReconcilePrincipalServiceAccount, ReconcileAgentServiceAccount, ServiceAccountOf,
         hasPrincipal, hasAgent, SA
<1> HIDE DEF s
<1>9. SA(Principal) # Ancestor /\ SA(AgentSide) # Ancestor
  BY DEF SA, Ancestor, Depl
<1>10. \A i \in 1..24 : /\ i <= 15 => Relies(s[i]) \subseteq ofPrincipal
                        /\ i > 15 => Relies(s[i]) \subseteq ofAgent
  <2> HIDE DEF ofPrincipal, ofAgent
  <2> QED BY <1>3, <1>5, <1>6 DEF Obeys
<1>11. SA(Principal) \notin Relies(s[1]) /\ SA(Principal) \notin Relies(s[2])
       /\ SA(AgentSide) \notin Relies(s[16])
  BY <1>7, <1>9 DEF Relies
<1>12. InOrder(s, Groundwork(on))
  <2>1. SUFFICES ASSUME NEW i \in DOMAIN s, NEW n \in Relies(s[i])
                 PROVE  \E j \in DOMAIN s : j < i /\ Provides(s[j], n)
    BY DEF InOrder
  <2>2. CASE i <= 15
    <3>1. n = SA(Principal) /\ Principal \in on
      BY <1>2, <1>10, <2>2
    <3>2. 2 \in DOMAIN s /\ 2 < i
      BY <1>2, <1>11, <2>2, <3>1
    <3> QED BY <1>8, <3>1, <3>2
  <2>3. CASE i > 15
    <3>1. n = SA(AgentSide) /\ AgentSide \in on
      BY <1>2, <1>10, <2>3
    <3>2. 16 \in DOMAIN s /\ 16 < i
      BY <1>2, <1>11, <2>3, <3>1
    <3> QED BY <1>8, <3>1, <3>2
  <2> QED BY <1>2, <2>2, <2>3
<1>13. Obey(s, on, OwnAccounts(on))
  <2> DEFINE calls == PrincipalCalls(on) \cup AgentCalls(on)
  <2>1. ofPrincipal \subseteq OwnAccounts(on) /\ ofAgent \subseteq OwnAccounts(on)
    BY DEF OwnAccounts, hasPrincipal, hasAgent
  <2>2. \A r \in PrincipalCalls(on) \cup AgentCalls(on) : Obeys(r, on, OwnAccounts(on))
    <3> HIDE DEF ofPrincipal, ofAgent
    <3> QED BY <1>5, <1>6, <2>1 DEF Obeys
  <2>3. s \in Seq(calls)
    <3>1. PICK S : s \in Seq(S)
      BY <1>1 DEF Fits
    <3>2. \A i \in DOMAIN s : s[i] \in calls
      BY <1>2, <1>3
    <3> HIDE DEF calls
    <3> QED BY <3>1, <3>2
  <2> QED BY <2>2, <2>3 DEF Obey
<1> QED BY <1>1, <1>12, <1>13 DEF MayFollow, s

(* The whole plan is in order: whatever a call relies on, an earlier call  *)
(* provides.                                                               *)
LEMMA PlanInOrder ==
  ASSUME NEW on
  PROVE  InOrder(reconcileResources(on), {})
<1>1. /\ Fit(Logged(reconcileDexService(on)), on)
      /\ Fit(Logged(reconcileDexDeployment(on)), on)
  BY ConfigMapsFit, DexFits
<1>2. /\ Obeys(Logged(reconcileDexService(on)), on, Groundwork(on))
      /\ Obeys(Logged(reconcileDexDeployment(on)), on, Groundwork(on))
  <2>1. UseDex(on) => SA("dex-server") \in Groundwork(on)
    BY DEF Groundwork
  <2> QED BY <2>1, ArgoConfigMapObeys, DexObeys
<1> DEFINE early == reconcileSSO(reconcileArgoConfigMap(on), on)
                      \o reconcileRoles(on)
                      \o reconcileRoleBindings(on)
                      \o reconcileServiceAccounts(on)
                      \o reconcileCertificateAuthority(on)
                      \o reconcileSecrets(on)
                      \o reconcileConfigMaps(on)
           services == reconcileServices(Logged(reconcileDexService(on)), on)
           deployments == reconcileDeployments(Logged(reconcileDexDeployment(on)), on)
           routes == Guarded(reconcileRoutes(on), RouteAPI(on))
<1>3. Ready(early, on)
  BY EarlyReady
<1>4. MayFollow(services, on) /\ MayFollow(deployments, on)
  BY <1>1, <1>2, ServicesFit, DeploymentsFit, ServicesObey, DeploymentsObey, ObeyFollows
<1>5. MayFollow(routes, on)
  BY RoutesFit, GuardedFit, RoutesObey, ObeyFollows
<1>6. /\ MayFollow(reconcileAutoscalers(on), on) /\ MayFollow(reconcileIngresses(on), on)
      /\ MayFollow(reconcileMonitoring(on), on) /\ MayFollow(ReconcileNetworkPolicies(on), on)
  BY AutoscalersFit, AutoscalersObey, IngressesFit, IngressesObey, MonitoringFits,
     MonitoringObeys, NetworkPoliciesFit, NetworkPoliciesObey, ObeyFollows
<1> HIDE DEF early, services, deployments, routes
<1>7. Ready(early \o services \o deployments \o reconcileStatefulSets(on)
              \o reconcileAutoscalers(on) \o reconcileIngresses(on) \o routes, on)
  BY <1>3, <1>4, <1>5, <1>6, StatefulSetsFollow, ReadyJoined
<1>8. Ready(early \o services \o deployments \o reconcileStatefulSets(on)
              \o reconcileAutoscalers(on) \o reconcileIngresses(on) \o routes
              \o reconcileMonitoring(on)
              \o reconcileApplicationSetController(on)
              \o reconcileNotificationsController(on)
              \o reconcileImageUpdaterController(on)
              \o ReconcileNetworkPolicies(on)
              \o reconcileArgoCDAgent(on), on)
  BY <1>6, <1>7, ApplicationSetFollows, NotificationsFollow, ImageUpdaterFollows,
     AgentFollows, ReadyJoined
<1>9. Ready(reconcileResources(on), on)
  BY <1>8, Zenon DEF reconcileResources, early, services, deployments, routes
<1> QED BY <1>9 DEF Ready

(* Every call of the plan obeys, as long as the calls before it have done  *)
(* their part.                                                             *)
Prerequisites(on) == Groundwork(on) \cup OwnAccounts(on) \cup {Ancestor}

(* It is so of all the calls of reconcileResources.                        *)
LEMMA PlanObeys ==
  ASSUME NEW on
  PROVE  Obey(reconcileResources(on), on, Prerequisites(on))
<1> DEFINE given == Prerequisites(on)
<1>1. /\ Groundwork(on) \subseteq given /\ OwnAccounts(on) \subseteq given
      /\ Groundwork(on) \cup {Ancestor} \subseteq given /\ {} \subseteq given
  BY DEF Prerequisites
<1>2. /\ UseDex(on) => SA("dex-server") \in given
      /\ AppSetEnabled(on) =>
           {AppSetObj("ServiceAccount"), <<"ConfigMap", "argocd-ssh-known-hosts-cm">>,
            <<"ConfigMap", "argocd-tls-certs-cm">>, <<"ConfigMap", "argocd-gpg-keys-cm">>}
             \subseteq given
      /\ isNotificationsEnabled(on) =>
           {NotifObj("ServiceAccount"), <<"ConfigMap", "argocd-tls-certs-cm">>} \subseteq given
      /\ UpdaterEnabled(on) =>
           {UpdaterObj("ServiceAccount"), <<"ConfigMap", "argocd-tls-certs-cm">>}
             \subseteq given
  BY DEF Prerequisites, Groundwork, OwnAccounts, CM
<1> HIDE DEF given
<1>4. /\ Obey(reconcileSSO(reconcileArgoConfigMap(on), on), on, given)
      /\ Obeys(Logged(reconcileDexService(on)), on, given)
  BY <1>2, ArgoConfigMapObeys, DexObeys
<1>5. Obeys(Logged(reconcileDexDeployment(on)), on, Groundwork(on))
  <2>1. UseDex(on) => SA("dex-server") \in Groundwork(on)
    BY DEF Groundwork
  <2> QED BY <2>1, ArgoConfigMapObeys, DexObeys
<1> DEFINE early == reconcileSSO(reconcileArgoConfigMap(on), on)
                      \o reconcileRoles(on)
                      \o reconcileRoleBindings(on)
                      \o reconcileServiceAccounts(on)
                      \o reconcileCertificateAuthority(on)
                      \o reconcileSecrets(on)
                      \o reconcileConfigMaps(on)
           services == reconcileServices(Logged(reconcileDexService(on)), on)
           deployments == reconcileDeployments(Logged(reconcileDexDeployment(on)), on)
           routes == Guarded(reconcileRoutes(on), RouteAPI(on))
<1>6. /\ Obey(reconcileRoles(on), on, given) /\ Obey(reconcileRoleBindings(on), on, given)
      /\ Obey(reconcileServiceAccounts(on), on, given)
      /\ Obey(reconcileCertificateAuthority(on), on, given)
      /\ Obey(reconcileSecrets(on), on, given) /\ Obey(reconcileConfigMaps(on), on, given)
  BY <1>1, AccessObeys, SecretsObey, ConfigMapsObey, WidenedObey
<1>7. Obey(early, on, given)
  BY <1>4, <1>6, JoinedObey
<1>8. Obey(services, on, given)
  BY <1>4, ServicesObey
<1>9. Obey(deployments, on, given)
  BY <1>1, <1>5, DeploymentsObey, WidenedObey
<1>10. Obey(routes, on, given)
  BY RoutesObey
<1>11. Obey(reconcileStatefulSets(on), on, given) /\ Obey(reconcileArgoCDAgent(on), on, given)
  BY <1>1, StatefulSetsObey, AgentFollows, WidenedObey
<1> HIDE DEF early, services, deployments, routes
<1>12. Obey(early \o services \o deployments \o reconcileStatefulSets(on)
              \o reconcileAutoscalers(on) \o reconcileIngresses(on) \o routes, on, given)
  BY <1>7, <1>8, <1>9, <1>10, <1>11, AutoscalersObey, IngressesObey, JoinedObey
<1>13. Obey(early \o services \o deployments \o reconcileStatefulSets(on)
              \o reconcileAutoscalers(on) \o reconcileIngresses(on) \o routes
              \o reconcileMonitoring(on)
              \o reconcileApplicationSetController(on)
              \o reconcileNotificationsController(on)
              \o reconcileImageUpdaterController(on)
              \o ReconcileNetworkPolicies(on)
              \o reconcileArgoCDAgent(on), on, given)
  BY <1>2, <1>11, <1>12, MonitoringObeys, ApplicationSetObeys, NotificationsObey,
     ImageUpdaterObeys, NetworkPoliciesObey, JoinedObey
<1> QED BY <1>13, Zenon DEF reconcileResources, early, services, deployments, routes, given
-----------------------------------------------------------------------------
(* So does every call of a pass, and a pass is in order as well: what one  *)
(* of its calls relies on, if the scene has it, is the object of an        *)
(* earlier call.                                                           *)
LEMMA CallObeys ==
  ASSUME NEW on, NEW r \in Members(reconcileResources(on))
  PROVE  Obeys(r, on, Prerequisites(on))
<1>1. PICK S : /\ reconcileResources(on) \in Seq(S)
               /\ \A s \in S : Obeys(s, on, Prerequisites(on))
  BY PlanObeys DEF Obey
<1>2. \A i \in DOMAIN reconcileResources(on) : reconcileResources(on)[i] \in S
  BY <1>1
<1> QED BY <1>1, <1>2 DEF Members

(* A call of a pass obeys.                                                 *)
LEMMA PassCallObeys ==
  ASSUME TypeOK, NEW on \in This.specs, NEW i \in DOMAIN Calls(on)
  PROVE  Obeys(Calls(on)[i], on \cup facts, Prerequisites(on \cup facts))
BY PassCallFits, CallObeys

(* What it relies on, an earlier call of the pass provides.                *)
LEMMA PassInOrder ==
  ASSUME TypeOK, NEW on \in This.specs, NEW i \in DOMAIN Calls(on),
         NEW n \in Relies(Calls(on)[i]) \cap This.objects
  PROVE  \E j \in DOMAIN Calls(on) : j < i /\ Provides(Calls(on)[j], n)
<1> DEFINE both == on \cup facts
           all == reconcileResources(both)
           order == This.order[both]
<1>1. facts \in This.facts /\ scene \in DOMAIN Scene /\ IsPartOfPlan(This)
  BY SceneIsPart DEF TypeOK
<1>2. DOMAIN Calls(on) \subseteq Nat /\ Calls(on) = This.plan[both]
  <2>1. Len(Calls(on)) \in Nat /\ DOMAIN Calls(on) = 1..Len(Calls(on))
    BY <1>1, PlanFacts
  <2> QED BY <2>1 DEF Calls
<1>3. DOMAIN all \subseteq Nat
  BY PlanFits, FitsDomain
<1>4. DOMAIN order = DOMAIN Calls(on)
  BY <1>1, <1>2, PartIsOrdered
<1>5. \A k \in DOMAIN Calls(on) :
        /\ order[k] \in DOMAIN all /\ Calls(on)[k] = all[order[k]]
        /\ \A j \in DOMAIN Calls(on) : j < k => order[j] < order[k]
  <2> TAKE k \in DOMAIN Calls(on)
  <2>1. k \in DOMAIN This.plan[both]
    BY <1>2
  <2>2. order[k] \in DOMAIN all /\ This.plan[both][k] = all[order[k]]
    BY <1>1, <2>1, PartIsOrdered
  <2>3. \A j \in DOMAIN order : j < k => order[j] < order[k]
    BY <1>1, <2>1, PartIsOrdered, Zenon
  <2> QED BY <1>2, <1>4, <2>2, <2>3
<1>6. IsPartFor(This, both)
  BY <1>1, Zenon DEF IsPartOfPlan
<1>7. \A k \in DOMAIN all :
        all[k].reached /\ all[k].obj \in This.objects
          => \E j \in DOMAIN order : order[j] = k
  BY <1>6, Zenon DEF IsPartFor
<1>8. InOrder(all, {})
  BY PlanInOrder
<1>9. \A k \in DOMAIN all : all[k] \in Members(all)
  BY DEF Members
<1>10. \A k \in DOMAIN all : Obeys(all[k], both, Prerequisites(both))
  BY <1>9, CallObeys
<1> HIDE DEF all, order
<1>11. PICK J \in DOMAIN all : J < order[i] /\ Provides(all[J], n)
  BY <1>5, <1>8 DEF InOrder
<1>12. all[J].reached /\ all[J].obj = n
  BY <1>10, <1>11 DEF Provides, Ensures, Obeys
<1>13. PICK j \in DOMAIN Calls(on) : order[j] = J
  BY <1>4, <1>7, <1>12
<1>14. j < i
  <2>1. order[i] \in Nat /\ J \in Nat /\ j \in Nat /\ i \in Nat
    BY <1>2, <1>3, <1>5
  <2>2. ~(i < j) /\ i # j
    BY <1>5, <1>11, <1>13, <2>1
  <2> QED BY <2>1, <2>2
<1> QED BY <1>5, <1>11, <1>13, <1>14
-----------------------------------------------------------------------------
(* The Deployment of an earlier version and the StatefulSet that has taken *)
(* its place do not exist side by side: a pass that creates the            *)
(* StatefulSet has seen to the Deployment before, or waits if it has just  *)
(* deleted the StatefulSet's own old form.                                 *)
SeenTo ==
  pass.at > 0 /\ ControllerEnabled(pass.seen.on) =>
    \A j \in DOMAIN PassCalls :
      j < pass.at /\ PassCalls[j].obj = Ancestor =>
        Ancestor \notin DOMAIN live \/ <<"delete", Outdated>> \in pass.done

Succession ==
  /\ ~({Ancestor, Successor} \subseteq DOMAIN live)
  /\ SeenTo

(* A call of the pass keeps to that.                                       *)
LEMMA SuccessionCall ==
  ASSUME TypeOK, Succession, Call
  PROVE  Succession'
<1> DEFINE r == PassCalls[pass.at]
           outcome == PassOutcome(r)
           on == pass.seen.on \cup facts
<1>1. /\ pass.at > 0 /\ pass.at \in DOMAIN PassCalls /\ outcome # "error"
      /\ live' = Applied(r, pass.seen.rev, live, outcome)
      /\ pass'.at = pass.at + 1 /\ pass'.seen = pass.seen
      /\ <<"delete", Outdated>> \in pass.done => <<"delete", Outdated>> \in pass'.done
      /\ UNCHANGED <<scene, facts>>
  BY DEF Call, TypeOK, Remembered
<1>2. pass.seen.on \in This.specs /\ pass.at \in Nat
  BY <1>1 DEF TypeOK, Generations
<1>3. Obeys(r, on, Prerequisites(on))
  BY <1>1, <1>2, PassCallObeys DEF PassCalls
<1>4. ControllerEnabled(on) <=> ControllerEnabled(pass.seen.on)
  BY FactsApart DEF ControllerEnabled
<1>5. PassCalls' = PassCalls
  BY <1>1 DEF PassCalls, Calls, This
<1>6. DOMAIN PassCalls \subseteq Nat
  <2>1. Len(PassCalls) \in Nat /\ DOMAIN PassCalls = 1..Len(PassCalls)
    BY <1>2, PlanFacts DEF PassCalls, TypeOK
  <2> QED BY <2>1
<1>7. Ancestor # Successor
  BY DEF Ancestor, Successor, Depl, Sts
<1>8. outcome = Outcome(r, pass.seen.rev, live, pass.done)
  BY DEF PassOutcome
<1>9. outcome \in {"none", "delete", "create", "update"}
      /\ (outcome = "update" => r.obj \in DOMAIN live)
  BY <1>1, <1>8, OutcomeType
<1>10. outcome = "create" =>
         r.obj \notin DOMAIN live /\ r.wanted /\ ~r.fails /\ ~Skipped(r, live, pass.done)
  BY <1>8 DEF Outcome
<1>11. ASSUME r.obj = Successor, outcome = "create"
       PROVE  Ancestor \notin DOMAIN live
  <2>1. SUFFICES ASSUME Ancestor \in DOMAIN live PROVE FALSE
    OBVIOUS
  <2>2. Ancestor \in Relies(r) \cap This.objects
    BY <1>10, <1>11, <2>1 DEF Relies, TypeOK
  <2>3. PICK j \in DOMAIN PassCalls : j < pass.at /\ Provides(PassCalls[j], Ancestor)
    BY <1>1, <1>2, <2>2, PassInOrder DEF PassCalls
  <2>4. ControllerEnabled(pass.seen.on) /\ r.defers = <<Outdated, Successor>>
    BY <1>3, <1>4, <1>10, <1>11 DEF Obeys
  <2>5. <<"delete", Outdated>> \in pass.done
    BY <1>1, <2>1, <2>3, <2>4 DEF Succession, SeenTo, Provides
  <2> QED BY <1>10, <1>11, <2>4, <2>5 DEF Skipped
<1>12. ASSUME r.obj = Ancestor
       PROVE  /\ Ancestor \in DOMAIN live' => Ancestor \in DOMAIN live
              /\ ControllerEnabled(pass.seen.on) =>
                   Ancestor \notin DOMAIN live' \/ <<"delete", Outdated>> \in pass.done
  <2>1. /\ r.reached /\ r.unless = {Successor} /\ r.awaits = {} /\ r.follows = <<>>
        /\ r.defers = <<Outdated, Successor>> /\ ~r.wanted
        /\ ControllerEnabled(pass.seen.on) => r.doomed
    BY <1>3, <1>4, <1>12 DEF Obeys
  <2> HIDE DEF r, outcome
  <2>2. outcome # "create"
    BY <1>10, <2>1
  <2>3. Ancestor \in DOMAIN live' => Ancestor \in DOMAIN live
    BY <1>1, <1>9, <2>2 DEF Applied
  <2>4. ASSUME ControllerEnabled(pass.seen.on), Ancestor \in DOMAIN live'
        PROVE  <<"delete", Outdated>> \in pass.done
    <3>1. outcome \in {"none", "delete"}
      BY <1>8, <1>12, <2>1, <2>3, <2>4 DEF Outcome
    <3>2. outcome # "delete"
      BY <1>1, <1>12, <2>4 DEF Applied
    <3>3. Skipped(r, live, pass.done)
      BY <1>8, <1>12, <2>1, <2>3, <2>4, <3>1, <3>2, NoneMeans DEF Content
    <3>4. Successor \notin DOMAIN live
      BY <2>3, <2>4 DEF Succession
    <3> QED BY <2>1, <3>3, <3>4 DEF Skipped
  <2> QED BY <2>3, <2>4
<1>13. Ancestor \in DOMAIN live' => Ancestor \in DOMAIN live
  BY <1>1, <1>9, <1>12, AppliedElsewhere
<1>14. Successor \in DOMAIN live' =>
         Successor \in DOMAIN live \/ (r.obj = Successor /\ outcome = "create")
  <2>1. CASE r.obj # Successor
    BY <1>1, <1>9, <2>1, AppliedElsewhere
  <2>2. CASE r.obj = Successor
    <3> HIDE DEF r, outcome
    <3> QED BY <1>1, <1>9, <2>2 DEF Applied
  <2> QED BY <2>1, <2>2
<1> HIDE DEF r, outcome
<1>15. ~({Ancestor, Successor} \subseteq DOMAIN live')
  BY <1>11, <1>13, <1>14 DEF Succession
<1>16. SeenTo'
  <2>1. SUFFICES ASSUME ControllerEnabled(pass.seen.on), NEW j \in DOMAIN PassCalls,
                        j < pass.at + 1, PassCalls[j].obj = Ancestor
                 PROVE  Ancestor \notin DOMAIN live' \/ <<"delete", Outdated>> \in pass'.done
    BY <1>1, <1>5 DEF SeenTo
  <2>2. CASE j = pass.at
    BY <1>1, <1>12, <2>1, <2>2 DEF r
  <2>3. CASE j < pass.at
    BY <1>1, <1>13, <2>1, <2>3 DEF Succession, SeenTo
  <2> QED BY <1>2, <1>6, <2>1, <2>2, <2>3
<1> QED BY <1>15, <1>16 DEF Succession

AboutTheSame(calls, others) ==
  DOMAIN calls = DOMAIN others /\ \A i \in DOMAIN calls : calls[i].obj = others[i].obj

(* The facts do not decide which objects the calls are about.              *)
LEMMA SameObjects ==
  ASSUME NEW part, IsPartOfPlan(part), NEW on \in part.specs, NEW known \in part.facts,
         NEW other \in part.facts
  PROVE  AboutTheSame(part.plan[on \cup known], part.plan[on \cup other])
<1>1. \A on_1 \in part.specs, known_1 \in part.facts, other_1 \in part.facts :
         LET calls == part.plan[on_1 \cup known_1]
             others == part.plan[on_1 \cup other_1]
         IN DOMAIN calls = DOMAIN others
            /\ \A i \in DOMAIN calls : calls[i].obj = others[i].obj
  BY Zenon DEF IsPartOfPlan
<1> QED BY <1>1, Zenon DEF AboutTheSame

(* What a step leaves alone, or makes smaller. *)
LEMMA SuccessionShrinks ==
  ASSUME Succession, DOMAIN live' \subseteq DOMAIN live,
         \/ pass'.at = 0
         \/ UNCHANGED <<scene, facts, pass>>
  PROVE  Succession'
<1>1. ~({Ancestor, Successor} \subseteq DOMAIN live')
  BY DEF Succession
<1>2. CASE pass'.at = 0
  BY <1>1, <1>2 DEF Succession, SeenTo
<1>3. CASE UNCHANGED <<scene, facts, pass>>
  <2>1. PassCalls' = PassCalls
    BY <1>3 DEF PassCalls, Calls, This
  <2> QED BY <1>1, <1>3, <2>1 DEF Succession, SeenTo
<1> QED BY <1>2, <1>3

(* Every step keeps to that.                                               *)
LEMMA SuccessionStep == TypeOK /\ TypeOK' /\ Succession /\ LostInv /\ [Next]_vars => Succession'
<1> SUFFICES ASSUME TypeOK, TypeOK', Succession, LostInv, [Next]_vars PROVE Succession'
  OBVIOUS
<1>1. CASE Call
  BY <1>1, SuccessionCall
<1>2. CASE StartPass
  <2>1. /\ pass'.at = 1 /\ pass'.seen = spec /\ UNCHANGED <<scene, facts, live>>
    BY <1>2 DEF StartPass
  <2>2. \A j \in DOMAIN PassCalls' : ~(j < 1)
    <3>1. Len(Calls(spec.on)) \in Nat /\ DOMAIN Calls(spec.on) = 1..Len(Calls(spec.on))
      BY PlanFacts DEF TypeOK, Generations
    <3>2. PassCalls' = Calls(spec.on)
      BY <2>1 DEF PassCalls, Calls, This
    <3> QED BY <3>1, <3>2
  <2> QED BY <2>1, <2>2 DEF Succession, SeenTo
<1>3. CASE CallFails
  <2> DEFINE r == PassCalls[pass.at]
             on == pass.seen.on \cup facts
  <2>1. /\ pass.at > 0 /\ pass.at \in DOMAIN PassCalls /\ pass.at \in Nat
        /\ pass.seen.on \in This.specs
        /\ UNCHANGED <<scene, facts, live>>
        /\ PassOutcome(r) # "none"
    BY <1>3 DEF CallFails, TypeOK, Generations
  <2>2. CASE pass' = Resting
    BY <2>1, <2>2, SuccessionShrinks DEF Resting
  <2>3. CASE r.logged /\ pass' = [pass EXCEPT !.at = @ + 1]
    <3>1. r.obj # Ancestor
      <4>1. Fit(r, on)
        BY <2>1, PassCallFits DEF PassCalls
      <4>2. r.obj[2] = "dex-server"
        BY <2>3, <4>1 DEF Fit
      <4> QED BY <4>2 DEF Ancestor, Depl
    <3>2. /\ pass'.at = pass.at + 1 /\ pass'.seen = pass.seen /\ pass'.done = pass.done
      BY <2>3 DEF TypeOK
    <3>3. PassCalls' = PassCalls
      BY <2>1, <3>2 DEF PassCalls, Calls, This
    <3>4. DOMAIN PassCalls \subseteq Nat
      <4>1. Len(PassCalls) \in Nat /\ DOMAIN PassCalls = 1..Len(PassCalls)
        BY <2>1, PlanFacts DEF PassCalls, TypeOK
      <4> QED BY <4>1
    <3>5. \A j \in DOMAIN PassCalls : j < pass.at + 1 => j < pass.at \/ j = pass.at
      BY <2>1, <3>4
    <3> QED BY <2>1, <3>1, <3>2, <3>3, <3>5 DEF Succession, SeenTo
  <2> QED BY <1>3, <2>2, <2>3 DEF CallFails
<1>4. CASE EndPass \/ Restart \/ Finalize
  <2>1. CASE EndPass \/ Restart
    BY <2>1, SuccessionShrinks DEF EndPass, Restart, Resting
  <2>2. CASE Finalize
    <3>1. UNCHANGED <<scene, facts, pass>> /\ DOMAIN live' \subseteq DOMAIN live
      BY <2>2 DEF Finalize, Without
    <3> QED BY <3>1, SuccessionShrinks
  <2> QED BY <1>4, <2>1, <2>2
<1>5. CASE Forget \/ Deliver \/ HandlerEnds \/ Edit \/ Delete
  BY <1>5, SuccessionShrinks DEF Forget, Deliver, HandlerEnds, Edit, Delete
<1>6. CASE CollectGarbage
  BY <1>6, SuccessionShrinks DEF CollectGarbage, Without
<1>7. CASE HandlerCall
  <2> DEFINE r == CleanupCalls[handler]
             outcome == Outcome(r, informed.rev, live, {})
  <2>1. /\ handler \in DOMAIN CleanupCalls
        /\ live' = Applied(r, informed.rev, live, outcome)
        /\ UNCHANGED <<scene, facts, pass>>
    BY <1>7 DEF HandlerCall
  <2>2. r.obj # Ancestor /\ r.obj # Successor
    <3>1. /\ Ancestor[1] = "Deployment" /\ Ancestor[2] = "application-controller"
          /\ Successor[1] = "StatefulSet"
      BY DEF Ancestor, Successor, Depl, Sts
    <3> QED BY <2>1, <3>1, CleanupAbout DEF Of, Sec
  <2>3. outcome = "update" => r.obj \in DOMAIN live
    BY OutcomeType
  <2> HIDE DEF r, outcome
  <2>4. \A o \in {Ancestor, Successor} : o \in DOMAIN live' <=> o \in DOMAIN live
    BY <2>1, <2>2, <2>3, AppliedElsewhere
  <2> QED BY <2>1, <2>4 DEF Succession, SeenTo, PassCalls, Calls, This
<1>8. CASE FactsChange
  <2>1. UNCHANGED <<scene, live, pass>> /\ facts \in This.facts /\ facts' \in This.facts
    BY <1>8 DEF FactsChange, TypeOK
  <2>2. ASSUME pass.at > 0
        PROVE  /\ DOMAIN PassCalls' = DOMAIN PassCalls
               /\ \A j \in DOMAIN PassCalls : PassCalls'[j].obj = PassCalls[j].obj
    <3>1. pass.seen.on \in This.specs
      BY <2>2 DEF TypeOK, Generations
    <3>2. /\ PassCalls = This.plan[pass.seen.on \cup facts]
          /\ PassCalls' = This.plan[pass.seen.on \cup facts']
      BY <2>1 DEF PassCalls, Calls, This
    <3>3. IsPartOfPlan(This)
      BY SceneIsPart
    <3>4. AboutTheSame(PassCalls, PassCalls')
      BY <2>1, <3>1, <3>2, <3>3, SameObjects
    <3> QED BY <3>4 DEF AboutTheSame
  <2> QED BY <2>1, <2>2 DEF Succession, SeenTo
<1>9. ASSUME NEW o \in This.objects, Interfere(o)
      PROVE  Succession'
  BY <1>9, SuccessionShrinks DEF Interfere, Without
<1>10. CASE UNCHANGED vars
  BY <1>10, SuccessionShrinks DEF vars
<1> QED BY <1>1, <1>2, <1>3, <1>4, <1>5, <1>6, <1>7, <1>8, <1>9, <1>10
        DEF Next, Worker, Informer, Environment

(* An earlier version leaves no StatefulSet of that name.                  *)
LEMMA SuccessionInit == Init => Succession
<1> SUFFICES ASSUME Init PROVE Succession
  OBVIOUS
<1>1. DOMAIN live \subseteq Leftovers
  BY TypeInit, FactsApart DEF Init
<1>2. Successor \notin Leftovers
  BY DEF Successor, Leftovers, Depl, Sts, Svc, Ing, Rt
<1>3. pass.at = 0
  BY DEF Init, Resting
<1> QED BY <1>1, <1>2, <1>3 DEF Succession, SeenTo

(* So it is always.                                                        *)
LEMMA SuccessionHolds == Spec => []Succession
<1>1. Init => LostInv
  BY DEF Init, LostInv
<1> QED BY <1>1, LostStep, SuccessionInit, SuccessionStep, TypeCorrect, PTL DEF Spec

(* At rest, an object is there exactly if it is asked for. *)
LEMMA SettledMeans ==
  ASSUME TypeOK, LostInv, Succession, ConsistentAtRest
  PROVE  Settled
<1> DEFINE on == spec.on \cup facts
<1> SUFFICES ASSUME AtRest, spec.phase = "present", NEW o \in This.watched \ lost,
                    ~Deviates(o, on)
             PROVE  o \in DOMAIN live <=> o \in Requested(on)
  BY DEF Settled
<1>1. spec.on \in This.specs /\ facts \in This.facts /\ scene \in DOMAIN Scene
  BY DEF TypeOK, Generations
<1>2. PICK r \in Members(This.plan[on]) : r.obj = o /\ o \notin r.awaits
  BY <1>1, SceneIsPart, PartMeans
<1>3. PICK i \in DOMAIN Calls(spec.on) : Calls(spec.on)[i] = r
  BY DEF Members, Calls
<1>4. Fit(r, on) /\ Obeys(r, on, Prerequisites(on))
  BY <1>1, <1>3, PassCallFits, PassCallObeys
<1>5. /\ r.reached /\ r.awaits \subseteq This.objects
      /\ setResourceWatches(r.obj, r.owned)
  BY <1>1, <1>2, SceneIsPart, PartMeans
<1>6. r.awaits \subseteq This.watched
  BY <1>1, <1>2, <1>3, <1>5, PlanFacts DEF LooksAt
<1>7. Outcome(r, spec.rev, live, {}) = "none"
  BY <1>2, <1>3 DEF ConsistentAtRest, Consistent, Wish, World, Calls, This
<1>8. CASE r.unless = {} /\ r.follows = <<>>
  <2>1. r.awaits \subseteq {Sec("ca"), Sec("cluster"), Sec("tls")} /\ Right(r, on)
    BY <1>2, <1>4, <1>5, <1>8 DEF Obeys, Decides
  <2>2. r.awaits \subseteq DOMAIN live
    BY <1>5, <1>6, <2>1, MainSecretsExist
  <2>3. ~Skipped(r, live, {})
    BY <1>5, <1>8, <2>2 DEF Skipped
  <2>4. \/ o \notin DOMAIN live /\ ~r.wanted
        \/ o \in DOMAIN live /\ ~r.doomed /\ ~r.late
    BY <1>2, <1>7, <2>3, NoneMeans DEF Content
  <2> QED BY <1>2, <2>1, <2>4 DEF Right
<1>9. CASE ~(r.unless = {} /\ r.follows = <<>>)
  <2>1. o = Ancestor
    BY <1>2, <1>4, <1>9 DEF Fit, Hindered, Deviates, Ancestor
  <2>2. ControllerEnabled(on)
    BY <2>1 DEF Deviates, Ancestor
  <2>3. /\ r.unless = {Successor} /\ r.awaits = {} /\ r.follows = <<>> /\ ~r.wanted /\ r.doomed
    BY <1>2, <1>4, <2>1, <2>2 DEF Obeys
  <2>4. o \notin Requested(on)
    BY <2>1, RequestedWorkloads DEF Ancestor
  <2>5. CASE Successor \in DOMAIN live
    BY <2>1, <2>4, <2>5 DEF Succession
  <2>6. CASE Successor \notin DOMAIN live
    <3>1. ~Skipped(r, live, {})
      BY <1>5, <2>3, <2>6 DEF Skipped
    <3> QED BY <1>2, <1>7, <2>3, <2>4, <3>1, NoneMeans DEF Content
  <2> QED BY <2>5, <2>6
<1> QED BY <1>8, <1>9

(* At rest, of every component, the watched objects that exist are those   *)
(* that the ArgoCD resource asks for: every object that some reconcileX    *)
(* looks after is created if it is asked for and removed if not, no early  *)
(* return and no other object keeps a pass from doing so for good, and     *)
(* none but the known exceptions is left out. This holds for every       *)
(* scene, whatever people, faults and restarts came between the steps of a *)
(* pass.                                                                   *)
THEOREM SettledAsRequested == Spec => []Settled
<1>1. Init => LostInv
  BY DEF Init, LostInv
<1> QED BY <1>1, LostStep, SuccessionHolds, SettledMeans, TypeCorrect, NothingOverlooked, PTL
        DEF Spec
-----------------------------------------------------------------------------
(* As long as nothing has gone wrong, what the calls so far have ensured   *)
(* is there, save what the handler may delete. The handler deletes the     *)
(* resources of notifications only, and creates two that no pod needs      *)
(* anything for.                                                           *)
Provided(on) ==
  (Groundwork(on) \cup OwnAccounts(on)) \ {NotifObj("ServiceAccount")}

Grounded ==
  budget = This.budget /\ pass.at > 0 =>
    \A j \in DOMAIN PassCalls :
      /\ j < pass.at /\ Ensures(PassCalls[j])
      /\ PassCalls[j].obj \in Provided(pass.seen.on \cup facts)
      => PassCalls[j].obj \in DOMAIN live

GroundInv ==
  /\ budget <= This.budget
  /\ handler > 0 => "notifications" \notin informed.on
  /\ Grounded

(* What is used up is not given back, and the handler runs only after      *)
(* notifications have been disabled.                                       *)
LEMMA GroundBounds ==
  ASSUME TypeOK, GroundInv, [Next]_vars
  PROVE  /\ budget' <= This'.budget /\ (budget' = This'.budget => budget = This.budget)
         /\ handler' > 0 => "notifications" \notin informed'.on
<1> USE DEF GroundInv
<1>1. This' = This /\ budget \in Nat /\ This.budget \in Nat
  BY PlanAssumption DEF TypeOK, Next, Worker, Informer, Environment, StartPass, Call, CallFails,
     EndPass, Finalize, Forget, Deliver, HandlerCall, HandlerEnds, CollectGarbage, Edit, Delete,
     FactsChange, Restart, Interfere, vars, This
<1>2. budget' = budget \/ (budget > 0 /\ budget' = budget - 1)
  BY DEF Next, Worker, Informer, Environment, StartPass, Call, CallFails,
     EndPass, Finalize, Forget, Deliver, HandlerCall, HandlerEnds, CollectGarbage, Edit, Delete,
     FactsChange, Restart, Interfere, Disturb, vars
<1>3. handler' > 0 => "notifications" \notin informed'.on
  <2>1. CASE Deliver
    BY <2>1 DEF Deliver, Disables
  <2>2. CASE HandlerCall
    <3>1. handler > 0
      <4>1. PlansAre(This, This.cleanup)
        BY PlanAssumption DEF This, TypeOK
      <4>2. informed.on \in This.specs /\ facts \in This.facts
        BY DEF TypeOK, Generations
      <4>3. DOMAIN CleanupCalls = 1..Len(CleanupCalls) /\ Len(CleanupCalls) \in Nat
        BY <4>1, <4>2 DEF PlansAre, CleanupCalls
      <4> QED BY <2>2, <4>3 DEF HandlerCall
    <3> QED BY <2>2, <3>1 DEF HandlerCall
  <2>3. CASE HandlerEnds \/ Restart
    BY <2>3 DEF HandlerEnds, Restart
  <2>4. CASE UNCHANGED <<handler, informed>>
    BY <2>4
  <2> QED BY <2>1, <2>2, <2>3, <2>4 DEF Next, Worker, Informer, Environment, StartPass, Call,
     CallFails, EndPass, Finalize, Forget, CollectGarbage, Edit, Delete, FactsChange, Interfere,
     vars
<1> QED BY <1>1, <1>2, <1>3

(* A call of the pass that does not fail. *)
LEMMA GroundedCall ==
  ASSUME TypeOK, Grounded, Call
  PROVE  Grounded'
<1> DEFINE r == PassCalls[pass.at]
           outcome == PassOutcome(r)
           on == pass.seen.on \cup facts
<1>1. /\ pass.at > 0 /\ pass.at \in DOMAIN PassCalls /\ outcome # "error"
      /\ live' = Applied(r, pass.seen.rev, live, outcome)
      /\ pass'.at = pass.at + 1 /\ pass'.seen = pass.seen
      /\ UNCHANGED <<scene, facts, budget>>
  BY DEF Call, TypeOK
<1>2. pass.seen.on \in This.specs /\ pass.at \in Nat
  BY <1>1 DEF TypeOK, Generations
<1>3. Obeys(r, on, Prerequisites(on))
  BY <1>1, <1>2, PassCallObeys DEF PassCalls
<1>4. PassCalls' = PassCalls /\ This' = This
  BY <1>1 DEF PassCalls, Calls, This
<1>5. DOMAIN PassCalls \subseteq Nat
  <2>1. Len(PassCalls) \in Nat /\ DOMAIN PassCalls = 1..Len(PassCalls)
    BY <1>2, PlanFacts DEF PassCalls, TypeOK
  <2> QED BY <2>1
<1>6. outcome = Outcome(r, pass.seen.rev, live, pass.done)
  BY DEF PassOutcome
<1>7. /\ outcome \in {"none", "delete", "create", "update"}
      /\ outcome \in {"delete", "update"} => r.obj \in DOMAIN live
  BY <1>1, <1>6, OutcomeType
<1>8. outcome = "delete" => r.reached /\ (r.doomed \/ r.late)
  BY <1>6 DEF Outcome, Skipped
<1>9. ASSUME NEW o \in Provided(on) \cap DOMAIN live
      PROVE  o \in DOMAIN live'
  <2>1. CASE r.obj # o
    BY <1>1, <1>7, <2>1, AppliedElsewhere
  <2>2. CASE r.obj = o
    <3>1. outcome # "delete"
      BY <1>3, <1>8, <2>2 DEF Obeys, Provided
    <3> HIDE DEF r, outcome
    <3> QED BY <1>1, <1>7, <2>2, <3>1 DEF Applied
  <2> QED BY <2>1, <2>2
<1>10. ASSUME Ensures(r) PROVE r.obj \in DOMAIN live'
  <2>1. ~Skipped(r, live, pass.done) /\ r.wanted /\ ~r.doomed /\ ~r.late
    BY <1>10 DEF Ensures, Skipped
  <2> HIDE DEF r, outcome
  <2>2. \/ r.obj \in DOMAIN live /\ outcome # "delete"
        \/ outcome = "create"
    BY <1>6, <1>1, <2>1 DEF Outcome
  <2> QED BY <1>1, <1>7, <2>2 DEF Applied
<1>11. SUFFICES ASSUME budget = This.budget, NEW j \in DOMAIN PassCalls, j < pass.at + 1,
                       Ensures(PassCalls[j]), PassCalls[j].obj \in Provided(on)
                PROVE  PassCalls[j].obj \in DOMAIN live'
  BY <1>1, <1>4 DEF Grounded, Provided
<1>12. CASE j = pass.at
  BY <1>10, <1>11, <1>12
<1>13. CASE j < pass.at
  BY <1>1, <1>9, <1>11, <1>13 DEF Grounded
<1> QED BY <1>2, <1>5, <1>11, <1>12, <1>13

(* Every step keeps to that.                                               *)
LEMMA GroundStep ==
  TypeOK /\ GoneInv /\ GroundInv /\ [Next]_vars => GroundInv'
<1> SUFFICES ASSUME TypeOK, GoneInv, GroundInv, [Next]_vars PROVE Grounded'
  BY GroundBounds DEF GroundInv
<1>1. Grounded /\ (budget' = This'.budget => budget = This.budget)
  BY GroundBounds DEF GroundInv
<1>2. CASE Call
  BY <1>1, <1>2, GroundedCall
<1>3. CASE StartPass
  <2>1. pass'.at = 1 /\ pass'.seen = spec /\ UNCHANGED <<scene, facts, live>>
    BY <1>3 DEF StartPass
  <2>2. \A j \in DOMAIN PassCalls' : ~(j < 1)
    <3>1. Len(Calls(spec.on)) \in Nat /\ DOMAIN Calls(spec.on) = 1..Len(Calls(spec.on))
      BY PlanFacts DEF TypeOK, Generations
    <3>2. PassCalls' = Calls(spec.on)
      BY <2>1 DEF PassCalls, Calls, This
    <3> QED BY <3>1, <3>2
  <2> QED BY <2>1, <2>2 DEF Grounded
<1>4. CASE CallFails
  <2>1. /\ pass.at > 0 /\ pass.at \in DOMAIN PassCalls /\ pass.at \in Nat
        /\ pass.seen.on \in This.specs
        /\ UNCHANGED <<scene, facts, live>>
    BY <1>4 DEF CallFails, TypeOK, Generations
  <2>2. CASE pass' = Resting
    BY <2>1, <2>2 DEF Grounded, Resting
  <2>3. CASE PassCalls[pass.at].logged /\ pass' = [pass EXCEPT !.at = @ + 1]
    <3>1. ~Ensures(PassCalls[pass.at])
      BY <2>3 DEF Ensures
    <3>2. pass'.at = pass.at + 1 /\ pass'.seen = pass.seen
      BY <2>3 DEF TypeOK
    <3>3. PassCalls' = PassCalls /\ This' = This
      BY <2>1, <3>2 DEF PassCalls, Calls, This
    <3>4. DOMAIN PassCalls \subseteq Nat
      <4>1. Len(PassCalls) \in Nat /\ DOMAIN PassCalls = 1..Len(PassCalls)
        BY <2>1, PlanFacts DEF PassCalls, TypeOK
      <4> QED BY <4>1
    <3>5. \A j \in DOMAIN PassCalls : j < pass.at + 1 => j < pass.at \/ j = pass.at
      BY <2>1, <3>4
    <3> QED BY <1>1, <2>1, <3>1, <3>2, <3>3, <3>5 DEF Grounded
  <2> QED BY <1>4, <2>2, <2>3 DEF CallFails
<1>5. CASE EndPass \/ Restart
  BY <1>5 DEF EndPass, Restart, Resting, Grounded
<1>6. CASE Finalize \/ CollectGarbage
  <2>1. pass.at = 0 /\ UNCHANGED pass
    BY <1>6 DEF Finalize, CollectGarbage, GoneInv
  <2> QED BY <2>1 DEF Grounded
<1>7. CASE UNCHANGED <<scene, facts, live, pass>>
  <2>1. PassCalls' = PassCalls /\ This' = This
    BY <1>7 DEF PassCalls, Calls, This
  <2> QED BY <1>1, <1>7, <2>1 DEF Grounded
<1>8. CASE HandlerCall
  <2> DEFINE r == CleanupCalls[handler]
             outcome == Outcome(r, informed.rev, live, {})
  <2>1. /\ handler \in DOMAIN CleanupCalls
        /\ live' = Applied(r, informed.rev, live, outcome)
        /\ UNCHANGED <<scene, facts, pass>>
    BY <1>8 DEF HandlerCall
  <2>2. \A on : r.obj \notin Provided(on)
    <3> SUFFICES ASSUME NEW on, r.obj \in Provided(on) PROVE FALSE
      OBVIOUS
    <3>1. /\ r.obj[1] \in {"ServiceAccount", "ConfigMap"} \/ r.obj = RedisAuth
          /\ r.obj # NotifObj("ServiceAccount")
      BY GroundworkKinds DEF Provided
    <3>2. /\ RedisAuth[1] = "Secret" /\ RedisAuth # Sec("argocd-notifications-secret")
          /\ Sec("argocd-notifications-secret")[1] = "Secret"
      BY DEF RedisAuth, Sec
    <3> HIDE DEF r
    <3>3. \/ r.obj \in Of("notifications-controller",
                          {"Deployment", "Role", "RoleBinding", "ServiceAccount"})
          \/ r.obj[1] \in {"Service", "ServiceMonitor", "NotificationsConfiguration"}
          \/ r.obj = Sec("argocd-notifications-secret")
      BY <2>1, CleanupAbout DEF r
    <3> QED BY <3>1, <3>2, <3>3 DEF Of, NotifObj
  <2>3. outcome = "update" => r.obj \in DOMAIN live
    BY OutcomeType
  <2>4. PassCalls' = PassCalls /\ This' = This
    BY <2>1 DEF PassCalls, Calls, This
  <2> HIDE DEF r, outcome
  <2>5. \A on : \A o \in Provided(on) : o \in DOMAIN live' <=> o \in DOMAIN live
    BY <2>1, <2>2, <2>3, AppliedElsewhere
  <2> QED BY <1>1, <2>1, <2>4, <2>5 DEF Grounded
<1>9. CASE FactsChange \/ \E o \in This.objects : Interfere(o)
  <2>1. budget > 0 /\ budget' = budget - 1 /\ budget \in Nat /\ UNCHANGED scene
    BY <1>9 DEF FactsChange, Interfere, Disturb, TypeOK
  <2>2. budget' # This'.budget
    BY <1>1, <2>1 DEF This
  <2> QED BY <2>2 DEF Grounded
<1> QED BY <1>2, <1>3, <1>4, <1>5, <1>6, <1>7, <1>8, <1>9
        DEF Next, Worker, Informer, Environment, Forget, Deliver, HandlerEnds, Edit, Delete, vars

(* The service account of notifications is among what the handler deletes. *)
LEMMA AccountDeletable ==
  ASSUME TypeOK, NotifObj("ServiceAccount") \in This.objects
  PROVE  NotifObj("ServiceAccount") \in Deletable
<1> DEFINE on == informed.on \cup facts
           r == reconcileNotificationsServiceAccount(on)
<1>1. informed.on \in This.specs /\ facts \in This.facts
  BY DEF TypeOK, Generations
<1>2. r.reached = TRUE /\ r.obj = NotifObj("ServiceAccount")
  BY DEF reconcileNotificationsServiceAccount, Resource
<1> HIDE DEF r
<1>3. r \in Members(deleteNotificationsResources(on))
  <2>1. /\ 7 \in DOMAIN deleteNotificationsResources(on)
        /\ deleteNotificationsResources(on)[7] = r
    BY DEF deleteNotificationsResources, r
  <2> QED BY <2>1 DEF Members
<1>4. r \in Members(This.cleanup[on])
  BY <1>1, <1>2, <1>3, SceneIsPart, PartMeans
<1> QED BY <1>2, <1>4 DEF Deletable, Members, CleanupCalls

(* A call of the pass that creates a workload finds its needs met.         *)
LEMMA FirstCall ==
  ASSUME TypeOK, Grounded, Call, budget = This.budget,
         PassCalls[pass.at].obj \in DOMAIN live' \ DOMAIN live,
         NEW n \in (PassCalls[pass.at].needs \ Deletable) \cap This.objects
  PROVE  n \in DOMAIN live
<1> DEFINE r == PassCalls[pass.at]
           outcome == PassOutcome(r)
           on == pass.seen.on \cup facts
<1>1. /\ pass.at > 0 /\ pass.at \in DOMAIN PassCalls
      /\ live' = Applied(r, pass.seen.rev, live, outcome)
  BY DEF Call
<1>2. pass.seen.on \in This.specs
  BY <1>1 DEF TypeOK, Generations
<1>3. Obeys(r, on, Prerequisites(on))
  BY <1>1, <1>2, PassCallObeys DEF PassCalls
<1>4. outcome = Outcome(r, pass.seen.rev, live, pass.done)
  BY DEF PassOutcome
<1>5. r.obj \in DOMAIN live' \ DOMAIN live /\ n \in r.needs
  OBVIOUS
<1> HIDE DEF r, outcome
<1>6. outcome = "create"
  BY <1>1, <1>5 DEF Applied
<1>7. r.reached /\ r.wanted
  BY <1>4, <1>6 DEF Outcome, Skipped
<1>8. n \in Relies(r) /\ n # Ancestor
  <2>1. Bare(r.needs)
    BY <1>3, <1>5 DEF Obeys
  <2> QED BY <1>5, <1>7, <2>1 DEF Relies, Bare, Ancestor, Depl
<1>9. n \in Groundwork(on) \cup OwnAccounts(on)
  BY <1>3, <1>8 DEF Obeys, Prerequisites
<1>10. PICK j \in DOMAIN PassCalls : j < pass.at /\ Provides(PassCalls[j], n)
  BY <1>1, <1>2, <1>8, PassInOrder DEF PassCalls, r
<1>11. Ensures(PassCalls[j]) /\ PassCalls[j].obj = n
  BY <1>8, <1>10 DEF Provides
<1>12. n # NotifObj("ServiceAccount")
  BY AccountDeletable
<1>13. n \in Provided(on)
  BY <1>9, <1>12 DEF Provided
<1> QED BY <1>1, <1>10, <1>11, <1>13 DEF Grounded

(* No other step creates a workload. *)
LEMMA FirstStep ==
  ASSUME TypeOK, GroundInv, [Next]_vars,
         pass.at > 0, pass.at \in DOMAIN PassCalls, budget = This.budget,
         PassCalls[pass.at].obj \in DOMAIN live' \ DOMAIN live
  PROVE  (PassCalls[pass.at].needs \ Deletable) \cap This.objects \subseteq DOMAIN live
<1> DEFINE r == PassCalls[pass.at]
<1>1. CASE Call
  BY <1>1, FirstCall DEF GroundInv
<1>2. CASE HandlerCall
  <2> DEFINE s == CleanupCalls[handler]
             outcome == Outcome(s, informed.rev, live, {})
  <2>1. /\ handler \in DOMAIN CleanupCalls
        /\ live' = Applied(s, informed.rev, live, outcome)
    BY <1>2 DEF HandlerCall
  <2>2. handler > 0
    <3>1. PlansAre(This, This.cleanup)
      BY PlanAssumption DEF This, TypeOK
    <3>2. informed.on \in This.specs /\ facts \in This.facts
      BY DEF TypeOK, Generations
    <3>3. DOMAIN CleanupCalls = 1..Len(CleanupCalls) /\ Len(CleanupCalls) \in Nat
      BY <3>1, <3>2 DEF PlansAre, CleanupCalls
    <3> QED BY <2>1, <3>3
  <2>3. outcome = "update" => s.obj \in DOMAIN live
    BY OutcomeType
  <2>4. outcome = "create" => s.wanted
    BY DEF Outcome
  <2>5. s.wanted => s.obj[1] \in {"Service", "ServiceMonitor"}
    BY <2>1, <2>2, CleanupAbout DEF GroundInv
  <2> HIDE DEF s, outcome
  <2>6. r.obj = s.obj /\ outcome = "create"
    <3>1. r.obj = s.obj
      BY <2>1, <2>3, AppliedElsewhere
    <3> QED BY <2>1, <2>3, <3>1 DEF Applied
  <2>7. r.needs = {}
    <3>1. pass.seen.on \in This.specs
      BY DEF TypeOK, Generations
    <3>2. Obeys(r, pass.seen.on \cup facts, Prerequisites(pass.seen.on \cup facts))
      BY <3>1, PassCallObeys DEF PassCalls
    <3> HIDE DEF r
    <3> QED BY <2>4, <2>5, <2>6, <3>2 DEF Obeys
  <2> QED BY <2>7
<1>3. CASE DOMAIN live' \subseteq DOMAIN live
  BY <1>3
<1>4. CASE Finalize \/ CollectGarbage \/ \E o \in This.objects : Interfere(o)
  BY <1>3, <1>4 DEF Finalize, CollectGarbage, Interfere, Without
<1> QED BY <1>1, <1>2, <1>3, <1>4
        DEF Next, Worker, Informer, Environment, StartPass, CallFails, EndPass, Forget, Deliver,
            HandlerEnds, Edit, Delete, FactsChange, Restart, vars

(* As long as nothing goes wrong, no pass creates a workload before the    *)
(* service account, the ConfigMaps and the Secret that its pods cannot     *)
(* start without: reconcileResources has its calls in an order that        *)
(* serves, for every set of options, and neither a later call nor the      *)
(* handler of events takes them away in between.                           *)
THEOREM WorkloadsAfterPrerequisites == Spec => PrerequisitesFirst
<1>1. Init => GoneInv /\ GroundInv
  BY PlanAssumption DEF Init, GoneInv, GroundInv, Grounded, Resting, This
<1>2. TypeOK /\ GroundInv /\ [Next]_vars =>
        [pass.at > 0 /\ pass.at \in DOMAIN PassCalls /\ budget = This.budget =>
           LET r == PassCalls[pass.at]
           IN r.obj \in DOMAIN live' \ DOMAIN live
                => (r.needs \ Deletable) \cap This.objects \subseteq DOMAIN live]_vars
  BY FirstStep
<1> QED BY <1>1, <1>2, GoneStep, GroundStep, TypeCorrect, PTL DEF Spec, PrerequisitesFirst
=============================================================================
