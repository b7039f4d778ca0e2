----------------------------- MODULE Resources ------------------------------
(***************************************************************************)
(* The shape that the reconcileX functions of src/controllers have in      *)
(* common. Each looks one object up; an object that exists is deleted if   *)
(* the ArgoCD resource no longer wants it, or else has the fields that the *)
(* function compares set again; an object that does not exist is created   *)
(* if the ArgoCD resource wants it. A function is modelled by a record     *)
(* that says under which conditions it does what; the operators below that *)
(* are named reconcileX map the set `on` to that record. `on` holds the    *)
(* options of the ArgoCD resource that are set, and the facts about the    *)
(* cluster that the function looks up.                                     *)
(***************************************************************************)
EXTENDS Naturals, Sequences, FiniteSets

(* The values of a field: computed from the settings of the ArgoCD         *)
(* resource, the same whatever they are, or absent.                        *)
Current == "current"
Fixed == "fixed"
NoValue == "none"

Settings(fields) == [f \in fields |-> Current]
Constants(fields) == [f \in fields |-> Fixed]
Absent(fields) == [f \in fields |-> NoValue]

With(manifest, more) ==
  [f \in DOMAIN manifest \cup DOMAIN more |->
     IF f \in DOMAIN more THEN more[f] ELSE manifest[f]]

(* A function that creates obj from the manifest if it is wanted, deletes  *)
(* it if it is not, and sets the compared fields again.                    *)
(*   late     an existing object is deleted, but only if no field differs  *)
(*   sparing  compared fields that are left alone if they are absent       *)
(*   follows  the function is reached only after this change               *)
(*   defers   <<old, new>>: the function returns if it has just deleted    *)
(*            old, unless new exists                                       *)
(*   unless   the function returns at once if one of these objects exists  *)
(*   awaits   the function returns at once if one of these does not exist  *)
(*   demands  creating the object fails if one of these does not exist     *)
(*   reached  the function is called at all                                *)
(*   fails    creating or updating the object fails                        *)
(*   logged   the caller logs an error of the function and goes on         *)
(*   owned    the object has an owner reference to the ArgoCD resource     *)
(*   needs    what the pods of the object cannot start without             *)
(*   immutable  fields that the API server refuses to change               *)
Resource(obj, wanted, manifest, compared) ==
  [obj |-> obj, wanted |-> wanted, doomed |-> ~wanted, late |-> FALSE,
   created |-> manifest, updated |-> [f \in compared |-> manifest[f]],
   sparing |-> {}, follows |-> <<>>, defers |-> <<>>,
   unless |-> {}, awaits |-> {}, demands |-> {}, reached |-> TRUE, fails |-> FALSE,
   logged |-> FALSE, owned |-> TRUE, needs |-> {}, immutable |-> {}]

(* An object of an earlier version of the operator: never created. *)
Legacy(obj, doomed) ==
  [Resource(obj, FALSE, <<>>, {}) EXCEPT !.doomed = doomed]

(* A function that sets fields of an object only if that exists. *)
Amendment(obj, manifest) ==
  [Resource(obj, TRUE, manifest, DOMAIN manifest) EXCEPT !.awaits = {obj}]

(* A check that ends the pass with an error if it fails. *)
Refused(name, condition) ==
  [Resource(<<"check", name>>, TRUE, <<>>, {}) EXCEPT
     !.reached = condition, !.fails = TRUE]

DoomedIf(r, condition) == [r EXCEPT !.doomed = condition]
Kept(r) == DoomedIf(r, FALSE)
DeletedLateIf(r, condition) == [r EXCEPT !.late = condition]
Updating(r, manifest) == [r EXCEPT !.updated = manifest]
Logged(r) == [r EXCEPT !.logged = TRUE]
OnlyIf(r, condition) == [r EXCEPT !.reached = condition]
FailingIf(r, condition) == [r EXCEPT !.fails = condition]
Unowned(r) == [r EXCEPT !.owned = FALSE]
Needing(r, objs) == [r EXCEPT !.needs = objs]
Immutable(r, fields) == [r EXCEPT !.immutable = fields]
After(r, change) == [r EXCEPT !.follows = change]
NotAfterDeleting(r, old, new) == [r EXCEPT !.defers = <<old, new>>]
Awaiting(r, objs) == [r EXCEPT !.awaits = objs]
Demanding(r, objs) == [r EXCEPT !.demands = objs]
Unless(r, obj) == [r EXCEPT !.unless = {obj}]

(* The calls of a function that the condition guards. *)
Guarded(rs, condition) ==
  [i \in DOMAIN rs |-> OnlyIf(rs[i], rs[i].reached /\ condition)]
-----------------------------------------------------------------------------
(* What a call of the function does. rev numbers the settings of the       *)
(* ArgoCD resource, live maps the objects that exist to the values of      *)
(* their fields, and done is the set of the changes that the pass has made *)
(* so far, as far as it remembers them.                                    *)
At(value, rev) == <<value, IF value = Current THEN rev ELSE 0>>
Field(object, f) == IF f \in DOMAIN object THEN object[f] ELSE At(NoValue, 0)

(* The function returns before it looks the object up. *)
Skipped(r, live, done) ==
  \/ ~r.reached
  \/ r.unless \cap DOMAIN live # {}
  \/ ~(r.awaits \subseteq DOMAIN live)
  \/ r.follows # <<>> /\ r.follows \notin done
  \/ /\ r.defers # <<>>
     /\ <<"delete", r.defers[1]>> \in done
     /\ r.defers[2] \notin DOMAIN live

(* The other objects on which that depends. *)
LooksAt(r) ==
  r.unless \cup r.awaits
    \cup (IF r.follows = <<>> THEN {} ELSE {r.follows[2]})
    \cup (IF r.defers = <<>> THEN {} ELSE {r.defers[1], r.defers[2]})

Differing(r, rev, object) ==
  {f \in DOMAIN r.updated :
     /\ Field(object, f) # At(r.updated[f], rev)
     /\ f \in r.sparing => Field(object, f) # At(NoValue, 0)}

Outcome(r, rev, live, done) ==
  IF Skipped(r, live, done) THEN "none"
  ELSE IF r.obj \notin DOMAIN live
       THEN IF ~r.wanted THEN "none"
            ELSE IF r.fails \/ ~(r.demands \subseteq DOMAIN live) THEN "error"
            ELSE "create"
  ELSE LET differing == Differing(r, rev, live[r.obj])
       IN IF r.doomed THEN "delete"
          ELSE IF r.fails \/ differing \cap r.immutable # {} THEN "error"
          ELSE IF differing # {} THEN "update"
          ELSE IF r.late THEN "delete" ELSE "none"

Created(r, rev) == [f \in DOMAIN r.created |-> At(r.created[f], rev)]
Updated(r, rev, object) ==
  [f \in DOMAIN object \cup DOMAIN r.updated |->
     IF f \in Differing(r, rev, object) THEN At(r.updated[f], rev)
     ELSE Field(object, f)]

(* The objects after the call. *)
Applied(r, rev, live, outcome) ==
  CASE outcome = "delete" -> [o \in DOMAIN live \ {r.obj} |-> live[o]]
    [] outcome = "create" ->
         [o \in DOMAIN live \cup {r.obj} |->
            IF o = r.obj THEN Created(r, rev) ELSE live[o]]
    [] outcome = "update" ->
         [live EXCEPT ![r.obj] = Updated(r, rev, live[r.obj])]
    [] OTHER -> live

(* What the pass remembers: the objects it has created and deleted, and    *)
(* those that the last call about them has updated.                        *)
Remembered(r, outcome, done) ==
  (done \ {<<"update", r.obj>>})
    \cup (IF outcome = "none" THEN {} ELSE {<<outcome, r.obj>>})
-----------------------------------------------------------------------------
(* The conditions that several components share. *)
RedisEnabled(on) == "redis.disabled" \notin on
RedisRemote(on) == "redis.remote" \in on
HA(on) == "ha" \in on
ServerEnabled(on) == "server.disabled" \notin on
RepoEnabled(on) == "repo.disabled" \notin on
RepoRemote(on) == "repo.remote" \in on
ControllerEnabled(on) == "controller.disabled" \notin on
UseDex(on) == "dex" \in on
RouteAPI(on) == "route.api" \in on
=============================================================================
