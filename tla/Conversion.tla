----------------------------- MODULE Conversion -----------------------------
(***************************************************************************)
(* The conversion webhook between the served version v1alpha1 and the      *)
(* stored version v1beta1 of the ArgoCD resource, and clients of both      *)
(* versions that change one stored resource.                               *)
(*                                                                         *)
(* A resource is a partial function: its domain is the set of the paths    *)
(* that are set, a path outside it has the zero value. A client of         *)
(* v1alpha1 reads the resource (the API server calls ConvertFrom), edits   *)
(* its copy and writes it back (the API server calls ConvertTo); the API   *)
(* server refuses the write if the resource was written since the read.    *)
(***************************************************************************)
EXTENDS Naturals, Functions, ConversionFields

CONSTANT
  Edited        \* Edited[i]: the paths that the i-th edit of a client chooses
                \* from; Len(Edited) bounds the number of edits

ASSUME EditedAssumption ==
  Edited \in Seq(SUBSET (Alpha!ArgoCD \cup Beta!ArgoCD))

VARIABLES
  stored,       \* the stored v1beta1 resource
  copy,         \* the v1alpha1 client's copy of the resource
  fresh,        \* no write of the resource since the copy was read
  phase,        \* of the v1alpha1 client: "idle" or "editing"
  edits         \* number of edits so far

vars == <<stored, copy, fresh, phase, edits>>

(* Values: set by a client of either version, and what ConvertTo sets.     *)
AlphaValue == "alpha"
BetaValue == "beta"
SSOProviderTypeDex == "dex"

Empty == [p \in {} |-> BetaValue]

SpecPath(field, paths) == Under("Spec", Under(field, paths))
-----------------------------------------------------------------------------
(* Conversion of a whole resource.                                         *)

KeptByConvertTo ==
  Leaves({"ObjectMeta"})
    \cup Under("Spec", ConvertToRest)
    \cup SpecPath("SSO", ConvertAlphaToBetaSSO)
    \cup Under("Status", Beta!ArgoCDStatus)

KeptByConvertFrom ==
  Leaves({"ObjectMeta"})
    \cup Under("Spec", ConvertFromRest)
    \cup SpecPath("SSO", ConvertBetaToAlphaSSO)
    \cup Under("Status", Alpha!ArgoCDStatus)

(* The deprecated fields .spec.sso.image, version, verifyTLS and resources *)
(* of v1alpha1, and the field of .spec.sso.keycloak each of them becomes.  *)
KeycloakFields == {"Image", "Version", "VerifyTLS", "Resources"}
DeprecatedKeycloak(f) == <<"Spec", "SSO", f>>
Keycloak(f) == <<"Spec", "SSO", "Keycloak", f>>

OverrideKeycloak(src, dst) ==
  IF \E f \in KeycloakFields : DeprecatedKeycloak(f) \in DOMAIN src
  THEN LET given == {f \in KeycloakFields :
                       DeprecatedKeycloak(f) \in DOMAIN src}
           kept == DOMAIN dst \ {Keycloak(f) : f \in KeycloakFields}
       IN [p \in kept \cup {Keycloak(f) : f \in given} |->
             IF p \in kept THEN dst[p]
             ELSE src[DeprecatedKeycloak(p[4])]]
  ELSE dst

(* The deprecated .spec.dex of v1alpha1 replaces .spec.sso.dex, when it    *)
(* configures something.                                                   *)
DexConfigured(src) ==
  \/ <<"Spec", "Dex", "Config">> \in DOMAIN src
  \/ <<"Spec", "Dex", "OpenShiftOAuth">> \in DOMAIN src

(* Bug variant: the field that v1beta1 already holds wins. *)
OverrideDexIfAbsent(src, dst) == dst

OverrideDex(src, dst) ==
  IF DexConfigured(src)
  THEN LET kept == DOMAIN dst \ SpecPath("SSO", Under("Dex", Beta!ArgoCDDexSpec))
           dex == {f \in ConvertAlphaToBetaDex :
                     <<"Spec", "Dex">> \o f \in DOMAIN src}
           provider == <<"Spec", "SSO", "Provider">>
       IN [p \in kept \cup {provider} \cup
                 SpecPath("SSO", Under("Dex", dex)) |->
             CASE p = provider -> SSOProviderTypeDex
               [] p \in kept \ {provider} -> dst[p]
               [] OTHER -> src[<<"Spec", "Dex", p[4]>>]]
  ELSE dst

(* Bug variant: the image and the version of Keycloak are swapped. *)
ConvertToSwapped(src) ==
  LET dst == OverrideDex(src, OverrideKeycloak(src,
               Restrict(src, DOMAIN src \cap KeptByConvertTo)))
      swap(p) == CASE p = <<"Spec", "SSO", "Keycloak", "Image">> ->
                        <<"Spec", "SSO", "Keycloak", "Version">>
                   [] p = <<"Spec", "SSO", "Keycloak", "Version">> ->
                        <<"Spec", "SSO", "Keycloak", "Image">>
                   [] OTHER -> p
  IN [p \in {swap(q) : q \in DOMAIN dst} |-> dst[swap(p)]]

ConvertTo(src) ==
  OverrideDex(src,
    OverrideKeycloak(src, Restrict(src, DOMAIN src \cap KeptByConvertTo)))

(* Bug variant: fields that only v1beta1 has are left in. *)
ConvertFromWhole(src) == src

ConvertFrom(src) == Restrict(src, DOMAIN src \cap KeptByConvertFrom)
-----------------------------------------------------------------------------
Put(obj, p, v) == [q \in DOMAIN obj \cup {p} |-> IF q = p THEN v ELSE obj[q]]
Clear(obj, p) == Restrict(obj, DOMAIN obj \ {p})

TypeOK ==
  /\ DOMAIN stored \subseteq Beta!ArgoCD
  /\ DOMAIN copy \subseteq Alpha!ArgoCD
  /\ fresh \in BOOLEAN
  /\ phase \in {"idle", "editing"}
  /\ edits \in 0..Len(Edited)

(* The stored resource is new, or one that sets every field of v1beta1.    *)
Init ==
  /\ stored \in {Empty, [p \in Beta!ArgoCD |-> BetaValue]}
  /\ copy = Empty
  /\ fresh = FALSE
  /\ phase = "idle"
  /\ edits = 0

(* A client of v1beta1 sets or clears a field of the stored resource.      *)
EditBeta(p) ==
  /\ edits < Len(Edited)
  /\ p \in Edited[edits + 1]
  /\ stored' \in {Put(stored, p, BetaValue), Clear(stored, p)}
  /\ stored' # stored
  /\ fresh' = FALSE
  /\ edits' = edits + 1
  /\ UNCHANGED <<copy, phase>>

(* The client of v1alpha1 reads the resource.                              *)
ReadAlpha ==
  /\ phase = "idle"
  /\ copy' = ConvertFrom(stored)
  /\ fresh' = TRUE
  /\ phase' = "editing"
  /\ UNCHANGED <<stored, edits>>

EditAlpha(p) ==
  /\ phase = "editing"
  /\ edits < Len(Edited)
  /\ p \in Edited[edits + 1]
  /\ copy' \in {Put(copy, p, AlphaValue), Clear(copy, p)}
  /\ copy' # copy
  /\ edits' = edits + 1
  /\ UNCHANGED <<stored, fresh, phase>>

(* It writes its copy back; the API server compares the resource versions. *)
WriteAlpha ==
  /\ phase = "editing"
  /\ fresh
  /\ stored' = ConvertTo(copy)
  /\ copy' = Empty
  /\ fresh' = FALSE
  /\ phase' = "idle"
  /\ UNCHANGED edits

ConflictAlpha ==
  /\ phase = "editing"
  /\ ~fresh
  /\ copy' = Empty
  /\ fresh' = FALSE
  /\ phase' = "idle"
  /\ UNCHANGED <<stored, edits>>

Next ==
  \/ \E p \in Beta!ArgoCD : EditBeta(p)
  \/ ReadAlpha
  \/ \E p \in Alpha!ArgoCD : EditAlpha(p)
  \/ WriteAlpha
  \/ ConflictAlpha

Spec == Init /\ [][Next]_vars
-----------------------------------------------------------------------------
(* Properties.                                                             *)

Zero == "zero"
Value(obj, p) == IF p \in DOMAIN obj THEN obj[p] ELSE Zero

SharedPaths == Alpha!ArgoCD \cap Beta!ArgoCD

(* Fields of both versions that the conversion drops in one or in both     *)
(* directions.                                                             *)
DroppedFields ==
  SpecPath("NetworkPolicy", Beta!ArgoCDNetworkPolicySpec)
    \cup {<<"Spec", "InstallationID">>, <<"Spec", "ImagePullPolicy">>,
          <<"Spec", "Server", "EnableRolloutsUI">>}

(* The paths of v1beta1 that the deprecated fields of a v1alpha1 resource  *)
(* take the place of.                                                      *)
Overridden(obj) ==
  (IF \E f \in KeycloakFields : DeprecatedKeycloak(f) \in DOMAIN obj
   THEN {Keycloak(f) : f \in KeycloakFields} ELSE {})
  \cup (IF DexConfigured(obj)
        THEN SpecPath("SSO", Under("Dex", Beta!ArgoCDDexSpec) \cup
                             Leaves({"Provider"}))
        ELSE {})

(* A client of v1alpha1 that writes its copy back changes no field that it *)
(* did not edit: ConvertTo restores what ConvertFrom has shown of every    *)
(* field that both versions have, except DroppedFields.                    *)
UneditedFieldsSurvive ==
  [][WriteAlpha =>
       LET read == ConvertFrom(stored)
       IN \A p \in SharedPaths \ (DroppedFields \cup Overridden(copy)) :
            Value(copy, p) = Value(read, p)
              => Value(stored', p) = Value(stored, p)]_vars

(* What a client of v1alpha1 sets takes effect: a deprecated field in the  *)
(* field it was replaced by, whatever v1beta1 held there ("deprecated      *)
(* fields will have more priority"), any other field in the field of the   *)
(* same name. The exceptions are DroppedFields, which ConvertTo or         *)
(* ConvertFrom forgets; fields of .spec.sso that a deprecated field set at *)
(* the same time overrides; fields of v1alpha1 that v1beta1 lacks; and a   *)
(* .spec.dex that sets neither config nor OpenShiftOAuth, which ConvertTo  *)
(* ignores (DexConfigured).                                                *)
EditsTakeEffect ==
  [][WriteAlpha =>
       \A p \in DOMAIN copy :
         copy[p] = AlphaValue =>
           CASE p \in {DeprecatedKeycloak(f) : f \in KeycloakFields} ->
                  Value(stored', Keycloak(p[3])) = AlphaValue
             [] p \in SpecPath("Dex", Alpha!ArgoCDDexSpec) /\ DexConfigured(copy) ->
                  /\ Value(stored', <<"Spec", "SSO", "Dex", p[3]>>) = AlphaValue
                  /\ Value(stored', <<"Spec", "SSO", "Provider">>)
                       = SSOProviderTypeDex
             [] p \in SharedPaths \ (DroppedFields \cup Overridden(copy)) ->
                  Value(stored', p) = AlphaValue
             [] OTHER -> TRUE]_vars

(* Reading and writing back through v1alpha1 a second time changes nothing *)
(* more: what the first round trip leaves is stable, so that a controller  *)
(* that still uses v1alpha1 does not change the resource for ever.         *)
RoundTripStable ==
  LET once == ConvertTo(ConvertFrom(stored))
  IN ConvertTo(ConvertFrom(once)) = once

(* The comment in ConvertFrom on the sso fields: there is no data loss     *)
(* "since the new fields in v1beta1 are also present in v1alpha1". A write *)
(* of an unedited copy leaves every sso field as it was.                   *)
NoSSODataLoss ==
  [][WriteAlpha /\ copy = ConvertFrom(stored) =>
       \A p \in SpecPath("SSO", Beta!ArgoCDSSOSpec) :
         Value(stored', p) = Value(stored, p)]_vars
=============================================================================
