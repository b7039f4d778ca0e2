---------------------------- MODULE MCConversion ----------------------------
(***************************************************************************)
(* Instances of Conversion for TLC.                                        *)
(***************************************************************************)
EXTENDS Conversion

(* Every field of both versions. *)
EveryField == Alpha!ArgoCD \cup Beta!ArgoCD

(* The fields that ConvertTo treats specially. *)
SSOFields ==
  SpecPath("SSO", Alpha!ArgoCDSSOSpec \cup Beta!ArgoCDSSOSpec)
    \cup SpecPath("Dex", Alpha!ArgoCDDexSpec)

(* A deprecated field of each kind, the fields that replace it. *)
DeprecatedAndSuccessors ==
  {<<"Spec", "SSO", "Image">>, <<"Spec", "SSO", "Keycloak", "Image">>,
   <<"Spec", "SSO", "Version">>, <<"Spec", "Dex", "Config">>,
   <<"Spec", "SSO", "Dex", "Config">>, <<"Spec", "Dex", "Image">>}

(* Any field first, then one that ConvertTo treats specially. *)
AnyThenSSO == <<EveryField, DeprecatedAndSuccessors>>

OneSSO == <<SSOFields>>
=============================================================================
